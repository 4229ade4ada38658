----------------------------- MODULE Symposium -----------------------------
(***************************************************************************)
(* The dining philosophers of symposium.c: a table, which is a monitor,    *)
(* its philosophers, and the host that makes them and frees the table.     *)
(* A philosopher is a process (SymposiumOfProcesses) or a thread           *)
(* (SymposiumOfThreads) of the host.                                       *)
(*                                                                         *)
(* What is done under the mutex of the table is one step; Cond_Wait() ends *)
(* a step and the return from it starts one.                               *)
(***************************************************************************)
EXTENDS Integers, FiniteSets

CONSTANTS MaxPhilosophers,    \* bound on N
          Bites,
          FreeProcs           \* PCBs that are free when the host starts

ASSUME SymposiumAssumption ==
    /\ {MaxPhilosophers, Bites} \subseteq Nat \ {0}
    /\ FreeProcs \in Nat

Philosophers == 0 .. MaxPhilosophers - 1

VARIABLES
    N, kind,
    seat,         \* state[] of the table
    phil,         \* where each philosopher is in SymposiumTable_philosopher()
    eaten,        \* its loop counter
    host, next,   \* where the host is, and its loop counter
    tableFreed

symposiumVars == <<N, kind, seat, phil, eaten, host, next, tableFreed>>

LEFT(i) == (i + 1) % N
RIGHT(i) == (i + N - 1) % N

SymposiumInit ==
    /\ N = 1 /\ kind = "threads"
    /\ seat = [i \in Philosophers |-> "NOTHERE"]
    /\ phil = [i \in Philosophers |-> "none"]
    /\ eaten = [i \in Philosophers |-> 0]
    /\ host = "off" /\ next = 0
    /\ tableFreed = FALSE

-----------------------------------------------------------------------------
(* The host.                                                               *)

\* SymposiumTable_init()
SymposiumStart ==
    /\ host = "off"
    /\ N' \in 1 .. MaxPhilosophers
    /\ kind' \in {"processes", "threads"}
    /\ host' = "create"
    /\ UNCHANGED <<seat, phil, eaten, next, tableFreed>>

\* Exec() or CreateThread().  Exec() fails when there is no PCB left, and
\* the host does not look at its result.
Create ==
    /\ host = "create"
    /\ phil' = [phil EXCEPT ![next] =
                   IF kind = "threads" \/ next < FreeProcs THEN "arrive" ELSE @]
    /\ next' = IF next = N - 1 THEN 0 ELSE next + 1
    /\ host' = IF next = N - 1 THEN "wait" ELSE "create"
    /\ UNCHANGED <<N, kind, seat, eaten, tableFreed>>

\* Faulty variant: WaitChild() waits although there is no child.
ReapAChild ==
    /\ host = "wait"
    /\ \E i \in Philosophers : phil[i] = "exited" /\ phil' = [phil EXCEPT ![i] = "reaped"]
    /\ next' = IF next = N - 1 THEN 0 ELSE next + 1
    /\ host' = IF next = N - 1 THEN "destroy" ELSE "wait"
    /\ UNCHANGED <<N, kind, seat, eaten, tableFreed>>

\* WaitChild(NOPROC): some child that has exited, or at once when there is
\* no child.  ThreadJoin() waits for the threads in order.
Reap ==
    /\ host = "wait"
    /\ \/ /\ kind = "processes"
          /\ \/ \E i \in Philosophers : phil[i] = "exited"
                                         /\ phil' = [phil EXCEPT ![i] = "reaped"]
             \/ /\ \A i \in Philosophers : phil[i] \in {"none", "reaped"}
                /\ UNCHANGED phil
       \/ /\ kind = "threads"
          /\ phil[next] = "exited"
          /\ phil' = [phil EXCEPT ![next] = "reaped"]
    /\ next' = IF next = N - 1 THEN 0 ELSE next + 1
    /\ host' = IF next = N - 1 THEN "destroy" ELSE "wait"
    /\ UNCHANGED <<N, kind, seat, eaten, tableFreed>>

\* SymposiumTable_destroy()
Destroy ==
    /\ host = "destroy"
    /\ tableFreed' = TRUE
    /\ host' = "done"
    /\ UNCHANGED <<N, kind, seat, phil, eaten, next>>

HostStep == Create \/ Reap \/ Destroy

-----------------------------------------------------------------------------
(* The philosophers.                                                       *)

\* trytoeat(S, i): the states afterwards, given the states s.
trytoeat(s, i) ==
    IF s[i] = "HUNGRY" /\ s[LEFT(i)] # "EATING" /\ s[RIGHT(i)] # "EATING"
    THEN [s EXCEPT ![i] = "EATING"] ELSE s

\* Cond_Signal(&hungry[i]), for those that trytoeat() lets eat.
Signalled(s) ==
    [i \in Philosophers |->
        IF phil[i] = "asleep" /\ s[i] # seat[i] THEN "woken" ELSE phil[i]]

Arrive(i) ==
    /\ phil[i] = "arrive"
    /\ seat' = [seat EXCEPT ![i] = "THINKING"]
    /\ phil' = [phil EXCEPT ![i] = "think"]
    /\ UNCHANGED <<N, kind, eaten, host, next, tableFreed>>

\* Thinking is over: try to eat, and go to sleep if that fails.
Hunger(i) ==
    LET s == trytoeat([seat EXCEPT ![i] = "HUNGRY"], i) IN
    /\ phil[i] = "think" /\ eaten[i] < Bites
    /\ seat' = s
    /\ phil' = [phil EXCEPT ![i] = IF s[i] = "HUNGRY" THEN "asleep" ELSE "eat"]
    /\ UNCHANGED <<N, kind, eaten, host, next, tableFreed>>

\* The return of Cond_Wait(), and the test of the loop around it.
WakeUp(i) ==
    /\ phil[i] = "woken"
    /\ phil' = [phil EXCEPT ![i] = IF seat[i] = "HUNGRY" THEN "asleep" ELSE "eat"]
    /\ UNCHANGED <<N, kind, seat, eaten, host, next, tableFreed>>

\* Faulty variant: only the left neighbour is asked.
SatedLeft(i) ==
    LET s == trytoeat([seat EXCEPT ![i] = "THINKING"], LEFT(i)) IN
    /\ phil[i] = "eat"
    /\ seat' = s
    /\ phil' = [Signalled(s) EXCEPT ![i] = "think"]
    /\ eaten' = [eaten EXCEPT ![i] = @ + 1]
    /\ UNCHANGED <<N, kind, host, next, tableFreed>>

\* Eating is over: perhaps the neighbours can eat now.
Sated(i) ==
    LET s == trytoeat(trytoeat([seat EXCEPT ![i] = "THINKING"], LEFT(i)), RIGHT(i)) IN
    /\ phil[i] = "eat"
    /\ seat' = s
    /\ phil' = [Signalled(s) EXCEPT ![i] = "think"]
    /\ eaten' = [eaten EXCEPT ![i] = @ + 1]
    /\ UNCHANGED <<N, kind, host, next, tableFreed>>

\* All bites eaten: the philosopher leaves, and its process or thread exits.
LeaveTable(i) ==
    /\ phil[i] = "think" /\ eaten[i] = Bites
    /\ seat' = [seat EXCEPT ![i] = "NOTHERE"]
    /\ phil' = [phil EXCEPT ![i] = "exited"]
    /\ UNCHANGED <<N, kind, eaten, host, next, tableFreed>>

PhilosopherStep(i) ==
    Arrive(i) \/ Hunger(i) \/ WakeUp(i) \/ Sated(i) \/ LeaveTable(i)

SymposiumNext ==
    SymposiumStart \/ HostStep \/ \E i \in Philosophers : PhilosopherStep(i)

\* Host and philosophers run; nobody thinks or eats for ever.
SymposiumFairness ==
    /\ WF_symposiumVars(HostStep)
    /\ \A i \in Philosophers : WF_symposiumVars(PhilosopherStep(i))

SymposiumSpec ==
    SymposiumInit /\ [][SymposiumNext]_symposiumVars /\ SymposiumFairness

-----------------------------------------------------------------------------
(* Properties.                                                             *)

AtTable == {"arrive", "think", "asleep", "woken", "eat"}

(* No two neighbours eat at the same time; whoever is hungry has a         *)
(* neighbour that eats, so no chance to eat is passed over; a philosopher  *)
(* eats exactly when the table says so (the assertion behind the loop);    *)
(* and the table is freed only when everyone has left.                     *)
TableSound ==
    /\ \A i \in 0 .. N - 1 :
          /\ seat[i] = "EATING" => \A j \in {LEFT(i), RIGHT(i)} \ {i} : seat[j] # "EATING"
          /\ seat[i] = "HUNGRY" => seat[LEFT(i)] = "EATING" \/ seat[RIGHT(i)] = "EATING"
          /\ phil[i] = "asleep" => seat[i] = "HUNGRY"
          /\ phil[i] \in {"eat", "woken"} => seat[i] = "EATING"
    /\ tableFreed => \A i \in Philosophers : phil[i] \notin AtTable

(* The symposium ends: everyone gets all the bites, and the host returns,  *)
(* also when some of the philosophers could not be made.                   *)
SymposiumEnds == []<>(host \in {"off", "done"})
=============================================================================
