------------------------------ MODULE Processes ------------------------------
(***************************************************************************)
(* The process table of kernel_proc.c: Exec(), WaitChild(), Exit(), and    *)
(* what the last thread of a process does in sys_ThreadExit()              *)
(* (kernel_threads.c): children pass to init, the process becomes a zombie *)
(* of its parent, and its PCB goes back to the free list once the parent   *)
(* has waited for it.                                                      *)
(*                                                                         *)
(* A call runs inside the kernel's monitor (module Monitor) and is one     *)
(* action up to its end or to kernel_wait(), but for the loop of init's    *)
(* Exit(), whose turns are actions of the thread that is inside (kernel).  *)
(***************************************************************************)
EXTENDS Integers, Sequences, FiniteSets, SequencesExt

CONSTANTS MAX_PROC,
          Threads,       \* TCBs
          Nobody,        \* no thread is inside the monitor
          SharedWaits,   \* several threads of a process may wait for a child
          InitLeaves     \* init may end other than by Exit() in its last thread

ASSUME ProcAssumption == /\ MAX_PROC \in Nat /\ MAX_PROC > 1
                         /\ Threads # {} /\ IsFiniteSet(Threads)
                         /\ Nobody \notin Threads
                         /\ SharedWaits \in BOOLEAN /\ InitLeaves \in BOOLEAN

VARIABLES
    pstate, parent, children_list, exited_list, thread_count,   \* the PCBs
    pcb_freelist, process_count,
    owner,      \* the process of each thread
    place,      \* what each thread does
    child,      \* the child it waits for
    kernel,     \* the thread inside the monitor, between two actions
    aborted     \* an assert() of sys_ThreadExit() failed

treeVars == <<pstate, parent, children_list, exited_list>>
tableVars == <<pcb_freelist, process_count>>
threadVars == <<thread_count, owner, place, child>>
vars == <<treeVars, tableVars, threadVars, kernel, aborted>>

Pids == 0 .. MAX_PROC - 1
NOPROC == -1
InitPid == 1
InitThread == CHOOSE t \in Threads : TRUE

\* A thread is asleep in WaitChild(pid), in WaitChild(NOPROC), or in the
\* latter called by init's Exit(); or it was woken up from there.
Asleep == {"one", "any", "exit"}
Woken(where) == CASE where = "one" -> "one woken"
                  [] where = "any" -> "any woken"
                  [] where = "exit" -> "exit woken"
Places == {"none", "running", "exit loop"} \cup Asleep
          \cup {Woken(where) : where \in Asleep}

\* After initialize_processes() and the Exec() of init: a null process 0,
\* init with one thread, the other PCBs in the free list.
Init ==
    /\ pstate = [p \in Pids |-> IF p <= InitPid THEN "ALIVE" ELSE "FREE"]
    /\ parent = [p \in Pids |-> IF p <= InitPid \/ p = MAX_PROC - 1
                                THEN NOPROC ELSE p + 1]
    /\ children_list = [p \in Pids |-> <<>>]
    /\ exited_list = [p \in Pids |-> <<>>]
    /\ thread_count = [p \in Pids |-> IF p = InitPid THEN 1 ELSE 0]
    /\ pcb_freelist = IF MAX_PROC = 2 THEN NOPROC ELSE 2
    /\ process_count = 2
    /\ owner = [t \in Threads |-> IF t = InitThread THEN InitPid ELSE NOPROC]
    /\ place = [t \in Threads |-> IF t = InitThread THEN "running" ELSE "none"]
    /\ child = [t \in Threads |-> NOPROC]
    /\ kernel = Nobody
    /\ aborted = FALSE

Calls(t) == kernel = Nobody /\ place[t] = "running" /\ ~ aborted

\* spawn_thread() and wakeup(): a free TCB, it does not matter which, starts
\* to run for process p.
Start(p) ==
    LET free == {t \in Threads : place[t] = "none"}
        u == CHOOSE t \in free : TRUE
    IN  /\ free # {}
        /\ place' = [place EXCEPT ![u] = "running"]
        /\ owner' = [owner EXCEPT ![u] = p]
        /\ thread_count' = [thread_count EXCEPT ![p] = @ + 1]
        /\ UNCHANGED child

-----------------------------------------------------------------------------
(* Exec() and CreateThread()                                               *)

\* Faulty variant: the PCB stays at the head of the free list.
AcquireKeeping(p) ==
    /\ p = pcb_freelist
    /\ process_count' = process_count + 1
    /\ UNCHANGED pcb_freelist

acquire_PCB(p) ==
    /\ p = pcb_freelist
    /\ pcb_freelist' = parent[p]
    /\ process_count' = process_count + 1

\* sys_Exec(); when the free list is empty it fails and changes nothing.
Exec(t) ==
    /\ Calls(t)
    /\ \E p \in Pids :
          /\ acquire_PCB(p)
          /\ pstate' = [pstate EXCEPT ![p] = "ALIVE"]
          /\ parent' = [parent EXCEPT ![p] = owner[t]]
          /\ children_list' = [children_list EXCEPT ![owner[t]] = <<p>> \o @]
          /\ Start(p)
    /\ UNCHANGED <<exited_list, kernel, aborted>>

CreateThread(t) ==
    /\ Calls(t)
    /\ Start(owner[t])
    /\ UNCHANGED <<treeVars, tableVars, kernel, aborted>>

-----------------------------------------------------------------------------
(* WaitChild()                                                             *)

\* rlist_remove() takes a node out of whatever list it is in.
Unlinked(lists, p) ==
    [q \in Pids |->
       LET at == {i \in DOMAIN lists[q] : lists[q][i] = p}
       IN  IF at = {} THEN lists[q] ELSE RemoveAt(lists[q], CHOOSE i \in at : TRUE)]

\* The free list is linked through the parent field.
release_PCB(p) ==
    /\ pstate' = [pstate EXCEPT ![p] = "FREE"]
    /\ parent' = [parent EXCEPT ![p] = pcb_freelist]
    /\ pcb_freelist' = p
    /\ process_count' = process_count - 1

cleanup_zombie(p) ==
    /\ children_list' = Unlinked(children_list, p)
    /\ exited_list' = Unlinked(exited_list, p)
    /\ release_PCB(p)

\* Other threads of t's process that are in WaitChild().
Waiters(t) == {u \in Threads : u # t /\ owner[u] = owner[t]
                               /\ place[u] \notin {"none", "running"}}

\* The test of wait_for_specific_child() and what follows.
WaitForSpecific(t, c) ==
    \/ /\ pstate[c] = "ALIVE"
       /\ place' = [place EXCEPT ![t] = "one"]
       /\ child' = [child EXCEPT ![t] = c]
       /\ UNCHANGED <<treeVars, tableVars>>
    \/ /\ pstate[c] # "ALIVE"
       /\ cleanup_zombie(c)
       /\ place' = [place EXCEPT ![t] = "running"]
       /\ child' = [child EXCEPT ![t] = NOPROC]

\* Unless SharedWaits, the program lets no other thread wait for c.
WaitChild(t, c) ==
    /\ Calls(t)
    /\ pstate[c] # "FREE" /\ parent[c] = owner[t]
    /\ SharedWaits \/ \A u \in Waiters(t) : child[u] \notin {c, NOPROC}
    /\ WaitForSpecific(t, c)
    /\ UNCHANGED <<thread_count, owner, kernel, aborted>>

WaitChildResume(t) ==
    /\ kernel = Nobody /\ ~ aborted
    /\ place[t] = "one woken"
    /\ WaitForSpecific(t, child[t])
    /\ UNCHANGED <<thread_count, owner, kernel, aborted>>

\* wait_for_any_child(), from its start or from kernel_wait() on.
WaitForAny(t) ==
    LET p == owner[t]
    IN  \/ /\ children_list[p] = <<>>
           /\ place' = [place EXCEPT ![t] = "running"]
           /\ UNCHANGED <<treeVars, tableVars>>
        \/ /\ children_list[p] # <<>> /\ exited_list[p] # <<>>
           /\ cleanup_zombie(Head(exited_list[p]))
           /\ place' = [place EXCEPT ![t] = "running"]
        \/ /\ children_list[p] # <<>> /\ exited_list[p] = <<>>
           /\ place' = [place EXCEPT ![t] = "any"]
           /\ UNCHANGED <<treeVars, tableVars>>

WaitAny(t) ==
    /\ Calls(t)
    /\ SharedWaits \/ \A u \in Waiters(t) : child[u] = NOPROC
    /\ WaitForAny(t)
    /\ UNCHANGED <<thread_count, owner, child, kernel, aborted>>

WaitAnyResume(t) ==
    /\ kernel = Nobody /\ ~ aborted
    /\ place[t] = "any woken"
    /\ WaitForAny(t)
    /\ UNCHANGED <<thread_count, owner, child, kernel, aborted>>

-----------------------------------------------------------------------------
(* Exit() and ThreadExit()                                                 *)

\* Faulty variant: the broadcast to the parent is missing.
WakeInitOnly(pl, p, heirs) ==
    [t \in Threads |-> IF owner[t] = InitPid /\ heirs # <<>> /\ pl[t] \in Asleep
                       THEN Woken(pl[t]) ELSE pl[t]]

\* The threads woken up by the broadcasts on the child_exit of p, and of
\* init when it inherits zombies.
WakeWaiters(pl, p, heirs) ==
    [t \in Threads |-> IF /\ pl[t] \in Asleep
                          /\ owner[t] = p \/ (owner[t] = InitPid /\ heirs # <<>>)
                       THEN Woken(pl[t]) ELSE pl[t]]

\* Faulty variant: the children keep their parent.
KeepChildren(p) ==
    /\ children_list' = children_list
    /\ UNCHANGED parent

\* Children go to init, each to the front of its children_list.
Reparent(p) ==
    /\ children_list' = [children_list EXCEPT
                           ![InitPid] = Reverse(children_list[p]) \o @,
                           ![p] = <<>>]
    /\ parent' = [q \in Pids |-> IF q \in ToSet(children_list[p])
                                 THEN InitPid ELSE parent[q]]

\* The end of process p other than init, in sys_ThreadExit().
ProcessEnds(p) ==
    /\ Reparent(p)
    /\ LET inherited == [exited_list EXCEPT ![InitPid] = @ \o exited_list[p],
                                            ![p] = <<>>]
       IN  exited_list' = [inherited EXCEPT ![parent[p]] = <<p>> \o @]
    /\ UNCHANGED aborted

\* The end of init: it asserts that it has no child left.
InitEnds ==
    /\ aborted' = (children_list[InitPid] # <<>> \/ exited_list[InitPid] # <<>>)
    /\ UNCHANGED <<parent, children_list, exited_list>>

\* sys_ThreadExit() as far as processes are concerned; the TCB is free again.
ThreadEnds(t) ==
    LET p == owner[t]
        gone == [place EXCEPT ![t] = "none"]
    IN  /\ thread_count' = [thread_count EXCEPT ![p] = @ - 1]
        /\ owner' = [owner EXCEPT ![t] = NOPROC]
        /\ child' = [child EXCEPT ![t] = NOPROC]
        /\ \/ /\ thread_count[p] > 1
              /\ place' = gone
              /\ UNCHANGED <<treeVars, aborted>>
           \/ /\ thread_count[p] = 1 /\ p # InitPid
              /\ ProcessEnds(p)
              /\ place' = WakeWaiters(gone, parent[p], exited_list[p])
              /\ pstate' = [pstate EXCEPT ![p] = "ZOMBIE"]
           \/ /\ thread_count[p] = 1 /\ p = InitPid
              /\ InitEnds
              /\ place' = gone
              /\ pstate' = [pstate EXCEPT ![p] = "ZOMBIE"]
        /\ UNCHANGED tableVars

\* ThreadExit(), and Exit() in a process other than init.  Unless InitLeaves,
\* init's last thread does not call it.
ThreadExit(t) ==
    /\ Calls(t)
    /\ InitLeaves \/ owner[t] # InitPid \/ thread_count[InitPid] > 1
    /\ ThreadEnds(t)
    /\ UNCHANGED kernel

\* Exit() in init, up to while(sys_WaitChild(NOPROC, NULL) != NOPROC).
InitExit(t) ==
    /\ Calls(t)
    /\ owner[t] = InitPid
    /\ InitLeaves \/ thread_count[InitPid] = 1
    /\ kernel' = t
    /\ place' = [place EXCEPT ![t] = "exit loop"]
    /\ UNCHANGED <<treeVars, tableVars, thread_count, owner, child, aborted>>

\* One turn of this loop, or the end of it.
InitExitLoop(t) ==
    /\ kernel = t /\ ~ aborted
    /\ \/ /\ children_list[InitPid] = <<>>
          /\ ThreadEnds(t)
          /\ kernel' = Nobody
       \/ /\ children_list[InitPid] # <<>> /\ exited_list[InitPid] # <<>>
          /\ cleanup_zombie(Head(exited_list[InitPid]))
          /\ UNCHANGED <<threadVars, kernel, aborted>>
       \/ /\ children_list[InitPid] # <<>> /\ exited_list[InitPid] = <<>>
          /\ place' = [place EXCEPT ![t] = "exit"]
          /\ kernel' = Nobody
          /\ UNCHANGED <<treeVars, tableVars, thread_count, owner, child, aborted>>

InitExitResume(t) ==
    /\ kernel = Nobody /\ ~ aborted
    /\ place[t] = "exit woken"
    /\ kernel' = t
    /\ place' = [place EXCEPT ![t] = "exit loop"]
    /\ UNCHANGED <<treeVars, tableVars, thread_count, owner, child, aborted>>

-----------------------------------------------------------------------------

\* The way back from kernel_wait().
Resume(t) == \/ WaitChildResume(t) \/ WaitAnyResume(t)
             \/ InitExitLoop(t) \/ InitExitResume(t)

Next == \E t \in Threads :
           \/ Exec(t) \/ CreateThread(t)
           \/ WaitAny(t) \/ \E c \in Pids : WaitChild(t, c)
           \/ Resume(t) \/ ThreadExit(t) \/ InitExit(t)

\* The system is shut down: no thread is left, or an assertion failed.
Down == /\ aborted \/ \A t \in Threads : place[t] = "none"
        /\ UNCHANGED vars

Spec == Init /\ [][Next \/ Down]_vars

\* A thread that was woken up gets back into the monitor.  When init runs its
\* loop again and again this needs strong fairness; in a table too small for
\* that, weak fairness is enough.
Fairness == \A t \in Threads : WF_vars(Resume(t))

FairSpec == Spec /\ Fairness

-----------------------------------------------------------------------------
(* Properties.                                                             *)

(* The fields of the PCBs are well typed, and process_count stays within    *)
(* the size of the process table PT.                                        *)
TypeOK ==
    /\ pstate \in [Pids -> {"FREE", "ALIVE", "ZOMBIE"}]
    /\ parent \in [Pids -> Pids \cup {NOPROC}]
    /\ children_list \in [Pids -> Seq(Pids)]
    /\ exited_list \in [Pids -> Seq(Pids)]
    /\ thread_count \in [Pids -> Nat]
    /\ pcb_freelist \in Pids \cup {NOPROC}
    /\ process_count \in 0 .. MAX_PROC
    /\ owner \in [Threads -> Pids \cup {NOPROC}]
    /\ place \in [Threads -> Places]
    /\ child \in [Threads -> Pids \cup {NOPROC}]
    /\ kernel \in Threads \cup {Nobody}
    /\ aborted \in BOOLEAN

\* The free list holds the FREE PCBs, each once, and process_count counts the
\* others, although the links share the field parent with the processes' own.
FreeListSound ==
    LET free == {p \in Pids : pstate[p] = "FREE"}
        n == Cardinality(free)
    IN  /\ \E list \in Bijection(1 .. n, free) :
              /\ pcb_freelist = IF n = 0 THEN NOPROC ELSE list[1]
              /\ \A i \in 1 .. n :
                    parent[list[i]] = IF i = n THEN NOPROC ELSE list[i + 1]
        /\ process_count = MAX_PROC - n

\* Every process but the first two is a child of exactly one living process,
\* which has it once in its children_list, and once in its exited_list
\* exactly when it is a zombie: init adopts whatever order parents, children
\* and grandchildren end in.  When init ends, it has no child left, which
\* sys_ThreadExit() asserts.
FamilyTree ==
    /\ \A p \in Pids : p > InitPid /\ pstate[p] # "FREE" =>
          /\ parent[p] \in Pids /\ pstate[parent[p]] = "ALIVE"
          /\ p \in ToSet(children_list[parent[p]])
          /\ p \in ToSet(exited_list[parent[p]]) <=> pstate[p] = "ZOMBIE"
    /\ \A q \in Pids :
          /\ IsInjective(children_list[q]) /\ IsInjective(exited_list[q])
          /\ \A p \in ToSet(children_list[q]) \cup ToSet(exited_list[q]) :
                pstate[p] # "FREE" /\ parent[p] = q
    /\ ~ aborted

\* A process lives as long as it has threads, and dead ones have none.
ThreadCountExact ==
    \A p \in Pids :
       /\ thread_count[p] = Cardinality({t \in Threads : owner[t] = p})
       /\ p # 0 => (pstate[p] = "ALIVE" <=> thread_count[p] > 0)

\* No exit goes unnoticed: a thread asleep in WaitChild(c) has a child c that
\* is alive, and one asleep in WaitChild(NOPROC) or in init's Exit() has
\* children, and none that exited.
NoMissedExit ==
    \A t \in Threads :
       /\ place[t] = "one" => /\ pstate[child[t]] = "ALIVE"
                              /\ parent[child[t]] = owner[t]
       /\ place[t] \in {"any", "exit"} => /\ children_list[owner[t]] # <<>>
                                          /\ exited_list[owner[t]] = <<>>

\* No order of executions, exits and waits spoils the family of processes.
ProcessInvariant == TypeOK /\ FamilyTree /\ ThreadCountExact /\ NoMissedExit

\* A zombie of init is reaped once init is in Exit(), and a thread that waits
\* for a zombie returns.
ZombiesReaped ==
    /\ \A p \in Pids \ {0, InitPid} :
          []<>~ (/\ pstate[p] = "ZOMBIE" /\ parent[p] = InitPid
                 /\ \E t \in Threads : place[t] \in {"exit", "exit woken", "exit loop"})
    /\ \A t \in Threads :
          []<>~ (place[t] \in {"one", "one woken"} /\ pstate[child[t]] = "ZOMBIE")

\* "A PID can be either free (no process is using it), ALIVE (some running
\* process is using it), or ZOMBIE" (kernel_proc.h): the PID the free list
\* offers next is not in use.  Two threads of a process that wait for the
\* same child break this.
FreePidUnused == pcb_freelist # NOPROC => pstate[pcb_freelist] = "FREE"

=============================================================================
