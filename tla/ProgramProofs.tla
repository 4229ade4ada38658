--------------------------- MODULE ProgramProofs ---------------------------
(***************************************************************************)
(* Proofs about the programs around the kernel, each by itself and for     *)
(* every value of its constants: the barrier of tinyoslib.c, the dining    *)
(* philosophers, the remote server, the test harness, the start and the    *)
(* end of the virtual machine, and the command lines of the shell.         *)
(***************************************************************************)
EXTENDS Barrier, Symposium, RemoteServer, Harness, Terminals, Pipeline,
        FiniteSetTheorems, SequenceTheorems, TLAPS

-----------------------------------------------------------------------------
(* The inductive invariants.                                               *)

\* BarrierSync(): whoever is not asleep in the barrier has been through it
\* epoch times, or is about to be; count is the number of those asleep.
BarrierPlaces == {"off", "out", "asleep", "woken", "join", "exited"}

Asleep == {t \in Parties : bpc[t] = "asleep"}

BarrierTypes ==
    /\ epoch \in Nat /\ count \in Nat
    /\ mine \in [Parties -> Nat]
    /\ entered \in [Parties -> Nat]
    /\ left \in [Parties -> Nat]
    /\ bpc \in [Parties -> BarrierPlaces]

PartyInv(t) ==
    /\ bpc[t] \in {"off", "out", "join", "exited"} =>
          entered[t] = epoch /\ left[t] = epoch
    /\ bpc[t] = "asleep" => entered[t] = epoch + 1 /\ left[t] = epoch /\ mine[t] = epoch
    /\ bpc[t] = "woken" => entered[t] = epoch /\ left[t] + 1 = epoch /\ mine[t] + 1 = epoch

BarrierIInv ==
    /\ BarrierTypes
    /\ count = Cardinality(Asleep) /\ count <= Joiners
    /\ \A t \in Parties : PartyInv(t)

\* The table: the seats agree with the philosophers, nobody eats beside a
\* neighbour that eats, and nobody is hungry without one.
Seats == 0 .. N - 1

PhilosopherPlaces ==
    {"none", "arrive", "think", "asleep", "woken", "eat", "exited", "reaped"}

SeatOf(place) ==
    CASE place = "think" -> "THINKING"
      [] place = "asleep" -> "HUNGRY"
      [] place \in {"woken", "eat"} -> "EATING"
      [] OTHER -> "NOTHERE"

SymposiumTypes ==
    /\ N \in 1 .. MaxPhilosophers
    /\ kind \in {"processes", "threads"}
    /\ seat \in [Philosophers -> {"NOTHERE", "THINKING", "HUNGRY", "EATING"}]
    /\ phil \in [Philosophers -> PhilosopherPlaces]
    /\ host \in {"off", "create", "wait", "destroy", "done"}
    /\ next \in Seats

\* Of the seats s, nobody eats beside a neighbour that eats, and whoever is
\* hungry, those in X perhaps excepted, has a neighbour that eats.
FedBut(s, X) ==
    /\ \A i \in Seats : s[i] = "EATING" =>
          \A j \in {LEFT(i), RIGHT(i)} \ {i} : s[j] # "EATING"
    /\ \A i \in Seats \ X : s[i] = "HUNGRY" =>
          s[LEFT(i)] = "EATING" \/ s[RIGHT(i)] = "EATING"

SeatInv == \A i \in Philosophers : seat[i] = SeatOf(phil[i])

Reaped == {i \in Philosophers : phil[i] = "reaped"}

Gone(i) == phil[i] \in {"none", "reaped"}

\* The host: the philosophers it has not made are not there; it has reaped
\* as many as it has counted, or there is none left.
HostInv ==
    /\ host = "off" => next = 0 /\ \A i \in Philosophers : phil[i] = "none"
    /\ host = "create" => \A i \in Philosophers :
                              phil[i] # "reaped" /\ (i >= next => phil[i] = "none")
    /\ \A i \in Philosophers : i >= N => phil[i] = "none"
    /\ host = "wait" /\ kind = "threads" => \A i \in 0 .. next - 1 : phil[i] = "reaped"
    /\ host = "wait" /\ kind = "processes" =>
          (\A i \in Philosophers : Gone(i)) \/ Cardinality(Reaped) = next
    /\ host \in {"destroy", "done"} => \A i \in Philosophers : Gone(i)
    /\ tableFreed => host = "done"

TableIInv == SymposiumTypes /\ SeatInv /\ FedBut(seat, {}) /\ HostInv

\* The remote server: active_conn counts the connections that are served, if
\* nothing has gone wrong, and the console goes on only when there is none.
ServedPlaces == {"started", "receive", "served", "finish", "store"}

Served == {c \in Clients : cpc[c] \in ServedPlaces}

ServerTypes ==
    /\ quit \in BOOLEAN
    /\ active_conn \in Int /\ logcount \in Nat
    /\ lpc \in {"off", "listen", "accept", "accepting", "log_failure", "load", "store",
                "spawn", "exited", "crashed"}
    /\ cpc \in [Clients -> ServedPlaces \cup {"none", "asking", "refused", "exited"}]
    /\ creg \in [Clients -> Int] /\ lreg \in Int
    /\ console \in {"off", "command", "close", "join", "woken", "asleep", "truncate",
                    "returned"}

ServingInv ==
    lpc \in {"load", "store", "spawn"} => serving \in Clients /\ cpc[serving] = "asking"

ConnectionsCounted ==
    mishap = "none" =>
        active_conn = Cardinality(Served) + (IF lpc = "spawn" THEN 1 ELSE 0)

ConsoleInv ==
    /\ console = "off" => lpc = "off"
    /\ console \in {"off", "command"} => ~ quit
    /\ console \in {"woken", "asleep", "truncate"} \/ (console = "returned" /\ quit) =>
          lpc = "exited"
    /\ (console = "truncate" \/ (console = "returned" /\ quit)) /\ mishap = "none" =>
          active_conn = 0
    /\ console = "returned" /\ quit /\ mishap = "none" => log = <<>>

LogInv == console # "returned" => log = [i \in 1 .. logcount |-> i]

ServerIInv == ServerTypes /\ ServingInv /\ ConnectionsCounted /\ ConsoleInv /\ LogInv

\* The harness: until a pattern has failed, those that are not met are the
\* ones queued for a daemon and the one it works on.
Busy == {"poll", "check", "read", "write"}

HarnessTypes ==
    /\ screen \in Seq(BOOLEAN) /\ keys \in 0 .. TerminalFifo
    /\ pattern \in [Daemons -> Nat] /\ plen \in [Daemons -> Nat]
    /\ unmet \in [Daemons -> Int]
    /\ daemon \in [Daemons -> Busy \cup {"get", "ended"}]
    /\ complete \in [Daemons -> BOOLEAN]
    /\ FLAG_FAILURE \in BOOLEAN

DaemonCounts(d) ==
    /\ daemon[d] \in Busy <=> plen[d] > 0
    /\ ~ FLAG_FAILURE => unmet[d] = pattern[d] + (IF plen[d] > 0 THEN 1 ELSE 0)
    /\ complete[d] => test \in {"close", "exit", "abort", "killed"}
    /\ daemon[d] = "ended" => complete[d] /\ pattern[d] = 0

TestInv ==
    /\ test = "exit" => ~ FLAG_FAILURE /\ \A d \in Daemons : daemon[d] = "ended"
    /\ parent = "passed" => test = "exit"
    /\ parent = "off" <=> test = "none"

HarnessIInv == HarnessTypes /\ (\A d \in Daemons : DaemonCounts(d)) /\ TestInv

\* The machine: the PIC daemon and the cores go through the system barrier
\* together, at the start and at the end.
CorePlaces == {"off", "start", "boot", "booted", "run", "stopped", "leave", "leaving", "ended"}

CoresInv ==
    /\ cpu \in [Cores -> CorePlaces]
    /\ pic \in {"off", "start", "loop", "raise", "leaving", "close", "ended"}
    /\ pic = "off" => \A c \in Cores : cpu[c] = "off"
    /\ pic = "start" => \A c \in Cores : cpu[c] = "start"
    /\ pic \in {"loop", "raise", "leaving"} =>
          \A c \in Cores : cpu[c] \notin {"off", "start", "ended"}
    /\ pic \in {"close", "ended"} => \A c \in Cores : cpu[c] = "ended"

MachineIInv == CoresInv /\ ghost = FALSE

-----------------------------------------------------------------------------
(* The barrier.                                                            *)

\* The threads of the barrier are Joiners and the main one.
LEMMA PartiesFinite == IsFiniteSet(Parties) /\ Cardinality(Parties) = Joiners + 1
<1>1. 0 \in Int /\ Joiners \in Int /\ ~ (0 > Joiners)
  BY BarrierAssumption
<1>2. /\ IsFiniteSet(0 .. Joiners)
      /\ Cardinality(0 .. Joiners) = IF 0 > Joiners THEN 0 ELSE Joiners - 0 + 1
  BY <1>1, FS_Interval, Zenon
<1> QED  BY <1>1, <1>2 DEF Parties

\* The last one to come finds all the others asleep.
LEMMA LastFindsAllAsleep ==
    ASSUME NEW t \in Parties, t \notin Asleep, Cardinality(Asleep) = Joiners
    PROVE  Asleep = Parties \ {t}
<1>1. /\ IsFiniteSet(Parties \ {t})
      /\ Cardinality(Parties \ {t}) = Cardinality(Parties) - 1
  BY PartiesFinite, FS_RemoveElement
<1>2. Cardinality(Parties) - 1 = Joiners
  BY PartiesFinite, BarrierAssumption
<1>3. Asleep \in SUBSET (Parties \ {t})
  BY DEF Asleep
<1> QED  BY <1>1, <1>2, <1>3, FS_Subset

\* A call of BarrierSync().
LEMMA SyncKeeps ==
    ASSUME BarrierIInv, NEW t \in Parties, Sync(t)
    PROVE  BarrierIInv'
<1> DEFINE last == count + 1 = Joiners + 1
<1>1. /\ epoch \in Nat /\ count \in Nat /\ Joiners \in Nat
      /\ mine \in [Parties -> Nat] /\ entered \in [Parties -> Nat] /\ left \in [Parties -> Nat]
      /\ bpc \in [Parties -> BarrierPlaces] /\ bpc[t] = "out"
      /\ count = Cardinality(Asleep) /\ count <= Joiners
      /\ entered[t] = epoch /\ left[t] = epoch
      /\ \A u \in Parties : PartyInv(u)
  BY BarrierAssumption DEF BarrierIInv, BarrierTypes, Sync, PartyInv
<1>2. /\ mine' = [mine EXCEPT ![t] = epoch]
      /\ entered' = [entered EXCEPT ![t] = @ + 1]
      /\ count' = IF last THEN 0 ELSE count + 1
      /\ epoch' = IF last THEN epoch + 1 ELSE epoch
      /\ left' = IF last THEN [left EXCEPT ![t] = @ + 1] ELSE left
      /\ bpc' = [u \in Parties |-> IF u = t THEN (IF last THEN Onward(t) ELSE "asleep")
                                   ELSE IF last /\ bpc[u] = "asleep" THEN "woken" ELSE bpc[u]]
  BY DEF Sync
<1>3. Onward(t) \in {"out", "join"}
  BY DEF Onward
<1>4. BarrierTypes'
  <2>1. epoch' \in Nat /\ count' \in Nat /\ entered[t] + 1 \in Nat /\ left[t] + 1 \in Nat
    BY <1>1, <1>2
  <2> QED  BY <1>1, <1>2, <1>3, <2>1 DEF BarrierTypes, BarrierPlaces
<1> HIDE DEF last
<1>5. CASE last
  <2>1. Asleep = Parties \ {t}
    <3>1. Cardinality(Asleep) = Joiners
      BY <1>1, <1>5 DEF last
    <3> QED  BY <1>1, <3>1, LastFindsAllAsleep DEF Asleep
  <2>2. \A u \in Parties \ {t} : bpc[u] = "asleep" /\ bpc'[u] = "woken"
    BY <1>2, <1>5, <2>1 DEF Asleep
  <2>3. Asleep' = {}
    BY <1>2, <1>3, <1>5, <2>2 DEF Asleep
  <2>4. count' = Cardinality(Asleep') /\ count' <= Joiners
    BY <1>1, <1>2, <1>5, <2>3, FS_EmptySet
  <2>5. PartyInv(t)'
    BY <1>1, <1>2, <1>3, <1>5 DEF PartyInv
  <2>6. ASSUME NEW u \in Parties \ {t}
        PROVE  PartyInv(u)'
    BY <1>1, <1>2, <1>5, <2>2, <2>6 DEF PartyInv
  <2> QED  BY <1>4, <2>4, <2>5, <2>6 DEF BarrierIInv
<1>6. CASE ~ last
  <2>1. Asleep' = Asleep \cup {t} /\ t \notin Asleep
    BY <1>1, <1>2, <1>6 DEF Asleep
  <2>2. IsFiniteSet(Asleep)
    BY PartiesFinite, FS_Subset DEF Asleep
  <2>3. Cardinality(Asleep') = count + 1
    BY <1>1, <2>1, <2>2, FS_AddElement
  <2>4. count' = Cardinality(Asleep') /\ count' <= Joiners
    BY <1>1, <1>2, <1>6, <2>3 DEF last
  <2>5. PartyInv(t)'
    BY <1>1, <1>2, <1>6 DEF PartyInv
  <2>6. ASSUME NEW u \in Parties \ {t}
        PROVE  PartyInv(u)'
    BY <1>1, <1>2, <1>6, <2>6 DEF PartyInv
  <2> QED  BY <1>4, <2>4, <2>5, <2>6 DEF BarrierIInv
<1> QED  BY <1>5, <1>6

\* BarrierSync() goes on after a wait.
LEMMA SyncResumeKeeps ==
    ASSUME BarrierIInv, NEW t \in Parties, SyncResume(t)
    PROVE  BarrierIInv'
<1>1. /\ epoch \in Nat /\ bpc[t] = "woken" /\ entered[t] = epoch
      /\ left[t] + 1 = epoch /\ mine[t] + 1 = epoch
      /\ mine \in [Parties -> Nat] /\ entered \in [Parties -> Nat] /\ left \in [Parties -> Nat]
      /\ bpc \in [Parties -> BarrierPlaces]
  BY DEF BarrierIInv, BarrierTypes, SyncResume, PartyInv
<1>2. mine[t] # epoch
  BY <1>1
<1>3. /\ left' = [left EXCEPT ![t] = @ + 1]
      /\ bpc' = [bpc EXCEPT ![t] = Onward(t)]
      /\ Onward(t) \in {"out", "join"}
      /\ UNCHANGED <<epoch, count, mine, entered>>
  BY <1>2 DEF SyncResume, Onward
<1>4. BarrierTypes'
  <2>1. left[t] + 1 \in Nat
    BY <1>1
  <2> QED  BY <1>1, <1>3, <2>1 DEF BarrierIInv, BarrierTypes, BarrierPlaces
<1>5. Asleep' = Asleep
  BY <1>1, <1>3 DEF Asleep
<1>6. ASSUME NEW u \in Parties
      PROVE  PartyInv(u)'
  BY <1>1, <1>3 DEF BarrierIInv, PartyInv
<1> QED  BY <1>3, <1>4, <1>5, <1>6 DEF BarrierIInv

\* The steps that leave the barrier alone: the start, the joins, the end.
LEMMA OutsideKeeps ==
    ASSUME BarrierIInv, UNCHANGED <<epoch, count, mine, entered, left>>,
           bpc' \in [Parties -> BarrierPlaces],
           \A t \in Parties : bpc'[t] = bpc[t] \/ {bpc[t], bpc'[t]} \subseteq
                                                      {"off", "out", "join", "exited"}
    PROVE  BarrierIInv'
<1>1. BarrierTypes'
  BY DEF BarrierIInv, BarrierTypes
<1>2. Asleep' = Asleep
  BY DEF Asleep
<1>3. ASSUME NEW t \in Parties
      PROVE  PartyInv(t)'
  BY DEF BarrierIInv, PartyInv
<1> QED  BY <1>1, <1>2, <1>3 DEF BarrierIInv

\* Every step keeps the invariant of the barrier.
LEMMA BarrierStep == BarrierIInv /\ [BarrierNext]_barrierVars => BarrierIInv'
<1> SUFFICES ASSUME BarrierIInv, [BarrierNext]_barrierVars
             PROVE  BarrierIInv'
  OBVIOUS
<1>0. bpc \in [Parties -> BarrierPlaces]
  BY DEF BarrierIInv, BarrierTypes
<1>1. CASE UNCHANGED barrierVars
  BY <1>0, <1>1, OutsideKeeps DEF barrierVars
<1>2. CASE BarrierStart
  BY <1>0, <1>2, OutsideKeeps DEF BarrierStart, BarrierPlaces
<1>3. ASSUME NEW t \in Parties, Sync(t) \/ SyncResume(t)
      PROVE  BarrierIInv'
  BY <1>3, SyncKeeps, SyncResumeKeeps
<1>4. ASSUME NEW t \in Parties, JoinNext(t)
      PROVE  BarrierIInv'
  BY <1>0, <1>4, OutsideKeeps DEF JoinNext, BarrierPlaces
<1>5. CASE Detach
  <2>1. Main \in Parties
    BY BarrierAssumption DEF Main, Parties
  <2> QED  BY <1>0, <1>5, <2>1, OutsideKeeps DEF Detach, BarrierPlaces
<1> QED  BY <1>1, <1>2, <1>3, <1>4, <1>5 DEF BarrierNext, PartyStep

\* The invariant of the barrier holds at its start.
LEMMA BarrierStarts == BarrierInit => BarrierIInv
<1> SUFFICES ASSUME BarrierInit PROVE BarrierIInv
  OBVIOUS
<1>1. Asleep = {}
  BY DEF BarrierInit, Asleep
<1>2. Cardinality(Asleep) = 0
  BY <1>1, FS_EmptySet
<1> QED  BY <1>2, BarrierAssumption
         DEF BarrierInit, BarrierIInv, BarrierTypes, BarrierPlaces, PartyInv

(* BarrierSync() (tinyoslib.c): with any number of threads and of rounds,  *)
(* nobody gets past the barrier before everyone has come to it.            *)
THEOREM BarrierIsSound == BarrierSpec => []BarrierHolds
<1>1. BarrierIInv => BarrierHolds
  <2> SUFFICES ASSUME BarrierIInv PROVE BarrierHolds
    OBVIOUS
  <2>1. ASSUME NEW t \in Parties
        PROVE  left[t] <= epoch /\ epoch <= entered[t] /\ left[t] \in Nat /\ entered[t] \in Nat
    BY DEF BarrierIInv, BarrierTypes, PartyInv, BarrierPlaces
  <2>2. epoch \in Nat /\ count <= Joiners
    BY DEF BarrierIInv, BarrierTypes
  <2> QED  BY <2>1, <2>2 DEF BarrierHolds
<1> QED  BY <1>1, BarrierStarts, BarrierStep, PTL DEF BarrierSpec

-----------------------------------------------------------------------------
(* The philosophers.                                                       *)

\* The neighbours of a seat lie on either side of it, round the table.
LEMMA Neighbours ==
    ASSUME SymposiumTypes
    PROVE  /\ Seats \in SUBSET Philosophers
           /\ \A i \in Seats : /\ LEFT(i) \in Seats /\ RIGHT(i) \in Seats
                               /\ LEFT(RIGHT(i)) = i /\ RIGHT(LEFT(i)) = i
<1>1. N \in Nat \ {0} /\ MaxPhilosophers \in Nat /\ N <= MaxPhilosophers
  BY SymposiumAssumption DEF SymposiumTypes
<1>2. Seats \in SUBSET Philosophers
  BY <1>1 DEF Seats, Philosophers
<1>3. ASSUME NEW i \in Seats
      PROVE  LEFT(i) = IF i = N - 1 THEN 0 ELSE i + 1
  <2>1. CASE i = N - 1
    <3>1. i + 1 = N /\ N % N = 0
      BY <1>1, <2>1
    <3> QED  BY <2>1, <3>1 DEF LEFT
  <2>2. CASE i # N - 1
    <3>1. i + 1 \in 0 .. N - 1
      BY <1>1, <2>2 DEF Seats
    <3>2. (i + 1) % N = i + 1
      BY <1>1, <3>1
    <3> QED  BY <2>2, <3>2 DEF LEFT
  <2> QED  BY <2>1, <2>2
<1>4. ASSUME NEW i \in Seats
      PROVE  RIGHT(i) = IF i = 0 THEN N - 1 ELSE i - 1
  BY <1>1 DEF RIGHT, Seats
<1>5. ASSUME NEW i \in Seats
      PROVE  /\ LEFT(i) \in Seats /\ RIGHT(i) \in Seats
             /\ LEFT(RIGHT(i)) = i /\ RIGHT(LEFT(i)) = i
  <2>1. LEFT(i) \in Seats /\ RIGHT(i) \in Seats
    BY <1>1, <1>3, <1>4 DEF Seats
  <2>2. LEFT(RIGHT(i)) = IF RIGHT(i) = N - 1 THEN 0 ELSE RIGHT(i) + 1
    BY <1>3, <2>1
  <2>3. RIGHT(LEFT(i)) = IF LEFT(i) = 0 THEN N - 1 ELSE LEFT(i) - 1
    BY <1>4, <2>1
  <2>4. i \in 0 .. N - 1
    BY DEF Seats
  <2> QED  BY <1>1, <1>3, <1>4, <2>1, <2>2, <2>3, <2>4
<1> QED  BY <1>2, <1>5

\* trytoeat(S, i) may let philosopher i eat, who then has no reason to
\* complain any more, and changes nothing else.
LEMMA TryToEat ==
    ASSUME SymposiumTypes, NEW i \in Seats,
           NEW s \in [Philosophers -> {"NOTHERE", "THINKING", "HUNGRY", "EATING"}],
           NEW X, FedBut(s, X)
    PROVE  /\ trytoeat(s, i) \in [Philosophers -> {"NOTHERE", "THINKING", "HUNGRY", "EATING"}]
           /\ FedBut(trytoeat(s, i), X \ {i})
           /\ \A j \in Philosophers :
                 trytoeat(s, i)[j] = s[j]
                 \/ (j = i /\ s[j] = "HUNGRY" /\ trytoeat(s, i)[j] = "EATING")
<1> DEFINE may == s[i] = "HUNGRY" /\ s[LEFT(i)] # "EATING" /\ s[RIGHT(i)] # "EATING"
           t == trytoeat(s, i)
<1>1. /\ Seats \in SUBSET Philosophers
      /\ \A j \in Seats : /\ LEFT(j) \in Seats /\ RIGHT(j) \in Seats
                          /\ LEFT(RIGHT(j)) = j /\ RIGHT(LEFT(j)) = j
  BY Neighbours
<1>2. t = IF may THEN [s EXCEPT ![i] = "EATING"] ELSE s
  BY DEF trytoeat
<1>3. /\ t \in [Philosophers -> {"NOTHERE", "THINKING", "HUNGRY", "EATING"}]
      /\ \A j \in Philosophers :
            t[j] = s[j] \/ (j = i /\ s[j] = "HUNGRY" /\ t[j] = "EATING")
  BY <1>1, <1>2
<1>4. FedBut(t, X \ {i})
  <2>1. CASE ~ may
    BY <1>2, <2>1 DEF FedBut
  <2>2. CASE may
    <3>1. t = [s EXCEPT ![i] = "EATING"]
      BY <1>2, <2>2
    <3> HIDE DEF t
    <3>2. ASSUME NEW j \in Seats, t[j] = "EATING",
                 NEW k \in {LEFT(j), RIGHT(j)} \ {j}
          PROVE  t[k] # "EATING"
      <4>1. CASE j = i
        BY <1>1, <2>2, <3>1, <3>2, <4>1
      <4>2. CASE j # i
        <5>1. s[j] = "EATING" /\ s[k] # "EATING"
          BY <1>1, <3>1, <3>2, <4>2 DEF FedBut
        <5>2. k # i
          BY <1>1, <2>2, <3>2, <5>1
        <5> QED  BY <1>1, <3>1, <3>2, <5>1, <5>2
      <4> QED  BY <4>1, <4>2
    <3>3. ASSUME NEW j \in Seats \ (X \ {i}), t[j] = "HUNGRY"
          PROVE  t[LEFT(j)] = "EATING" \/ t[RIGHT(j)] = "EATING"
      <4>1. j \in Seats \ X /\ s[j] = "HUNGRY"
        BY <1>1, <3>1, <3>3
      <4>2. s[LEFT(j)] = "EATING" \/ s[RIGHT(j)] = "EATING"
        BY <4>1 DEF FedBut
      <4> QED  BY <1>1, <3>1, <4>1, <4>2
    <3> QED  BY <3>2, <3>3 DEF FedBut
  <2> QED  BY <2>1, <2>2
<1> QED  BY <1>3, <1>4

\* A philosopher takes a seat or leaves it, gets hungry or is sated; only its
\* neighbours, whom it kept from eating, or itself, may now be passed over.
LEMMA SeatChange ==
    ASSUME SymposiumTypes, NEW i \in Seats, NEW v \in {"NOTHERE", "THINKING", "HUNGRY"},
           FedBut(seat, {}), seat[i] = "EATING" => v # "HUNGRY"
    PROVE  FedBut([seat EXCEPT ![i] = v],
                  IF seat[i] = "EATING" THEN {LEFT(i), RIGHT(i)}
                  ELSE IF v = "HUNGRY" THEN {i} ELSE {})
<1> DEFINE s == [seat EXCEPT ![i] = v]
           X == IF seat[i] = "EATING" THEN {LEFT(i), RIGHT(i)}
                ELSE IF v = "HUNGRY" THEN {i} ELSE {}
<1>1. /\ Seats \in SUBSET Philosophers
      /\ \A j \in Seats : /\ LEFT(j) \in Seats /\ RIGHT(j) \in Seats
                          /\ LEFT(RIGHT(j)) = j /\ RIGHT(LEFT(j)) = j
  BY Neighbours
<1>2. \A j \in Seats : s[j] = IF j = i THEN v ELSE seat[j]
  BY <1>1 DEF SymposiumTypes
<1> HIDE DEF s
<1>3. ASSUME NEW j \in Seats, s[j] = "EATING", NEW k \in {LEFT(j), RIGHT(j)} \ {j}
      PROVE  s[k] # "EATING"
  <2>1. k \in Seats /\ j # i /\ seat[j] = "EATING"
    BY <1>1, <1>2, <1>3
  <2>2. seat[k] # "EATING"
    BY <1>3, <2>1 DEF FedBut
  <2> QED  BY <1>2, <2>1, <2>2
<1>4. ASSUME NEW j \in Seats \ X, s[j] = "HUNGRY"
      PROVE  s[LEFT(j)] = "EATING" \/ s[RIGHT(j)] = "EATING"
  <2>1. j # i
    BY <1>2, <1>4
  <2>2. seat[LEFT(j)] = "EATING" \/ seat[RIGHT(j)] = "EATING"
    BY <1>2, <1>4, <2>1 DEF FedBut
  <2>3. ASSUME NEW k \in {LEFT(j), RIGHT(j)}, seat[k] = "EATING"
        PROVE  s[k] = "EATING"
    <3>1. k \in Seats /\ j \in {LEFT(k), RIGHT(k)}
      BY <1>1, <2>3
    <3>2. k # i
      BY <1>4, <2>3, <3>1
    <3> QED  BY <1>2, <2>3, <3>1, <3>2
  <2> QED  BY <2>2, <2>3
<1> QED  BY <1>3, <1>4 DEF FedBut, s

\* The same philosophers sit at the same table.
LEMMA SameTable ==
    ASSUME N' = N
    PROVE  /\ Seats' = Seats
           /\ \A i \in Seats : LEFT(i)' = LEFT(i) /\ RIGHT(i)' = RIGHT(i)
  BY DEF Seats, LEFT, RIGHT

\* FedBut reads the table through N and the seats only.
LEMMA SameFed ==
    ASSUME N' = N, SymposiumTypes, FedBut(seat', {})
    PROVE  FedBut(seat, {})'
<1>1. /\ Seats' = Seats
      /\ \A i \in Seats : LEFT(i)' = LEFT(i) /\ RIGHT(i)' = RIGHT(i)
  BY SameTable
<1> QED  BY <1>1 DEF FedBut

\* What philosophers do at the table and on leaving is nothing to the host.
LEMMA PhilosophersKeepHost ==
    ASSUME SymposiumTypes, HostInv, UNCHANGED <<N, kind, host, next, tableFreed>>,
           \A j \in Philosophers : phil'[j] = phil[j] \/ ~ (Gone(j) \/ Gone(j)')
    PROVE  HostInv'
<1>1. Reaped' = Reaped /\ \A j \in Philosophers : Gone(j)' <=> Gone(j)
  BY DEF Reaped, Gone
<1>2. \A j \in Philosophers : /\ phil'[j] = "none" <=> phil[j] = "none"
                              /\ phil'[j] = "reaped" <=> phil[j] = "reaped"
  BY DEF Gone
<1>3. N \in Nat /\ N <= MaxPhilosophers /\ MaxPhilosophers \in Nat /\ next \in 0 .. N - 1
  BY SymposiumAssumption DEF SymposiumTypes, Seats
<1>4. \A i \in 0 .. next - 1 : i \in Philosophers
  BY <1>3 DEF Philosophers
<1> QED  BY <1>1, <1>2, <1>4 DEF HostInv

\* A philosopher that is at the table has a seat.
LEMMA AtTheTable ==
    ASSUME TableIInv, NEW i \in Philosophers, phil[i] # "none"
    PROVE  i \in Seats /\ host # "off"
  BY SymposiumAssumption DEF TableIInv, HostInv, SymposiumTypes, Seats, Philosophers

\* What a philosopher's step does besides.
Attends == UNCHANGED <<N, kind, host, next, tableFreed>>

\* A step of one philosopher.
LEMMA PhilosopherKeeps ==
    ASSUME TableIInv, NEW i \in Philosophers, PhilosopherStep(i)
    PROVE  TableIInv'
<1>1. /\ SymposiumTypes /\ SeatInv /\ FedBut(seat, {}) /\ HostInv
      /\ phil \in [Philosophers -> PhilosopherPlaces]
      /\ seat \in [Philosophers -> {"NOTHERE", "THINKING", "HUNGRY", "EATING"}]
  BY DEF TableIInv, SymposiumTypes
<1>2. phil[i] \in {"arrive", "think", "woken", "eat"} /\ Attends
  BY DEF PhilosopherStep, Arrive, Hunger, WakeUp, Sated, LeaveTable, Attends
<1>3. i \in Seats
  BY <1>2, AtTheTable
<1>4. SUFFICES /\ phil' \in [Philosophers -> PhilosopherPlaces]
               /\ seat' \in [Philosophers -> {"NOTHERE", "THINKING", "HUNGRY", "EATING"}]
               /\ SeatInv' /\ FedBut(seat', {})
               /\ \A j \in Philosophers : phil'[j] = phil[j] \/ ~ (Gone(j) \/ Gone(j)')
  <2>1. SymposiumTypes'
    BY <1>1, <1>2, <1>4, SameTable DEF SymposiumTypes, Attends
  <2>2. HostInv'
    BY <1>1, <1>2, <1>4, PhilosophersKeepHost DEF Attends
  <2>3. FedBut(seat, {})'
    BY <1>1, <1>2, <1>4, SameFed DEF Attends
  <2> QED  BY <1>4, <2>1, <2>2, <2>3 DEF TableIInv
<1>5. CASE Arrive(i)
  <2>1. /\ seat' = [seat EXCEPT ![i] = "THINKING"] /\ phil' = [phil EXCEPT ![i] = "think"]
        /\ phil[i] = "arrive" /\ seat[i] = "NOTHERE"
    BY <1>1, <1>5 DEF Arrive, SeatInv, SeatOf
  <2>2. FedBut(seat', {})
    BY <1>1, <1>3, <2>1, SeatChange
  <2> QED  BY <1>1, <2>1, <2>2 DEF SeatInv, SeatOf, Gone, PhilosopherPlaces
<1>6. CASE Hunger(i)
  <2> DEFINE h == [seat EXCEPT ![i] = "HUNGRY"]
             s == trytoeat(h, i)
  <2>1. /\ seat' = s /\ phil[i] = "think" /\ seat[i] = "THINKING"
        /\ phil' = [phil EXCEPT ![i] = IF s[i] = "HUNGRY" THEN "asleep" ELSE "eat"]
    BY <1>1, <1>6 DEF Hunger, SeatInv, SeatOf
  <2>2. FedBut(h, {i})
    BY <1>1, <1>3, <2>1, SeatChange
  <2>3. /\ s \in [Philosophers -> {"NOTHERE", "THINKING", "HUNGRY", "EATING"}]
        /\ FedBut(s, {i} \ {i})
        /\ \A j \in Philosophers :
              s[j] = h[j] \/ (j = i /\ h[j] = "HUNGRY" /\ s[j] = "EATING")
    <3>1. h \in [Philosophers -> {"NOTHERE", "THINKING", "HUNGRY", "EATING"}]
      BY <1>1
    <3> HIDE DEF h
    <3> QED  BY <1>1, <1>3, <2>2, <3>1, TryToEat
  <2>4. FedBut(seat', {})
    <3>1. {i} \ {i} = {}
      OBVIOUS
    <3> QED  BY <2>1, <2>3, <3>1
  <2>5. \A j \in Philosophers : h[j] = IF j = i THEN "HUNGRY" ELSE seat[j]
    BY <1>1
  <2> HIDE DEF h, s
  <2>6. s[i] \in {"HUNGRY", "EATING"} /\ \A j \in Philosophers \ {i} : s[j] = seat[j]
    BY <2>3, <2>5
  <2>7. /\ phil' \in [Philosophers -> PhilosopherPlaces]
        /\ \A j \in Philosophers : phil'[j] = phil[j] \/ ~ (Gone(j) \/ Gone(j)')
    BY <1>1, <2>1 DEF Gone, PhilosopherPlaces
  <2>8. SeatInv'
    BY <1>1, <2>1, <2>6 DEF SeatInv, SeatOf
  <2> QED  BY <2>1, <2>3, <2>4, <2>7, <2>8
<1>7. CASE WakeUp(i)
  <2>1. /\ seat' = seat /\ phil[i] = "woken" /\ seat[i] = "EATING"
        /\ phil' = [phil EXCEPT ![i] = "eat"]
    BY <1>1, <1>7 DEF WakeUp, SeatInv, SeatOf
  <2> QED  BY <1>1, <2>1 DEF SeatInv, SeatOf, Gone, PhilosopherPlaces
<1>8. CASE Sated(i)
  <2> DEFINE h == [seat EXCEPT ![i] = "THINKING"]
             l == trytoeat(h, LEFT(i))
             s == trytoeat(l, RIGHT(i))
             W == {LEFT(i), RIGHT(i)}
  <2>1. /\ seat' = s /\ phil[i] = "eat" /\ seat[i] = "EATING"
        /\ phil' = [Signalled(s) EXCEPT ![i] = "think"]
    BY <1>1, <1>8 DEF Sated, SeatInv, SeatOf
  <2>2. /\ h \in [Philosophers -> {"NOTHERE", "THINKING", "HUNGRY", "EATING"}]
        /\ FedBut(h, W) /\ LEFT(i) \in Seats /\ RIGHT(i) \in Seats
    BY <1>1, <1>3, <2>1, SeatChange, Neighbours
  <2>3. \A j \in Philosophers : h[j] = IF j = i THEN "THINKING" ELSE seat[j]
    BY <1>1
  <2> HIDE DEF h
  <2>4. /\ l \in [Philosophers -> {"NOTHERE", "THINKING", "HUNGRY", "EATING"}]
        /\ FedBut(l, W \ {LEFT(i)})
        /\ \A j \in Philosophers :
              l[j] = h[j] \/ (j = LEFT(i) /\ h[j] = "HUNGRY" /\ l[j] = "EATING")
    <3> HIDE DEF W
    <3> QED  BY <1>1, <2>2, TryToEat
  <2> HIDE DEF l
  <2>5. /\ s \in [Philosophers -> {"NOTHERE", "THINKING", "HUNGRY", "EATING"}]
        /\ FedBut(s, (W \ {LEFT(i)}) \ {RIGHT(i)})
        /\ \A j \in Philosophers :
              s[j] = l[j] \/ (j = RIGHT(i) /\ l[j] = "HUNGRY" /\ s[j] = "EATING")
    <3> DEFINE V == W \ {LEFT(i)}
    <3>1. FedBut(l, V)
      BY <2>4
    <3> HIDE DEF V
    <3>2. /\ s \in [Philosophers -> {"NOTHERE", "THINKING", "HUNGRY", "EATING"}]
          /\ FedBut(s, V \ {RIGHT(i)})
          /\ \A j \in Philosophers :
                s[j] = l[j] \/ (j = RIGHT(i) /\ l[j] = "HUNGRY" /\ s[j] = "EATING")
      BY SMTT(30), <1>1, <2>2, <2>4, <3>1, TryToEat
    <3> QED  BY <3>2 DEF V
  <2> HIDE DEF s
  <2>6. FedBut(seat', {})
    <3>1. (W \ {LEFT(i)}) \ {RIGHT(i)} = {}
      OBVIOUS
    <3> QED  BY <2>1, <2>5, <3>1
  <2>7. \A j \in Philosophers :
           phil'[j] = IF j = i THEN "think"
                      ELSE IF phil[j] = "asleep" /\ s[j] # seat[j] THEN "woken" ELSE phil[j]
    BY <1>1, <2>1 DEF Signalled
  <2>8. phil' \in [Philosophers -> PhilosopherPlaces]
    BY <1>1, <2>1 DEF Signalled, PhilosopherPlaces
  <2>9. SeatInv'
    <3> SUFFICES ASSUME NEW j \in Philosophers
                 PROVE  seat'[j] = SeatOf(phil'[j])
      BY DEF SeatInv
    <3>1. CASE j = i
      BY <1>1, <2>1, <2>3, <2>4, <2>5, <2>7, <3>1 DEF SeatOf
    <3>2. CASE j # i
      <4>1. /\ seat[j] = SeatOf(phil[j])
            /\ s[j] = seat[j] \/ (seat[j] = "HUNGRY" /\ s[j] = "EATING")
        BY <1>1, <2>3, <2>4, <2>5, <3>2 DEF SeatInv
      <4>2. seat[j] = "HUNGRY" <=> phil[j] = "asleep"
        BY <1>1, <4>1 DEF SeatOf, PhilosopherPlaces
      <4> QED  BY <2>1, <2>7, <3>2, <4>1, <4>2 DEF SeatOf
    <3> QED  BY <3>1, <3>2
  <2>10. \A j \in Philosophers : phil'[j] = phil[j] \/ ~ (Gone(j) \/ Gone(j)')
    BY <2>1, <2>7 DEF Gone
  <2> QED  BY <2>1, <2>5, <2>6, <2>8, <2>9, <2>10
<1>9. CASE LeaveTable(i)
  <2>1. /\ seat' = [seat EXCEPT ![i] = "NOTHERE"] /\ phil' = [phil EXCEPT ![i] = "exited"]
        /\ phil[i] = "think" /\ seat[i] = "THINKING"
    BY <1>1, <1>9 DEF LeaveTable, SeatInv, SeatOf
  <2>2. FedBut(seat', {})
    BY <1>1, <1>3, <2>1, SeatChange
  <2> QED  BY <1>1, <2>1, <2>2 DEF SeatInv, SeatOf, Gone, PhilosopherPlaces
<1> QED  BY <1>5, <1>6, <1>7, <1>8, <1>9 DEF PhilosopherStep

\* Where a host that has got to philosopher n of N goes on.
LEMMA HostKeeps ==
    ASSUME TableIInv, HostStep
    PROVE  TableIInv'
<1>1. /\ SymposiumTypes /\ SeatInv /\ FedBut(seat, {}) /\ HostInv
      /\ phil \in [Philosophers -> PhilosopherPlaces]
      /\ N \in Nat \ {0} /\ N <= MaxPhilosophers /\ MaxPhilosophers \in Nat
      /\ next \in 0 .. N - 1 /\ next \in Philosophers
  BY SymposiumAssumption DEF TableIInv, SymposiumTypes, Seats, Philosophers
<1>2. N' = N /\ kind' = kind /\ seat' = seat /\ Philosophers' = Philosophers
  BY DEF HostStep, Create, Reap, Destroy
<1>3. FedBut(seat, {})'
  BY <1>1, <1>2, SameFed
<1>4. CASE Create
  <2>1. /\ host = "create" /\ phil[next] = "none"
        /\ phil' = [phil EXCEPT ![next] =
                       IF kind = "threads" \/ next < FreeProcs THEN "arrive" ELSE @]
        /\ next' = IF next = N - 1 THEN 0 ELSE next + 1
        /\ host' = IF next = N - 1 THEN "wait" ELSE "create"
        /\ tableFreed' = tableFreed /\ ~ tableFreed
    BY <1>1, <1>4 DEF Create, HostInv
  <2>2. next' \in 0 .. N - 1 /\ next \notin Seats' => FALSE
    BY <1>1, <1>2, <2>1 DEF Seats
  <2>3. /\ phil' \in [Philosophers -> PhilosopherPlaces]
        /\ \A i \in Philosophers : i # next => phil'[i] = phil[i]
        /\ phil'[next] \in {"none", "arrive"}
    BY <1>1, <2>1 DEF PhilosopherPlaces
  <2>4. SymposiumTypes'
    BY <1>1, <1>2, <2>1, <2>2, <2>3 DEF SymposiumTypes, Seats
  <2>5. SeatInv'
    BY <1>1, <1>2, <2>1, <2>3 DEF SeatInv, SeatOf
  <2>6. \A i \in Philosophers : phil'[i] # "reaped"
    BY <1>1, <2>1, <2>3 DEF HostInv
  <2>7. Cardinality(Reaped') = 0
    <3>1. Reaped' = {}
      BY <2>6 DEF Reaped
    <3> QED  BY <3>1, FS_EmptySet
  <2>8. \A i \in Philosophers : i >= N => phil'[i] = "none"
    BY <1>1, <2>3 DEF HostInv, Philosophers
  <2>9. next # N - 1 => \A i \in Philosophers : i >= next + 1 => phil'[i] = "none"
    BY <1>1, <2>1, <2>3 DEF HostInv, Philosophers
  <2>10. next = N - 1 => 0 .. next' - 1 = {}
    BY <2>1
  <2>11. HostInv'
    BY <1>2, <2>1, <2>6, <2>7, <2>8, <2>9, <2>10 DEF HostInv
  <2> QED  BY <1>3, <2>4, <2>5, <2>11 DEF TableIInv
<1>5. CASE Reap
  <2>1. /\ host = "wait" /\ tableFreed' = tableFreed /\ ~ tableFreed
        /\ next' = IF next = N - 1 THEN 0 ELSE next + 1
        /\ host' = IF next = N - 1 THEN "destroy" ELSE "wait"
    BY <1>1, <1>5 DEF Reap, HostInv
  <2>2. next' \in 0 .. N - 1
    BY <1>1, <2>1
  <2>3. /\ phil' \in [Philosophers -> PhilosopherPlaces]
        /\ \A i \in Philosophers : phil'[i] = phil[i]
                                   \/ (phil[i] = "exited" /\ phil'[i] = "reaped")
    BY <1>1, <1>5 DEF Reap, PhilosopherPlaces
  <2>4. SymposiumTypes'
    BY <1>1, <1>2, <2>1, <2>2, <2>3 DEF SymposiumTypes, Seats
  <2>5. SeatInv'
    BY <1>1, <1>2, <2>3 DEF SeatInv, SeatOf
  <2>6. \A i \in Philosophers : i >= N => phil'[i] = "none"
    BY <1>1, <2>3 DEF HostInv
  <2>7. /\ kind = "threads" => \A i \in 0 .. next : phil'[i] = "reaped"
        /\ kind = "processes" =>
              (\A i \in Philosophers : Gone(i)') \/ Cardinality(Reaped') = next + 1
    <3>1. CASE kind = "threads"
      <4>1. /\ \A i \in 0 .. next - 1 : phil[i] = "reaped" /\ i \in Philosophers
            /\ phil'[next] = "reaped"
        BY <1>1, <1>5, <2>1, <3>1 DEF HostInv, Reap, Philosophers
      <4>2. \A i \in 0 .. next : i \in 0 .. next - 1 \/ i = next
        BY <1>1
      <4> QED  BY <2>3, <3>1, <4>1, <4>2
    <3>2. CASE kind = "processes" /\ phil' = phil /\ \A i \in Philosophers : Gone(i)
      BY <3>2 DEF Gone
    <3>3. ASSUME kind = "processes", NEW i \in Philosophers, phil[i] = "exited",
                 phil' = [phil EXCEPT ![i] = "reaped"]
          PROVE  Cardinality(Reaped') = next + 1
      <4>1. Cardinality(Reaped) = next
        BY <1>1, <2>1, <3>3 DEF HostInv, Gone
      <4>2. Reaped' = Reaped \cup {i} /\ i \notin Reaped
        BY <1>1, <3>3 DEF Reaped
      <4>3. IsFiniteSet(Reaped)
        <5>1. IsFiniteSet(0 .. MaxPhilosophers - 1)
          BY <1>1, FS_Interval
        <5> QED  BY <5>1, FS_Subset DEF Reaped, Philosophers
      <4> QED  BY <4>1, <4>2, <4>3, FS_AddElement
    <3>4. \/ kind = "threads"
          \/ kind = "processes" /\ phil' = phil /\ \A i \in Philosophers : Gone(i)
          \/ /\ kind = "processes"
             /\ \E i \in Philosophers : phil[i] = "exited"
                                        /\ phil' = [phil EXCEPT ![i] = "reaped"]
      BY <1>5 DEF Reap, Gone
    <3> QED  BY <3>1, <3>2, <3>3, <3>4
  <2>8. CASE next = N - 1
    <3>1. \A i \in Philosophers : Gone(i)'
      <4>1. CASE kind = "threads"
        <5>1. \A i \in Philosophers : i \in 0 .. next \/ i >= N
          BY <1>1, <2>8 DEF Philosophers
        <5> QED  BY <2>6, <2>7, <4>1, <5>1 DEF Gone
      <4>2. CASE kind = "processes"
        <5>1. SUFFICES ASSUME Cardinality(Reaped') = next + 1
                       PROVE  \A i \in Philosophers : Gone(i)'
          BY <2>7, <4>2
        <5>2. IsFiniteSet(Seats) /\ Cardinality(Seats) = N
          <6>1. 0 \in Int /\ N - 1 \in Int /\ ~ (0 > N - 1) /\ (N - 1) - 0 + 1 = N
            BY <1>1
          <6>2. /\ IsFiniteSet(0 .. N - 1)
                /\ Cardinality(0 .. N - 1) = IF 0 > N - 1 THEN 0 ELSE (N - 1) - 0 + 1
            BY <6>1, FS_Interval, Zenon
          <6> QED  BY <6>1, <6>2 DEF Seats
        <5>3. Reaped' \in SUBSET Seats
          BY <1>1, <1>2, <2>6 DEF Reaped, Seats, Philosophers
        <5>4. Cardinality(Reaped') = N
          BY <1>1, <2>8, <5>1
        <5>5. Reaped' = Seats
          BY <5>2, <5>3, <5>4, FS_Subset
        <5>6. \A i \in Philosophers : i \in Seats \/ i >= N
          BY <1>1 DEF Philosophers, Seats
        <5> QED  BY <2>6, <5>5, <5>6 DEF Gone, Reaped
      <4> QED  BY <1>1, <4>1, <4>2 DEF SymposiumTypes
    <3>2. HostInv'
      BY <1>2, <2>1, <2>6, <2>8, <3>1 DEF HostInv
    <3> QED  BY <1>3, <2>4, <2>5, <3>2 DEF TableIInv
  <2>9. CASE next # N - 1
    <3>1. next' = next + 1 /\ next' - 1 = next /\ host' = "wait"
      BY <1>1, <2>1, <2>9
    <3>2. HostInv'
      BY <1>2, <2>1, <2>6, <2>7, <3>1 DEF HostInv
    <3> QED  BY <1>3, <2>4, <2>5, <3>2 DEF TableIInv
  <2> QED  BY <2>8, <2>9
<1>6. CASE Destroy
  <2>1. /\ host = "destroy" /\ host' = "done" /\ phil' = phil /\ next' = next
    BY <1>6 DEF Destroy
  <2>2. SymposiumTypes' /\ SeatInv'
    BY <1>1, <1>2, <2>1 DEF SymposiumTypes, SeatInv, Seats
  <2>3. \A i \in Philosophers : Gone(i)'
    BY <1>1, <2>1 DEF HostInv, Gone
  <2>4. HostInv'
    BY <1>1, <1>2, <2>1, <2>3 DEF HostInv
  <2> QED  BY <1>3, <2>2, <2>4 DEF TableIInv
<1> QED  BY <1>4, <1>5, <1>6 DEF HostStep

\* The symposium begins: N philosophers, as threads or as processes.
LEMMA SymposiumStartKeeps ==
    ASSUME TableIInv, SymposiumStart
    PROVE  TableIInv'
<1>1. /\ N' \in 1 .. MaxPhilosophers /\ kind' \in {"processes", "threads"}
      /\ host = "off" /\ host' = "create"
      /\ UNCHANGED <<seat, phil, next, tableFreed>>
      /\ next = 0 /\ ~ tableFreed
      /\ \A i \in Philosophers : phil[i] = "none" /\ seat[i] = "NOTHERE"
  BY DEF SymposiumStart, TableIInv, HostInv, SeatInv, SeatOf
<1>2. next' \in Seats' /\ Seats' \in SUBSET Philosophers
  <2>1. PICK n \in 1 .. MaxPhilosophers : n = N'
    BY <1>1
  <2>2. 0 \in 0 .. n - 1 /\ \A i \in 0 .. n - 1 : i \in 0 .. MaxPhilosophers - 1
    BY SymposiumAssumption
  <2> QED  BY <1>1, <2>1, <2>2 DEF Seats, Philosophers
<1>3. SymposiumTypes' /\ SeatInv'
  BY <1>1, <1>2 DEF TableIInv, SymposiumTypes, SeatInv
<1>4. FedBut(seat, {})'
  BY <1>1, <1>2 DEF FedBut
<1>5. HostInv'
  BY <1>1 DEF HostInv
<1> QED  BY <1>3, <1>4, <1>5 DEF TableIInv

\* Every step keeps the invariant of the table.
LEMMA SymposiumStep == TableIInv /\ [SymposiumNext]_symposiumVars => TableIInv'
<1> SUFFICES ASSUME TableIInv, [SymposiumNext]_symposiumVars
             PROVE  TableIInv'
  OBVIOUS
<1>1. CASE UNCHANGED symposiumVars
  <2>1. UNCHANGED <<N, kind, seat, phil, host, next, tableFreed>>
    BY <1>1 DEF symposiumVars
  <2>2. SymposiumTypes' /\ SeatInv' /\ FedBut(seat, {})'
    BY <2>1, SameFed DEF TableIInv, SymposiumTypes, SeatInv, Seats
  <2>3. HostInv'
    BY <2>1, PhilosophersKeepHost DEF TableIInv
  <2> QED  BY <2>2, <2>3 DEF TableIInv
<1>2. CASE SymposiumStart
  BY <1>2, SymposiumStartKeeps
<1>3. CASE HostStep
  BY <1>3, HostKeeps
<1>4. ASSUME NEW i \in Philosophers, PhilosopherStep(i)
      PROVE  TableIInv'
  BY <1>4, PhilosopherKeeps
<1> QED  BY <1>1, <1>2, <1>3, <1>4 DEF SymposiumNext

\* The invariant of the table holds at its start.
LEMMA SymposiumStarts == SymposiumInit => TableIInv
<1> SUFFICES ASSUME SymposiumInit PROVE TableIInv
  OBVIOUS
<1>1. /\ \A i \in Philosophers : phil[i] = "none" /\ seat[i] = "NOTHERE"
      /\ N = 1 /\ next = 0 /\ kind = "threads" /\ host = "off" /\ tableFreed = FALSE
      /\ seat \in [Philosophers -> {"NOTHERE"}] /\ phil \in [Philosophers -> {"none"}]
  BY DEF SymposiumInit
<1>2. 1 \in 1 .. MaxPhilosophers /\ next \in Seats /\ Seats \in SUBSET Philosophers
  BY <1>1, SymposiumAssumption DEF Seats, Philosophers
<1>3. SymposiumTypes
  BY <1>1, <1>2 DEF SymposiumTypes, PhilosopherPlaces
<1>4. SeatInv /\ HostInv
  BY <1>1 DEF SeatInv, SeatOf, HostInv
<1>5. FedBut(seat, {})
  BY <1>1, <1>2 DEF FedBut
<1> QED  BY <1>3, <1>4, <1>5 DEF TableIInv

(* The table of symposium.c, for any number of philosophers and of bites:  *)
(* no two neighbours eat, nobody is passed over, the seats tell who eats,  *)
(* and the host frees the table only when everyone has left.               *)
THEOREM TableIsSound == SymposiumSpec => []TableSound
<1>1. TableIInv => TableSound
  <2> SUFFICES ASSUME TableIInv PROVE TableSound
    OBVIOUS
  <2>1. ASSUME NEW i \in 0 .. N - 1
        PROVE  /\ seat[i] = "EATING" =>
                     \A j \in {LEFT(i), RIGHT(i)} \ {i} : seat[j] # "EATING"
               /\ seat[i] = "HUNGRY" => seat[LEFT(i)] = "EATING" \/ seat[RIGHT(i)] = "EATING"
               /\ phil[i] = "asleep" => seat[i] = "HUNGRY"
               /\ phil[i] \in {"eat", "woken"} => seat[i] = "EATING"
    <3>1. i \in Seats /\ i \in Philosophers
      BY <2>1, Neighbours DEF Seats, TableIInv
    <3> QED  BY <3>1 DEF TableIInv, FedBut, SeatInv, SeatOf
  <2>2. tableFreed => \A i \in Philosophers : phil[i] \notin AtTable
    BY DEF TableIInv, HostInv, Gone, AtTable
  <2> QED  BY <2>1, <2>2 DEF TableSound
<1> QED  BY <1>1, SymposiumStarts, SymposiumStep, PTL DEF SymposiumSpec

-----------------------------------------------------------------------------
(* The remote server.                                                      *)

\* The clients served are finitely many.
LEMMA ServedFinite ==
    /\ IsFiniteSet(Served) /\ Cardinality(Served) \in Nat
    /\ Cardinality(Served) = 0 <=> Served = {}
<1>1. Served \in SUBSET Clients
  BY DEF Served
<1>2. IsFiniteSet(Served)
  BY <1>1, ServerAssumption, FS_Subset
<1> QED  BY <1>2, FS_CardinalityType, FS_EmptySet

\* Messages are numbered in the order in which they come.
LEMMA LogGrows ==
    ASSUME logcount \in Nat, LogInv, console' = console \/ console' # "returned",
           console = "returned" => console' = "returned", log_message
    PROVE  logcount' \in Nat /\ LogInv'
<1>1. logcount' = logcount + 1 /\ log' = Append(log, logcount + 1)
  BY DEF log_message
<1>2. ASSUME log = [i \in 1 .. logcount |-> i]
      PROVE  log' = [i \in 1 .. logcount + 1 |-> i]
  <2> DEFINE new == [i \in 1 .. logcount + 1 |-> i]
  <2>1. log \in Seq(Nat) /\ Len(log) = logcount
    BY <1>2
  <2>2. /\ log' \in Seq(Nat) /\ Len(log') = logcount + 1
        /\ \A i \in 1 .. logcount : log'[i] = log[i]
        /\ log'[logcount + 1] = logcount + 1
    BY <1>1, <2>1
  <2>3. new \in Seq(Nat) /\ Len(new) = logcount + 1
    OBVIOUS
  <2>4. \A i \in 1 .. logcount + 1 : log'[i] = new[i]
    <3> TAKE i \in 1 .. logcount + 1
    <3>1. i \in 1 .. logcount \/ i = logcount + 1
      OBVIOUS
    <3> QED  BY <1>2, <2>2, <3>1
  <2> HIDE DEF new
  <2>5. Len(log') = Len(new) /\ \A i \in 1 .. Len(log') : log'[i] = new[i]
    BY <2>2, <2>3, <2>4
  <2>6. log' = new
    BY <2>2, <2>3, <2>5, SeqEqual
  <2> QED  BY <2>6 DEF new
<1> QED  BY <1>1, <1>2 DEF LogInv

\* While the listener has work to do, the console does not go on.
LEMMA ListenerKeeps ==
    ASSUME ServerIInv, ListenerStep
    PROVE  ServerIInv'
<1>1. /\ ServerTypes /\ ServingInv /\ ConnectionsCounted /\ ConsoleInv /\ LogInv
      /\ active_conn \in Int /\ lreg \in Int /\ logcount \in Nat
      /\ cpc \in [Clients -> ServedPlaces \cup {"none", "asking", "refused", "exited"}]
  BY DEF ServerIInv, ServerTypes
<1>2. /\ lpc \notin {"exited", "off"} /\ console' = console /\ quit' = quit
      /\ creg' = creg
  BY DEF ListenerStep, ListenerListen, ListenerAccept, ListenerAccepted, ListenerLog,
         ListenerLoad, ListenerStore, ListenerSpawn
<1>3. ConsoleInv'
  BY <1>1, <1>2 DEF ConsoleInv
<1>4. CASE /\ ListenerListen \/ ListenerAccept \/ ListenerLog \/ ListenerLoad
  <2>1. /\ lpc \notin {"spawn", "store"} /\ lpc' # "spawn"
        /\ UNCHANGED <<active_conn, cpc, serving>>
        /\ lpc' = "store" => lpc = "load"
        /\ lpc' # "load" /\ (mishap' = "none" => mishap = "none")
        /\ lpc' \in {"accept", "accepting", "exited", "crashed", "store"}
        /\ lreg' \in Int
    BY <1>1, <1>4 DEF ListenerListen, ListenerAccept, ListenerLog, ListenerLoad
  <2>2. ServingInv' /\ Served' = Served
    BY <1>1, <2>1 DEF ServingInv, Served
  <2>3. ConnectionsCounted'
    BY <1>1, <2>1, <2>2 DEF ConnectionsCounted
  <2>4. logcount' \in Nat /\ LogInv'
    <3>1. CASE ListenerLog
      BY <1>1, <1>2, <3>1, LogGrows DEF ListenerLog
    <3>2. CASE UNCHANGED <<log, logcount>>
      BY <1>1, <1>2, <3>2 DEF LogInv
    <3> QED  BY <1>4, <3>1, <3>2 DEF ListenerListen, ListenerAccept, ListenerLoad
  <2>5. ServerTypes'
    BY <1>1, <1>2, <2>1, <2>4 DEF ServerTypes
  <2> QED  BY <1>3, <2>2, <2>3, <2>4, <2>5 DEF ServerIInv
<1>5. CASE ListenerAccepted
  <2>1. /\ lpc = "accepting" /\ UNCHANGED <<active_conn, lreg, log, logcount, mishap>>
        /\ lpc' \in {"load", "log_failure", "exited"}
        /\ lpc' = "load" => serving' \in Clients /\ cpc[serving'] = "asking" /\ cpc' = cpc
        /\ cpc' \in [Clients -> ServedPlaces \cup {"none", "asking", "refused", "exited"}]
        /\ \A c \in Clients : cpc'[c] = cpc[c] \/ (cpc[c] = "asking" /\ cpc'[c] = "refused")
    BY <1>1, <1>5 DEF ListenerAccepted
  <2>2. Served' = Served
    BY <2>1 DEF Served, ServedPlaces
  <2>3. ServingInv' /\ ConnectionsCounted' /\ LogInv' /\ ServerTypes'
    BY <1>1, <1>2, <2>1, <2>2
       DEF ServingInv, ConnectionsCounted, LogInv, ServerTypes
  <2> QED  BY <1>3, <2>3 DEF ServerIInv
<1>6. CASE ListenerStore
  <2>1. /\ lpc = "store" /\ lpc' = "spawn" /\ active_conn' = lreg + 1
        /\ mishap' = "none" => mishap = "none" /\ lreg = active_conn
        /\ UNCHANGED <<logcount, log, lreg, cpc, serving>>
    BY <1>6 DEF ListenerStore
  <2>2. Served' = Served
    BY <2>1 DEF Served
  <2>3. ConnectionsCounted'
    BY <1>1, <2>1, <2>2, ServedFinite DEF ConnectionsCounted
  <2>4. ServingInv' /\ LogInv'
    BY <1>1, <1>2, <2>1 DEF ServingInv, LogInv
  <2>5. ServerTypes'
    BY <1>1, <1>2, <2>1 DEF ServerTypes
  <2> QED  BY <1>3, <2>3, <2>4, <2>5 DEF ServerIInv
<1>7. CASE ListenerSpawn
  <2>1. /\ lpc = "spawn" /\ lpc' = "accept" /\ cpc' = [cpc EXCEPT ![serving] = "started"]
        /\ serving \in Clients /\ cpc[serving] = "asking"
        /\ UNCHANGED <<active_conn, logcount, log, lreg, mishap>>
    BY <1>1, <1>7 DEF ListenerSpawn, ServingInv
  <2>2. Served' = Served \cup {serving} /\ serving \notin Served
    BY <1>1, <2>1 DEF Served, ServedPlaces
  <2>3. Cardinality(Served') = Cardinality(Served) + 1
    BY <2>2, ServedFinite, FS_AddElement
  <2>4. ConnectionsCounted'
    BY <1>1, <2>1, <2>3, ServedFinite DEF ConnectionsCounted
  <2>5. ServingInv' /\ LogInv'
    BY <1>1, <1>2, <2>1 DEF ServingInv, LogInv
  <2>6. ServerTypes'
    BY <1>1, <1>2, <2>1 DEF ServerTypes, ServedPlaces
  <2> QED  BY <1>3, <2>4, <2>5, <2>6 DEF ServerIInv
<1> QED  BY <1>4, <1>5, <1>6, <1>7 DEF ListenerStep

\* A connection's thread is served, so the console has not gone on for good.
LEMMA ClientKeeps ==
    ASSUME ServerIInv, NEW c \in Clients, ClientStep(c)
    PROVE  ServerIInv'
<1>1. /\ ServerTypes /\ ServingInv /\ ConnectionsCounted /\ ConsoleInv /\ LogInv
      /\ active_conn \in Int /\ lreg \in Int /\ logcount \in Nat
      /\ creg \in [Clients -> Int]
      /\ cpc \in [Clients -> ServedPlaces \cup {"none", "asking", "refused", "exited"}]
  BY DEF ServerIInv, ServerTypes
<1>2. /\ c \in Served
      /\ UNCHANGED <<lpc, lreg, quit, serving>>
      /\ mishap' = "none" => mishap = "none"
  BY DEF ClientStep, ClientLog, ClientServe, ClientLoad, ClientStore, Served, ServedPlaces
<1>3. mishap = "none" => active_conn >= 1
  BY <1>1, <1>2, ServedFinite DEF ConnectionsCounted
<1>4. mishap = "none" => console # "truncate" /\ ~ (console = "returned" /\ quit)
  BY <1>1, <1>3 DEF ConsoleInv
<1>5. /\ console' = console \/ (console = "asleep" /\ console' = "woken")
      /\ cpc' \in [Clients -> ServedPlaces \cup {"none", "asking", "refused", "exited"}]
      /\ \A d \in Clients \ {c} : cpc'[d] = cpc[d]
  BY <1>1 DEF ClientStep, ClientLog, ClientServe, ClientLoad, ClientStore, ServedPlaces
<1>6. ConsoleInv'
  BY <1>1, <1>2, <1>4, <1>5 DEF ConsoleInv
<1>7. ServingInv'
  <2>1. ASSUME lpc \in {"load", "store", "spawn"} PROVE serving # c
    BY <1>1, <1>2, <2>1 DEF ServingInv, Served, ServedPlaces
  <2> QED  BY <1>1, <1>2, <1>5, <2>1 DEF ServingInv
<1>8. LogInv' /\ logcount' \in Nat
  <2>1. CASE ClientLog(c)
    BY <1>1, <2>1, LogGrows DEF ClientLog
  <2>2. CASE UNCHANGED <<log, logcount>>
    BY <1>1, <1>5, <2>2 DEF LogInv
  <2> QED  BY <2>1, <2>2 DEF ClientStep, ClientServe, ClientLoad, ClientStore
<1>9. ServerTypes'
  <2>1. active_conn' \in Int /\ creg' \in [Clients -> Int]
    BY <1>1 DEF ClientStep, ClientLog, ClientServe, ClientLoad, ClientStore
  <2> QED  BY <1>1, <1>2, <1>5, <1>8, <2>1 DEF ServerTypes
<1>10. ConnectionsCounted'
  <2>1. CASE ClientStore(c)
    <3>1. /\ cpc'[c] = "exited" /\ active_conn' = creg[c] - 1
          /\ mishap' = "none" => creg[c] = active_conn
      BY <1>1, <2>1 DEF ClientStore
    <3>2. Served' = Served \ {c}
      BY <1>5, <3>1 DEF Served, ServedPlaces
    <3>3. Cardinality(Served') = Cardinality(Served) - 1
      BY <1>2, <3>2, ServedFinite, FS_RemoveElement
    <3> QED  BY <1>1, <1>2, <3>1, <3>3, ServedFinite DEF ConnectionsCounted
  <2>2. CASE ClientLog(c) \/ ClientServe(c) \/ ClientLoad(c)
    <3>1. cpc'[c] \in ServedPlaces /\ active_conn' = active_conn
      BY <1>1, <2>2 DEF ClientLog, ClientServe, ClientLoad, ServedPlaces
    <3>2. Served' = Served
      BY <1>2, <1>5, <3>1 DEF Served
    <3> QED  BY <1>1, <1>2, <3>1, <3>2 DEF ConnectionsCounted
  <2> QED  BY <2>1, <2>2 DEF ClientStep
<1> QED  BY <1>6, <1>7, <1>8, <1>9, <1>10 DEF ServerIInv

\* The steps of the console, of a client that asks, and the start.
LEMMA ConsoleKeeps ==
    ASSUME ServerIInv,
           ServerStart \/ ConsoleQuit \/ ConsoleStep \/ ConsoleEOF \/ \E c \in Clients : Ask(c)
    PROVE  ServerIInv'
<1>1. /\ ServerTypes /\ ServingInv /\ ConnectionsCounted /\ ConsoleInv /\ LogInv
      /\ active_conn \in Int
      /\ cpc \in [Clients -> ServedPlaces \cup {"none", "asking", "refused", "exited"}]
  BY DEF ServerIInv, ServerTypes
<1>2. /\ UNCHANGED <<active_conn, logcount, lreg, creg, serving>>
      /\ lpc' = lpc \/ (lpc' = "listen" /\ console = "off" /\ console' = "command" /\ quit' = quit)
      /\ mishap' = "none" => mishap = "none"
      /\ log' = log \/ (console' = "returned" /\ log' = <<>>)
      /\ console' # "returned" => console # "returned"
      /\ \A c \in Clients : cpc'[c] = cpc[c] \/ (cpc[c] = "none" /\ cpc'[c] = "asking")
      /\ cpc' \in [Clients -> ServedPlaces \cup {"none", "asking", "refused", "exited"}]
  BY <1>1 DEF ServerStart, ConsoleQuit, ConsoleStep, ConsoleEOF, Ask, ConsoleClose,
              ConsoleJoin, ConsoleWait, ConsoleTruncate
<1>3. Served' = Served
  BY <1>2 DEF Served, ServedPlaces
<1>4. ServingInv' /\ LogInv'
  BY <1>1, <1>2 DEF ServingInv, LogInv
<1>5. ServerTypes'
  <2>1. quit' \in BOOLEAN /\ console' \in {"command", "close", "join", "woken", "asleep",
                                           "truncate", "returned", console}
    BY <1>1 DEF ServerStart, ConsoleQuit, ConsoleStep, ConsoleEOF, Ask, ConsoleClose,
                ConsoleJoin, ConsoleWait, ConsoleTruncate, ServerTypes
  <2> QED  BY <1>1, <1>2, <2>1 DEF ServerTypes
<1>6. lpc' = "spawn" <=> lpc = "spawn"
  <2>1. console = "off" => lpc = "off"
    BY <1>1 DEF ConsoleInv
  <2> QED  BY <1>2, <2>1
<1>7. ConnectionsCounted'
  BY <1>1, <1>2, <1>3, <1>6 DEF ConnectionsCounted
<1>8. ConsoleInv'
  <2>1. CASE ServerStart
    BY <1>1, <2>1 DEF ServerStart, ConsoleInv
  <2>2. CASE ConsoleQuit \/ ConsoleEOF \/ ConsoleClose \/ \E c \in Clients : Ask(c)
    BY <1>1, <2>2 DEF ConsoleQuit, ConsoleEOF, ConsoleClose, Ask, ConsoleInv
  <2>3. CASE ConsoleJoin \/ ConsoleTruncate
    BY <1>1, <2>3 DEF ConsoleJoin, ConsoleTruncate, ConsoleInv
  <2>4. CASE ConsoleWait
    <3>1. lpc = "exited" /\ lpc' = lpc /\ mishap' = mishap /\ console' \in {"asleep", "truncate"}
      BY <1>1, <2>4 DEF ConsoleWait, ConsoleInv
    <3>2. console' = "truncate" /\ mishap = "none" => active_conn' = 0
      BY <1>1, <2>4, <3>1, ServedFinite DEF ConsoleWait, ConnectionsCounted
    <3> QED  BY <3>1, <3>2 DEF ConsoleInv
  <2> QED  BY <2>1, <2>2, <2>3, <2>4 DEF ConsoleStep
<1> QED  BY <1>4, <1>5, <1>7, <1>8 DEF ServerIInv

\* Every step keeps the invariant of the server.
LEMMA ServerStep == ServerIInv /\ [ServerNext]_serverVars => ServerIInv'
<1> SUFFICES ASSUME ServerIInv, [ServerNext]_serverVars
             PROVE  ServerIInv'
  OBVIOUS
<1>1. CASE UNCHANGED serverVars
  <2>1. UNCHANGED <<quit, active_conn, logcount, log, lpc, lreg, cpc, creg, console,
                    serving, mishap>>
    BY <1>1 DEF serverVars
  <2>2. Served' = Served
    BY <2>1 DEF Served
  <2> QED  BY <2>1, <2>2
           DEF ServerIInv, ServerTypes, ServingInv, ConnectionsCounted, ConsoleInv, LogInv
<1>2. CASE ListenerStep
  BY <1>2, ListenerKeeps
<1>3. ASSUME NEW c \in Clients, ClientStep(c)
      PROVE  ServerIInv'
  BY <1>3, ClientKeeps
<1>4. CASE ServerStart \/ ConsoleQuit \/ ConsoleStep \/ ConsoleEOF \/ \E c \in Clients : Ask(c)
  BY <1>4, ConsoleKeeps
<1> QED  BY <1>1, <1>2, <1>3, <1>4 DEF ServerNext

\* The invariant of the server holds at its start.
LEMMA ServerStarts == ServerInit => ServerIInv
<1> SUFFICES ASSUME ServerInit PROVE ServerIInv
  OBVIOUS
<1>1. Served = {}
  BY DEF ServerInit, Served, ServedPlaces
<1>2. Cardinality(Served) = 0
  BY <1>1, FS_EmptySet
<1>3. ServerTypes
  <2>1. /\ quit = FALSE /\ active_conn = 0 /\ logcount = 0 /\ lreg = 0
        /\ lpc = "off" /\ console = "off"
        /\ cpc = [c \in Clients |-> "none"] /\ creg = [c \in Clients |-> 0]
    BY DEF ServerInit
  <2>2. quit \in BOOLEAN
    BY <2>1
  <2>3. creg \in [Clients -> Int]
    BY <2>1
  <2> QED  BY <2>1, <2>2, <2>3 DEF ServerTypes
<1>4. ServingInv /\ ConsoleInv
  BY DEF ServerInit, ServingInv, ConsoleInv
<1>5. ConnectionsCounted
  BY <1>2 DEF ServerInit, ConnectionsCounted
<1>6. LogInv
  <2>1. log = <<>> /\ logcount = 0
    BY DEF ServerInit
  <2>2. [i \in 1 .. 0 |-> i] = <<>>
    OBVIOUS
  <2> QED  BY <2>1, <2>2 DEF LogInv
<1> QED  BY <1>3, <1>4, <1>5, <1>6 DEF ServerIInv

(* RemoteServer() (tinyos_shell.c), for any number of connections: unless  *)
(* the unprotected increment of active_conn has met a decrement, the       *)
(* console frees the globals only when nobody uses them, and the log is    *)
(* complete until then.                                                    *)
THEOREM QuitsCleanly == ServerSpec => []QuitIsClean
<1>1. ServerIInv => QuitIsClean
  <2> SUFFICES ASSUME ServerIInv PROVE QuitIsClean
    OBVIOUS
  <2>1. ASSUME console = "returned", quit, mishap = "none"
        PROVE  /\ lpc = "exited" /\ active_conn = 0 /\ log = <<>>
               /\ \A c \in Clients : cpc[c] \in {"none", "asking", "refused", "exited"}
    <3>1. lpc = "exited" /\ active_conn = 0 /\ log = <<>>
      BY <2>1 DEF ServerIInv, ConsoleInv
    <3>2. Served = {}
      BY <2>1, <3>1, ServedFinite DEF ServerIInv, ConnectionsCounted
    <3> QED  BY <3>1, <3>2 DEF Served, ServerIInv, ServerTypes
  <2>2. console # "returned" => log = [i \in 1 .. logcount |-> i]
    BY DEF ServerIInv, LogInv
  <2> QED  BY <2>1, <2>2 DEF QuitIsClean
<1> QED  BY <1>1, ServerStarts, ServerStep, PTL DEF ServerSpec

-----------------------------------------------------------------------------
(* The virtual machine.                                                    *)

\* The cores are NCores many, and 0 is one.
LEMMA CoresFinite == IsFiniteSet(Cores) /\ Cardinality(Cores) = NCores /\ 0 \in Cores
<1>1. 0 \in Int /\ NCores - 1 \in Int /\ ~ (0 > NCores - 1) /\ (NCores - 1) - 0 + 1 = NCores
  BY TerminalsAssumption
<1>2. /\ IsFiniteSet(0 .. NCores - 1)
      /\ Cardinality(0 .. NCores - 1) = IF 0 > NCores - 1 THEN 0 ELSE (NCores - 1) - 0 + 1
  BY <1>1, FS_Interval, Zenon
<1>3. 0 \in Cores
  BY <1>1 DEF Cores
<1> QED  BY <1>1, <1>2, <1>3 DEF Cores

\* Whoever leaves the system barrier leaves it with all the others.
LEMMA AllMeet ==
    ASSUME NEW S \in SUBSET AtSystemBarrier, Cardinality(S) = SystemParties
    PROVE  /\ S = Cores \cup {-1}
           /\ pic \in {"start", "leaving"}
           /\ \A c \in Cores : cpu[c] \in {"start", "leaving"}
<1>1. NCores \in Nat /\ -1 \notin Cores
  BY TerminalsAssumption DEF Cores
<1>2. /\ IsFiniteSet(Cores \cup {-1}) /\ Cardinality(Cores \cup {-1}) = Cardinality(Cores) + 1
  BY <1>1, CoresFinite, FS_AddElement
<1>3. S \in SUBSET (Cores \cup {-1})
  BY DEF AtSystemBarrier
<1>4. S = Cores \cup {-1}
  BY <1>2, <1>3, FS_Subset DEF SystemParties
<1> QED  BY <1>1, <1>4 DEF AtSystemBarrier

\* Steps that leave the cores and the PIC daemon where they are.
LEMMA ElsewhereKeeps ==
    ASSUME MachineIInv, UNCHANGED <<pic, cpu, ghost>>
    PROVE  MachineIInv'
  BY DEF MachineIInv, CoresInv

\* The daemon moves on; a signal that it sends finds core 0 there.
LEMMA PicKeeps ==
    ASSUME MachineIInv, PicStep
    PROVE  MachineIInv'
<1>1. CASE PicSelect \/ PicRaise
  <2>1. /\ pic \in {"loop", "raise"} /\ pic' \in {"loop", "raise"} /\ cpu' = cpu
        /\ cpu[0] # "ended" /\ ghost = FALSE
    BY <1>1, CoresFinite DEF PicSelect, PicRaise, MachineIInv, CoresInv
  <2>2. ghost' = FALSE
    BY <1>1, <2>1 DEF PicSelect, PicRaise, raise_interrupt
  <2> QED  BY <2>1, <2>2 DEF MachineIInv, CoresInv
<1>2. CASE PicStop
  BY <1>2 DEF PicStop, MachineIInv, CoresInv
<1>3. CASE PicEnd
  BY <1>3 DEF PicEnd, MachineIInv, CoresInv
<1> QED  BY <1>1, <1>2, <1>3 DEF PicStep

\* A step of one core.
LEMMA CoreKeeps ==
    ASSUME MachineIInv, CoreStep
    PROVE  MachineIInv'
<1>1. /\ cpu \in [Cores -> CorePlaces]
      /\ pic \in {"off", "start", "loop", "raise", "leaving", "close", "ended"}
      /\ ghost = FALSE
  BY DEF MachineIInv, CoresInv
<1>2. CASE SystemBarrier
  <2>1. PICK S \in SUBSET AtSystemBarrier :
           /\ Cardinality(S) = SystemParties
           /\ cpu' = [c \in Cores |-> IF c \notin S THEN cpu[c]
                                      ELSE IF cpu[c] = "start" THEN "boot" ELSE "ended"]
           /\ pic' = IF -1 \notin S THEN pic ELSE IF pic = "start" THEN "loop" ELSE "close"
           /\ ghost' = ghost
    BY <1>2 DEF SystemBarrier
  <2>2. /\ S = Cores \cup {-1}
        /\ pic \in {"start", "leaving"}
        /\ \A c \in Cores : cpu[c] \in {"start", "leaving"}
    BY <2>1, AllMeet
  <2>3. /\ cpu' = [c \in Cores |-> IF cpu[c] = "start" THEN "boot" ELSE "ended"]
        /\ pic' = IF pic = "start" THEN "loop" ELSE "close"
    BY <2>1, <2>2
  <2>4. CASE pic = "start"
    <3>1. \A c \in Cores : cpu[c] = "start"
      BY <2>4 DEF MachineIInv, CoresInv
    <3>2. pic' = "loop" /\ \A c \in Cores : cpu'[c] = "boot"
      BY <2>3, <2>4, <3>1
    <3> QED  BY <1>1, <2>1, <2>3, <3>2 DEF MachineIInv, CoresInv, CorePlaces
  <2>5. CASE pic = "leaving"
    <3>1. \A c \in Cores : cpu[c] # "start"
      BY <2>5 DEF MachineIInv, CoresInv
    <3>2. pic' = "close" /\ \A c \in Cores : cpu'[c] = "ended"
      BY <2>3, <2>5, <3>1
    <3> QED  BY <1>1, <2>1, <2>3, <3>2 DEF MachineIInv, CoresInv, CorePlaces
  <2> QED  BY <2>2, <2>4, <2>5
<1>3. ASSUME \E c \in Cores : cpu[c] \in {"boot", "booted", "run", "stopped", "leave"},
             cpu' \in [Cores -> CorePlaces], pic' = pic, ghost' = ghost,
             \A c \in Cores : cpu'[c] = cpu[c] \/ cpu'[c] \notin {"off", "start", "ended"}
      PROVE  MachineIInv'
  <2>1. pic \in {"loop", "raise", "leaving"}
    BY <1>1, <1>3 DEF MachineIInv, CoresInv
  <2> QED  BY <1>3, <2>1 DEF MachineIInv, CoresInv
<1>4. CASE CoreBarrier
  <2>1. \A c \in Cores : cpu[c] \in {"booted", "stopped"}
    BY <1>4 DEF CoreBarrier, AtCoreBarrier
  <2> QED  BY <1>3, <1>4, <2>1, CoresFinite DEF CoreBarrier, CorePlaces
<1>5. ASSUME NEW c \in Cores, Boot(c) \/ StopCore(c) \/ Leave(c)
      PROVE  MachineIInv'
  BY <1>1, <1>3, <1>5 DEF Boot, StopCore, Leave, CorePlaces
<1> QED  BY <1>2, <1>4, <1>5 DEF CoreStep

\* Every step keeps the invariant of the machine.
LEMMA MachineStep == MachineIInv /\ [TerminalsNext]_terminalVars => MachineIInv'
<1> SUFFICES ASSUME MachineIInv, [TerminalsNext]_terminalVars
             PROVE  MachineIInv'
  OBVIOUS
<1>1. CASE UNCHANGED terminalVars
  BY <1>1, ElsewhereKeeps DEF terminalVars, machineVars
<1>2. CASE VmRun
  BY <1>2 DEF VmRun, MachineIInv, CoresInv, CorePlaces
<1>3. CASE Type \/ Show \/ TimePasses
  BY <1>3, ElsewhereKeeps DEF Type, Show, TimePasses, machineVars
<1>4. CASE PicStep
  BY <1>4, PicKeeps
<1>5. CASE CoreStep
  BY <1>5, CoreKeeps
<1>6. ASSUME NEW stays \in BOOLEAN, TakeSignal(stays)
      PROVE  MachineIInv'
  BY <1>6, ElsewhereKeeps DEF TakeSignal, machineVars
<1>7. ASSUME NEW c \in Cores, Reschedule(c)
      PROVE  MachineIInv'
  BY <1>7, ElsewhereKeeps DEF Reschedule, machineVars
<1>8. ASSUME NEW t \in TermUsers, UserStep(t)
      PROVE  MachineIInv'
  BY <1>8, ElsewhereKeeps
     DEF UserStep, LockMutex, TakeSem, PostSem, MoveByte, MoveFails, MarkDevice, WaitRx,
         RetakeSem, machineVars
<1> QED  BY <1>1, <1>2, <1>3, <1>4, <1>5, <1>6, <1>7, <1>8 DEF TerminalsNext

\* The invariant of the machine holds at its start.
LEMMA MachineStarts == TerminalsInit => MachineIInv
  BY DEF TerminalsInit, MachineIInv, CoresInv, CorePlaces

(* vm_run(), core_thread() and the PIC daemon (bios.c), for any number of  *)
(* cores and fifos of any size: a signal is never sent to the thread of a  *)
(* core that has ended.                                                    *)
THEOREM SignalsReachLiveCores == TerminalsSpec => []SignalsLiveCores
<1>1. MachineIInv => SignalsLiveCores
  BY DEF MachineIInv, SignalsLiveCores
<1> QED  BY <1>1, MachineStarts, MachineStep, PTL DEF TerminalsSpec

-----------------------------------------------------------------------------
(* The test harness.                                                       *)

\* What the invariant says of the types, in one place.
LEMMA HarnessFacts ==
    ASSUME HarnessIInv
    PROVE  /\ HarnessTypes /\ TestInv /\ \A d \in Daemons : DaemonCounts(d)
           /\ pattern \in [Daemons -> Nat] /\ plen \in [Daemons -> Nat]
           /\ unmet \in [Daemons -> Int] /\ FLAG_FAILURE \in BOOLEAN
           /\ daemon \in [Daemons -> Busy \cup {"get", "ended"}]
           /\ complete \in [Daemons -> BOOLEAN]
           /\ screen \in Seq(BOOLEAN) /\ keys \in 0 .. TerminalFifo
           /\ PatternSize \in Nat /\ PatternSize > 0 /\ TerminalFifo \in Nat
  BY HarnessAssumption DEF HarnessIInv, HarnessTypes

\* A daemon gets to the end of a pattern, with n of its bytes not done.
LEMMA FinishKeeps ==
    ASSUME HarnessIInv, NEW d \in Daemons, NEW n \in Nat, plen[d] > 0, Finish(d, n),
           UNCHANGED <<parent, test, pattern, complete>>,
           screen' \in Seq(BOOLEAN), keys' \in 0 .. TerminalFifo, Alive
    PROVE  HarnessIInv'
<1>1. /\ TestInv /\ \A e \in Daemons : DaemonCounts(e)
      /\ pattern \in [Daemons -> Nat] /\ plen \in [Daemons -> Nat]
      /\ unmet \in [Daemons -> Int] /\ FLAG_FAILURE \in BOOLEAN
      /\ daemon \in [Daemons -> Busy \cup {"get", "ended"}]
      /\ complete \in [Daemons -> BOOLEAN]
      /\ test \in {"run", "close"}
  BY HarnessFacts DEF Alive
<1>2. /\ FLAG_FAILURE' = (FLAG_FAILURE \/ n > 0)
      /\ unmet' = IF n = 0 THEN [unmet EXCEPT ![d] = @ - 1] ELSE unmet
      /\ plen' = [plen EXCEPT ![d] = 0]
      /\ daemon' = [daemon EXCEPT ![d] = "get"]
  BY DEF Finish
<1>3. TestInv'
  BY <1>1 DEF TestInv
<1>4. DaemonCounts(d)'
  <2>1. /\ plen'[d] = 0 /\ daemon'[d] = "get" /\ pattern'[d] = pattern[d]
        /\ complete'[d] = complete[d] /\ test' = test
    BY <1>1, <1>2
  <2>2. ASSUME ~ FLAG_FAILURE' PROVE unmet'[d] = pattern[d]
    <3>1. ~ FLAG_FAILURE /\ n = 0
      <4>1. ~ (FLAG_FAILURE \/ n > 0)
        BY <1>2, <2>2
      <4> QED  BY <4>1
    <3>2. unmet[d] = pattern[d] + 1
      BY <1>1, <3>1 DEF DaemonCounts
    <3>3. unmet'[d] = unmet[d] - 1
      BY <1>1, <1>2, <3>1
    <3>4. pattern[d] \in Nat
      BY <1>1
    <3> QED  BY <3>2, <3>3, <3>4
  <2>3. pattern[d] \in Nat
    BY <1>1
  <2> QED  BY <1>1, <2>1, <2>2, <2>3 DEF DaemonCounts, Busy
<1>5. ASSUME NEW e \in Daemons \ {d}
      PROVE  DaemonCounts(e)'
  <2>1. /\ plen'[e] = plen[e] /\ daemon'[e] = daemon[e] /\ pattern'[e] = pattern[e]
        /\ complete'[e] = complete[e] /\ test' = test /\ unmet'[e] = unmet[e]
        /\ ~ FLAG_FAILURE' => ~ FLAG_FAILURE
    BY <1>1, <1>2
  <2> QED  BY <1>1, <2>1 DEF DaemonCounts
<1>6. HarnessTypes'
  <2>1. unmet' \in [Daemons -> Int] /\ plen' \in [Daemons -> Nat]
    <3>1. unmet[d] - 1 \in Int
      BY <1>1
    <3> QED  BY <1>1, <1>2, <3>1
  <2>2. daemon' \in [Daemons -> Busy \cup {"get", "ended"}]
    BY <1>1, <1>2
  <2>3. FLAG_FAILURE' \in BOOLEAN
    BY <1>2
  <2> QED  BY <1>1, <2>1, <2>2, <2>3 DEF HarnessTypes
<1> QED  BY <1>3, <1>4, <1>5, <1>6 DEF HarnessIInv

\* A daemon goes on with its pattern, of which r bytes are left.
LEMMA WorkKeeps ==
    ASSUME HarnessIInv, NEW d \in Daemons, NEW r \in Nat, r > 0, plen[d] > 0,
           NEW b \in Busy,
           daemon' = [daemon EXCEPT ![d] = b], plen' = [plen EXCEPT ![d] = r],
           UNCHANGED <<parent, test, pattern, complete, FLAG_FAILURE, unmet>>,
           screen' \in Seq(BOOLEAN), keys' \in 0 .. TerminalFifo
    PROVE  HarnessIInv'
<1>1. /\ TestInv /\ HarnessTypes /\ \A e \in Daemons : DaemonCounts(e)
      /\ plen \in [Daemons -> Nat] /\ unmet \in [Daemons -> Int]
      /\ daemon \in [Daemons -> Busy \cup {"get", "ended"}]
  BY HarnessFacts
<1>2. HarnessTypes'
  BY <1>1 DEF HarnessTypes
<1>3. ASSUME NEW e \in Daemons
      PROVE  /\ daemon'[e] \in Busy <=> daemon[e] \in Busy
             /\ plen'[e] > 0 <=> plen[e] > 0
             /\ daemon'[e] = "ended" => daemon[e] = "ended"
  <2>1. CASE e = d
    BY <1>1, <2>1 DEF DaemonCounts, Busy
  <2>2. CASE e # d
    BY <1>1, <2>2
  <2> QED  BY <2>1, <2>2
<1>4. ASSUME NEW e \in Daemons
      PROVE  DaemonCounts(e)'
  BY <1>1, <1>3 DEF DaemonCounts
<1>5. TestInv'
  <2>1. daemon[d] # "ended"
    BY <1>1 DEF DaemonCounts, Busy
  <2> QED  BY <1>1, <2>1 DEF TestInv
<1> QED  BY <1>2, <1>4, <1>5 DEF HarnessIInv

\* A test reads what it waits for.
LEMMA GetKeeps ==
    ASSUME HarnessIInv, NEW d \in Daemons, Get(d)
    PROVE  HarnessIInv'
<1>1. /\ TestInv /\ HarnessTypes /\ \A e \in Daemons : DaemonCounts(e)
      /\ plen \in [Daemons -> Nat] /\ pattern \in [Daemons -> Nat]
      /\ daemon \in [Daemons -> Busy \cup {"get", "ended"}]
      /\ PatternSize \in Nat /\ PatternSize > 0
  BY HarnessFacts
<1>2. /\ Alive /\ daemon[d] = "get" /\ (complete[d] \/ pattern[d] > 0)
      /\ UNCHANGED <<parent, test, screen, keys, complete, FLAG_FAILURE, unmet>>
  BY DEF Get, parentVars, fifoVars
<1>3. plen[d] = 0
  <2>1. plen[d] \in Nat /\ ~ (plen[d] > 0)
    BY <1>1, <1>2 DEF DaemonCounts, Busy
  <2> QED  BY <2>1
<1>4. TestInv'
  BY <1>1, <1>2 DEF TestInv, Alive
<1>5. CASE pattern[d] = 0
  <2>1. daemon' = [daemon EXCEPT ![d] = "ended"] /\ pattern' = pattern /\ plen' = plen
    BY <1>5 DEF Get
  <2>2. complete[d]
    BY <1>1, <1>2, <1>5
  <2>3. HarnessTypes'
    BY <1>1, <1>2, <2>1 DEF HarnessTypes
  <2>4. ASSUME NEW e \in Daemons
        PROVE  DaemonCounts(e)'
    BY <1>1, <1>2, <1>3, <1>5, <2>1, <2>2 DEF DaemonCounts, Busy
  <2> QED  BY <1>4, <2>3, <2>4 DEF HarnessIInv
<1>6. CASE pattern[d] # 0
  <2>1. /\ pattern' = [pattern EXCEPT ![d] = @ - 1] /\ plen' = [plen EXCEPT ![d] = PatternSize]
        /\ daemon' = [daemon EXCEPT ![d] = "poll"]
    BY <1>6 DEF Get
  <2>2. pattern[d] - 1 \in Nat /\ pattern[d] = (pattern[d] - 1) + 1
    BY <1>1, <1>6
  <2>3. HarnessTypes'
    BY <1>1, <1>2, <2>1, <2>2 DEF HarnessTypes, Busy
  <2>4. DaemonCounts(d)'
    <3>1. /\ pattern'[d] = pattern[d] - 1 /\ plen'[d] = PatternSize /\ daemon'[d] = "poll"
      BY <1>1, <2>1
    <3>2. ~ FLAG_FAILURE => unmet[d] = pattern[d]
      BY <1>1, <1>3 DEF DaemonCounts
    <3> QED  BY <1>1, <1>2, <2>2, <3>1, <3>2 DEF DaemonCounts, Busy
  <2>5. ASSUME NEW e \in Daemons \ {d}
        PROVE  DaemonCounts(e)'
    BY <1>1, <1>2, <2>1 DEF DaemonCounts
  <2> QED  BY <1>4, <2>3, <2>4, <2>5 DEF HarnessIInv
<1> QED  BY <1>5, <1>6

\* The daemon of a console.
LEMMA ConKeeps ==
    ASSUME HarnessIInv, ConPoll \/ ConCheck \/ ConRead
    PROVE  HarnessIInv'
<1> DEFINE d == "con"
<1>1. /\ \A e \in Daemons : DaemonCounts(e)
      /\ plen \in [Daemons -> Nat] /\ screen \in Seq(BOOLEAN) /\ keys \in 0 .. TerminalFifo
      /\ d \in Daemons
  BY HarnessFacts DEF Daemons
<1>2. /\ daemon[d] \in Busy /\ Alive
      /\ UNCHANGED <<parent, test, keys, pattern, complete>>
  BY DEF ConPoll, ConCheck, ConRead, Busy, parentVars, fifoVars
<1>3. plen[d] \in Nat /\ plen[d] > 0
  BY <1>1, <1>2 DEF DaemonCounts
<1>4. plen = [plen EXCEPT ![d] = plen[d]]
  BY <1>1
<1>5. CASE ConPoll
  <2>1. /\ daemon' = [daemon EXCEPT ![d] = "check"]
        /\ UNCHANGED <<screen, plen, FLAG_FAILURE, unmet>>
    BY <1>5 DEF ConPoll, fifoVars
  <2> QED  BY <1>1, <1>2, <1>3, <1>4, <2>1, WorkKeeps DEF Busy
<1>6. CASE ConCheck
  <2>1. screen' = screen
    BY <1>6 DEF ConCheck, fifoVars
  <2>2. CASE Finish(d, plen[d])
    BY <1>1, <1>2, <1>3, <2>1, <2>2, FinishKeeps
  <2>3. CASE /\ daemon' = [daemon EXCEPT ![d] = IF have_data THEN "read" ELSE "poll"]
             /\ UNCHANGED <<plen, FLAG_FAILURE, unmet>>
    <3> DEFINE b == IF have_data THEN "read" ELSE "poll"
    <3>1. b \in Busy
      BY DEF Busy
    <3>2. daemon' = [daemon EXCEPT ![d] = b]
      BY <2>3
    <3> HIDE DEF b
    <3> QED  BY <1>1, <1>2, <1>3, <1>4, <2>1, <2>3, <3>1, <3>2, WorkKeeps
  <2> QED  BY <1>6, <2>2, <2>3 DEF ConCheck
<1>7. CASE ConRead
  <2> DEFINE m == IF Len(screen) < plen[d] THEN Len(screen) ELSE plen[d]
             rest == plen[d] - Len(Chunk)
  <2>1. m \in 0 .. Len(screen) /\ m <= plen[d] /\ m \in Nat /\ Len(screen) \in Nat
    BY <1>1, <1>3
  <2>2. Chunk = SubSeq(screen, 1, m)
    BY DEF Chunk
  <2> HIDE DEF m
  <2>3. Len(Chunk) = m
    BY <1>1, <2>1, <2>2
  <2>4. rest \in Nat
    BY <1>3, <2>1, <2>3
  <2>5. screen' \in Seq(BOOLEAN)
    <3>1. screen' = SubSeq(screen, m + 1, Len(screen))
      BY <1>7, <2>3 DEF ConRead
    <3>2. \A i \in m + 1 .. Len(screen) : i \in 1 .. Len(screen)
      BY <2>1
    <3> QED  BY <1>1, <2>1, <3>1, <3>2, SubSeqProperties
  <2>6. \/ Finish(d, plen[d]) \/ Finish(d, 0)
        \/ /\ rest # 0 /\ plen' = [plen EXCEPT ![d] = rest]
           /\ daemon' = [daemon EXCEPT ![d] = "poll"]
           /\ UNCHANGED <<FLAG_FAILURE, unmet>>
    BY <1>7 DEF ConRead
  <2> HIDE DEF rest
  <2>7. CASE Finish(d, plen[d])
    BY <1>1, <1>2, <1>3, <2>5, <2>7, FinishKeeps
  <2>8. CASE Finish(d, 0)
    BY <1>1, <1>2, <1>3, <2>5, <2>8, FinishKeeps
  <2>9. CASE /\ rest # 0 /\ plen' = [plen EXCEPT ![d] = rest]
             /\ daemon' = [daemon EXCEPT ![d] = "poll"]
             /\ UNCHANGED <<FLAG_FAILURE, unmet>>
    <3>1. rest > 0 /\ "poll" \in Busy
      BY <2>4, <2>9 DEF Busy
    <3> QED  BY <1>1, <1>2, <1>3, <2>4, <2>5, <2>9, <3>1, WorkKeeps
  <2> QED  BY <2>6, <2>7, <2>8, <2>9
<1> QED  BY <1>5, <1>6, <1>7

\* The daemon of a keyboard.
LEMMA KbdKeeps ==
    ASSUME HarnessIInv, KbdPoll \/ KbdWrite
    PROVE  HarnessIInv'
<1> DEFINE d == "kbd"
<1>1. /\ \A e \in Daemons : DaemonCounts(e)
      /\ plen \in [Daemons -> Nat] /\ screen \in Seq(BOOLEAN) /\ keys \in 0 .. TerminalFifo
      /\ d \in Daemons /\ TerminalFifo \in Nat
  BY HarnessFacts DEF Daemons
<1>2. /\ daemon[d] \in Busy /\ Alive
      /\ UNCHANGED <<parent, test, screen, pattern, complete>>
  BY DEF KbdPoll, KbdWrite, Busy, parentVars, fifoVars
<1>3. plen[d] \in Nat /\ plen[d] > 0
  BY <1>1, <1>2 DEF DaemonCounts
<1>4. plen = [plen EXCEPT ![d] = plen[d]]
  BY <1>1
<1>5. CASE KbdPoll
  <2>1. /\ daemon' = [daemon EXCEPT ![d] = "write"]
        /\ UNCHANGED <<keys, plen, FLAG_FAILURE, unmet>>
    BY <1>5 DEF KbdPoll, fifoVars
  <2> QED  BY <1>1, <1>2, <1>3, <1>4, <2>1, WorkKeeps DEF Busy
<1>6. CASE KbdWrite
  <2> DEFINE n == IF TerminalFifo - keys < plen[d] THEN TerminalFifo - keys ELSE plen[d]
             rest == plen[d] - n
             b == IF n = 0 THEN "poll" ELSE "write"
  <2>1. n \in Nat /\ rest \in Nat /\ (rest = 0 <=> n = plen[d])
    BY <1>1, <1>3
  <2>2. keys' \in 0 .. TerminalFifo
    <3>1. keys' = keys + n
      BY <1>6 DEF KbdWrite
    <3> QED  BY <1>1, <1>3, <3>1
  <2>3. b \in Busy
    BY DEF Busy
  <2>4. \/ Finish(d, plen[d]) \/ Finish(d, 0)
        \/ /\ n # plen[d] /\ plen' = [plen EXCEPT ![d] = rest]
           /\ daemon' = [daemon EXCEPT ![d] = b]
           /\ UNCHANGED <<FLAG_FAILURE, unmet>>
    BY <1>1, <1>6 DEF KbdWrite
  <2> HIDE DEF n, rest, b
  <2>5. CASE Finish(d, plen[d])
    BY <1>1, <1>2, <1>3, <2>2, <2>5, FinishKeeps
  <2>6. CASE Finish(d, 0)
    BY <1>1, <1>2, <1>3, <2>2, <2>6, FinishKeeps
  <2>7. CASE /\ n # plen[d] /\ plen' = [plen EXCEPT ![d] = rest]
             /\ daemon' = [daemon EXCEPT ![d] = b]
             /\ UNCHANGED <<FLAG_FAILURE, unmet>>
    <3>1. rest > 0
      BY <2>1, <2>7
    <3> QED  BY <1>1, <1>2, <1>3, <2>1, <2>2, <2>3, <2>7, <3>1, WorkKeeps
  <2> QED  BY <2>4, <2>5, <2>6, <2>7
<1> QED  BY <1>5, <1>6

\* Steps of the parent and the child: a test passes only after its daemons
\* have ended.
LEMMA TestKeeps ==
    ASSUME HarnessIInv,
           \/ Fork \/ Expire \/ SigWait \/ Cancel \/ Kill \/ WaitPid
           \/ TestEnds \/ ChildEnds \/ \E d \in Daemons : CloseDaemon(d)
    PROVE  HarnessIInv'
<1>1. /\ TestInv /\ HarnessTypes /\ \A e \in Daemons : DaemonCounts(e)
      /\ complete \in [Daemons -> BOOLEAN] /\ FLAG_FAILURE \in BOOLEAN
  BY HarnessFacts
<1>2. /\ UNCHANGED <<fifoVars, pattern, daemon, plen, FLAG_FAILURE, unmet>>
      /\ complete' \in [Daemons -> BOOLEAN]
      /\ \A e \in Daemons : complete'[e] => complete[e] \/ test' = "close"
      /\ \A e \in Daemons : complete[e] => complete'[e]
  BY <1>1 DEF Fork, Expire, SigWait, Cancel, Kill, WaitPid, TestEnds, ChildEnds, CloseDaemon,
              daemonVars
<1>3. HarnessTypes'
  BY <1>1, <1>2 DEF HarnessTypes, fifoVars
<1>4. test \in {"close", "exit", "abort", "killed"} =>
          test' \in {"close", "exit", "abort", "killed"}
  BY <1>1 DEF Fork, Expire, SigWait, Cancel, Kill, WaitPid, TestEnds, ChildEnds, CloseDaemon,
              TestInv
<1>5. ASSUME NEW e \in Daemons
      PROVE  DaemonCounts(e)'
  BY <1>1, <1>2, <1>4 DEF DaemonCounts
<1>6. TestInv'
  <2>1. CASE Fork \/ TestEnds \/ \E d \in Daemons : CloseDaemon(d)
    BY <1>1, <1>2, <2>1 DEF Fork, TestEnds, CloseDaemon, TestInv, parentVars
  <2>2. CASE Expire \/ SigWait \/ Cancel
    BY <1>1, <1>2, <2>2 DEF Expire, SigWait, Cancel, TestInv
  <2>3. CASE Kill \/ WaitPid
    BY <1>1, <1>2, <2>3 DEF Kill, WaitPid, TestInv
  <2>4. CASE ChildEnds
    BY <1>1, <1>2, <2>4 DEF ChildEnds, TestInv
  <2> QED  BY <2>1, <2>2, <2>3, <2>4
<1> QED  BY <1>3, <1>5, <1>6 DEF HarnessIInv

\* The test asks for a pattern, reads or writes.
LEMMA TestRunsKeeps ==
    ASSUME HarnessIInv, Output \/ Input \/ \E d \in Daemons : AskPattern(d)
    PROVE  HarnessIInv'
<1>1. /\ TestInv /\ HarnessTypes /\ \A e \in Daemons : DaemonCounts(e)
      /\ screen \in Seq(BOOLEAN) /\ keys \in 0 .. TerminalFifo /\ TerminalFifo \in Nat
      /\ pattern \in [Daemons -> Nat] /\ unmet \in [Daemons -> Int]
  BY HarnessFacts
<1>2. test = "run" /\ UNCHANGED <<parent, test, complete, daemon, plen, FLAG_FAILURE>>
  BY DEF Output, Input, AskPattern, parentVars, daemonVars
<1>3. TestInv'
  BY <1>1, <1>2 DEF TestInv
<1>4. CASE Output \/ Input
  <2>1. screen' \in Seq(BOOLEAN) /\ keys' \in 0 .. TerminalFifo
    <3>1. CASE Output
      <4>1. PICK good \in BOOLEAN : screen' = Append(screen, good)
        BY <3>1 DEF Output
      <4>2. Append(screen, good) \in Seq(BOOLEAN)
        BY <1>1
      <4> QED  BY <1>1, <3>1, <4>1, <4>2 DEF Output
    <3>2. CASE Input
      <4>1. screen' = screen /\ keys > 0 /\ keys' = keys - 1
        BY <3>2 DEF Input
      <4>2. keys - 1 \in 0 .. TerminalFifo
        BY <1>1, <4>1
      <4> QED  BY <1>1, <4>1, <4>2
    <3> QED  BY <1>4, <3>1, <3>2
  <2>2. UNCHANGED <<pattern, unmet>>
    BY <1>4 DEF Output, Input, daemonVars
  <2> QED  BY <1>1, <1>2, <1>3, <2>1, <2>2 DEF HarnessIInv, HarnessTypes, DaemonCounts
<1>5. ASSUME NEW d \in Daemons, AskPattern(d)
      PROVE  HarnessIInv'
  <2>1. /\ pattern' = [pattern EXCEPT ![d] = @ + 1] /\ unmet' = [unmet EXCEPT ![d] = @ + 1]
        /\ UNCHANGED <<screen, keys>>
    BY <1>5 DEF AskPattern, fifoVars
  <2>2. pattern[d] + 1 \in Nat /\ unmet[d] + 1 \in Int /\ pattern[d] \in Nat
    BY <1>1
  <2>3. HarnessTypes'
    BY <1>1, <1>2, <2>1, <2>2 DEF HarnessTypes
  <2>4. DaemonCounts(d)'
    <3>1. /\ pattern'[d] = pattern[d] + 1 /\ unmet'[d] = unmet[d] + 1
          /\ ~ complete[d] /\ daemon[d] # "ended"
      BY <1>1, <1>2, <2>1 DEF DaemonCounts
    <3>2. ~ FLAG_FAILURE => unmet'[d] = pattern'[d] + (IF plen[d] > 0 THEN 1 ELSE 0)
      BY <1>1, <2>2, <3>1 DEF DaemonCounts
    <3> QED  BY <1>1, <1>2, <3>1, <3>2 DEF DaemonCounts
  <2>5. ASSUME NEW e \in Daemons \ {d}
        PROVE  DaemonCounts(e)'
    BY <1>1, <1>2, <2>1 DEF DaemonCounts
  <2> QED  BY <1>3, <2>3, <2>4, <2>5 DEF HarnessIInv
<1> QED  BY <1>4, <1>5

\* Every step keeps the invariant of the harness.
LEMMA HarnessStep == HarnessIInv /\ [HarnessNext]_harnessVars => HarnessIInv'
<1> SUFFICES ASSUME HarnessIInv, [HarnessNext]_harnessVars
             PROVE  HarnessIInv'
  OBVIOUS
<1>1. CASE UNCHANGED harnessVars
  <2>1. UNCHANGED <<parent, test, screen, keys, pattern, complete, daemon, plen,
                    FLAG_FAILURE, unmet>>
    BY <1>1 DEF harnessVars, parentVars, fifoVars, daemonVars
  <2>2. /\ TestInv /\ HarnessTypes /\ \A e \in Daemons : DaemonCounts(e)
    BY HarnessFacts
  <2>3. TestInv'
    BY <2>1, <2>2 DEF TestInv
  <2>4. HarnessTypes'
    BY <2>1, <2>2 DEF HarnessTypes
  <2>5. ASSUME NEW e \in Daemons
        PROVE  DaemonCounts(e)'
    BY <2>1, <2>2 DEF DaemonCounts
  <2> QED  BY <2>3, <2>4, <2>5 DEF HarnessIInv
<1>2. CASE \/ Fork \/ Expire \/ SigWait \/ Cancel \/ Kill \/ WaitPid
           \/ TestEnds \/ ChildEnds \/ \E d \in Daemons : CloseDaemon(d)
  BY <1>2, TestKeeps
<1>3. CASE Output \/ Input \/ \E d \in Daemons : AskPattern(d)
  BY <1>3, TestRunsKeeps
<1>4. ASSUME NEW d \in Daemons, DaemonStep(d)
      PROVE  HarnessIInv'
  BY <1>4, GetKeeps, ConKeeps, KbdKeeps DEF DaemonStep
<1> QED  BY <1>1, <1>2, <1>3, <1>4 DEF HarnessNext

\* The invariant of the harness holds at its start.
LEMMA HarnessStarts == HarnessInit => HarnessIInv
<1> SUFFICES ASSUME HarnessInit PROVE HarnessIInv
  OBVIOUS
<1>1. /\ screen = <<>> /\ keys = 0 /\ FLAG_FAILURE = FALSE /\ test = "none" /\ parent = "off"
      /\ pattern = [d \in Daemons |-> 0] /\ plen = [d \in Daemons |-> 0]
      /\ unmet = [d \in Daemons |-> 0] /\ daemon = [d \in Daemons |-> "get"]
      /\ complete = [d \in Daemons |-> FALSE]
  BY DEF HarnessInit
<1>2. HarnessTypes
  <2>1. screen \in Seq(BOOLEAN) /\ keys \in 0 .. TerminalFifo
    BY <1>1, HarnessAssumption
  <2>2. complete \in [Daemons -> BOOLEAN] /\ FLAG_FAILURE \in BOOLEAN
    BY <1>1
  <2> QED  BY <1>1, <2>1, <2>2 DEF HarnessTypes
<1>3. ASSUME NEW d \in Daemons
      PROVE  DaemonCounts(d)
  BY <1>1 DEF DaemonCounts, Busy
<1>4. TestInv
  BY <1>1 DEF TestInv
<1> QED  BY <1>2, <1>3, <1>4 DEF HarnessIInv

(* execute_fork() and the daemons of unit_testing.c, for patterns and      *)
(* fifos of any size: a test that is reported as passed has had every      *)
(* pattern matched and typed.                                              *)
THEOREM PassedTestsAreMet == HarnessSpec => []PassMeansMet
<1>1. HarnessIInv => PassMeansMet
  <2> SUFFICES ASSUME HarnessIInv, parent = "passed", NEW d \in Daemons
               PROVE  unmet[d] = 0
    BY DEF PassMeansMet
  <2>1. /\ TestInv /\ DaemonCounts(d) /\ plen[d] \in Nat
    BY HarnessFacts
  <2>2. ~ FLAG_FAILURE /\ daemon[d] = "ended" /\ pattern[d] = 0
    BY <2>1 DEF TestInv, DaemonCounts
  <2>3. ~ (plen[d] > 0)
    BY <2>1, <2>2 DEF DaemonCounts, Busy
  <2> QED  BY <2>1, <2>2, <2>3 DEF DaemonCounts
<1> QED  BY <1>1, HarnessStarts, HarnessStep, PTL DEF HarnessSpec

-----------------------------------------------------------------------------
(* The command lines of the shell, for lines and buffers of any length: a  *)
(* line leaks no descriptor and no pipe, and no byte is lost on its way.   *)

\* What is proved of the system calls, for the table of the shell.
S == INSTANCE StreamsProofs WITH
        Procs <- {Shell} \cup Children, Init_pid <- Shell,
        MAX_FILES <- 2 * MaxFrags + 1, MAX_FILEID <- 6,
        MaxPipes <- MaxFrags, NTerminals <- 1,
        os <- table, inuse <- [p \in {Shell} \cup Children |-> 0]

-----------------------------------------------------------------------------
(* The invariant.                                                          *)

\* What the descriptors of each process lead to, and the terminal.
V == S!View(table)
Term == S!Terminal(0)
Idle == [p \in {Shell} \cup Children |-> 0]

Live == {"run", "report"}
Saving == {"prompt", "save", "save_dup", "save_out", "save_out_dup"}
Piping == {"dupw", "closew", "exec", "dupr", "closer"}

LineTypes ==
    /\ S!Sound(table, Idle)
    /\ line \in Lines \cup {<<>>} /\ frag \in Nat \ {0}
    /\ step \in Saving \cup {"pipe", "wait"} \cup Piping
    /\ step # "prompt" => line \in Lines /\ frag <= Len(line)
    /\ step \in Saving => frag = 1
    /\ child \in [Children -> {"none", "exited"} \cup Live]
    /\ held \in [Children -> Nat] /\ got \in [Children -> Nat]
    /\ content \in [S!Pipes -> Nat]

\* The shell's descriptors at each step of process_line().
RowInv ==
    /\ V[Shell][0] # S!None /\ V[Shell][1] # S!None
    /\ step \in Saving \cup {"wait"} => V[Shell][0] = Term /\ V[Shell][1] = Term
    /\ step = "closer" /\ LastFrag => V[Shell][0] = Term
    /\ step \in Piping \ {"dupw"} /\ LastFrag => V[Shell][1] = Term
    /\ IF step \in {"prompt", "save", "wait"} THEN V[Shell][2] = S!None
       ELSE IF step = "save_dup" THEN V[Shell][2] # S!None
       ELSE V[Shell][2] = Term
    /\ IF \/ step \in {"prompt", "save", "save_dup", "save_out", "wait"}
          \/ step \in {"exec", "dupr", "closer"} /\ LastFrag
       THEN V[Shell][3] = S!None
       ELSE IF step = "save_out_dup" THEN V[Shell][3] # S!None
       ELSE V[Shell][3] = Term
    /\ V[Shell][4] # S!None <=> step \in Piping /\ ~ LastFrag
    /\ V[Shell][5] # S!None <=> step \in {"dupw", "closew"} /\ ~ LastFrag
    /\ step \notin {"prompt", "save", "wait"} => savein = 2
    /\ step \in {"save_out_dup", "pipe"} \cup Piping => saveout = 3
    /\ step \in Piping /\ ~ LastFrag => piperead = 4 /\ pipewrite = 5

\* Fragments whose process was created for this line.
Started(i) ==
    \/ step = "wait" /\ i <= Len(line)
    \/ i < frag \/ (i = frag /\ step \in {"dupr", "closer"})

ChildInv ==
    /\ \A i \in Children :
          /\ ~ Started(i) \/ (step = "wait" /\ i < frag) => child[i] = "none"
          /\ child[i] \notin Live => V[i] = S!NoneRow
          /\ child[i] \in Live /\ i = Len(line) => V[i][1] = Term
          /\ child[i] = "report" => line[i] = "count"
          /\ child[i] = "run" /\ line[i] = "count" => held[i] = 0

\* Bytes that fragment i has written, and read.
Put(i) == IF ~ Started(i) THEN 0
          ELSE IF line[i] = "echo" THEN EchoBytes - held[i]
          ELSE IF line[i] = "copy" THEN got[i] - held[i]
          ELSE IF child[i] = "run" THEN 0 ELSE 1 - held[i]
Taken(i) == IF Started(i) THEN got[i] ELSE 0

\* Fragments that have not ended yet, though they may have to be started.
Open(i) == ~ Started(i) \/ child[i] \in Live
Upstream(i) == Open(i - 1)

\* Fragments with a pipe from the one before them, which one of the two, or
\* the shell for them, still has an end of.
Fed(i) ==
    /\ step \in {"pipe", "wait"} \cup Piping
    /\ i \in 2 .. Len(line)
    /\ \/ ~ Started(i) /\ i <= frag + (IF step = "pipe" THEN 0 ELSE 1)
       \/ Started(i) /\ (child[i] \in Live \/ child[i - 1] \in Live)

\* Who has the read end of the pipe into fragment i, and the write end of the
\* one out of it.
Source(i) == IF Started(i) THEN V[i][0]
             ELSE IF i = frag \/ step = "closer" THEN V[Shell][0] ELSE V[Shell][4]
Sink(i) == IF Started(i) THEN V[i][1]
           ELSE IF step = "dupw" THEN V[Shell][5] ELSE V[Shell][1]

\* Pipe k leads from fragment i - 1 to fragment i; if that reads at all, the
\* pipe holds what is between.
Leads(i, k) ==
    /\ Open(i) => Source(i) = S!Reader(k)
    /\ Upstream(i) => Sink(i - 1) = S!Writer(k)
    /\ line[i] \in Filters => content[k] + Taken(i) = Put(i - 1)

\* No pipe leads to two fragments: K tells which one is whose.
Linked(K) ==
    /\ K \in [Children -> S!Pipes]
    /\ \A i \in Children : Fed(i) => Leads(i, K[i])
    /\ \A i, j \in Children : Fed(i) /\ Fed(j) /\ i # j => K[i] # K[j]

LinkInv == \E K : Linked(K)

\* What a fragment that reads gets in the end, and the fragments that have.
Due(i) == OutputOf(line, i - 1)

DoneInv ==
    \A i \in Children :
        i <= Len(line) /\ Started(i) /\ child[i] # "run" =>
            /\ child[i] \notin Live => held[i] = 0
            /\ i > 1 /\ line[i] \in Filters => child[i - 1] \notin Live /\ got[i] = Due(i)

PipelineIInv == LineTypes /\ RowInv /\ ChildInv /\ LinkInv /\ DoneInv

-----------------------------------------------------------------------------
(* The two instances of Streams, F of Pipeline and S, are the same.        *)

\* Constants and streams.
LEMMA SameData ==
    /\ F!NULL = S!NULL /\ F!Fids = S!Fids /\ F!Pipes = S!Pipes /\ F!FCBs = S!FCBs
    /\ F!NullDevice = S!NullDevice /\ F!EmptyTable = S!EmptyTable
    /\ \A n : F!Terminal(n) = S!Terminal(n)
    /\ \A k : F!Reader(k) = S!Reader(k) /\ F!Writer(k) = S!Writer(k)
    /\ \A o : F!FreePipes(o) = S!FreePipes(o)
  BY DEF F!NULL, S!NULL, F!Fids, S!Fids, F!Pipes, S!Pipes, F!FCBs, S!FCBs,
         F!NullDevice, S!NullDevice, F!EmptyTable, S!EmptyTable,
         F!Terminal, S!Terminal, F!Reader, S!Reader, F!Writer, S!Writer,
         F!FreePipes, S!FreePipes

\* FCB_reserve()'s search for descriptors.
LEMMA SameDescriptors ==
    \A o, p, num : /\ F!FreeFids(o, p) = S!FreeFids(o, p)
                   /\ F!LowestFids(o, p, num) = S!LowestFids(o, p, num)
                   /\ F!CanReserve(o, p, num) = S!CanReserve(o, p, num)
  BY DEF F!FreeFids, S!FreeFids, F!LowestFids, S!LowestFids, F!CanReserve, S!CanReserve,
         F!Cardinality, S!Cardinality, F!IsFiniteSet, S!IsFiniteSet,
         F!NULL, S!NULL, F!Fids, S!Fids

\* FCB_reserve(), for one descriptor or more.
LEMMA SameReserve ==
    \A o, p, num : /\ F!FCB_reserve(o, p, num) = S!FCB_reserve(o, p, num)
                   /\ F!FCB_reserve_fails(o, p, num) = S!FCB_reserve_fails(o, p, num)
  BY DEF F!FCB_reserve, S!FCB_reserve, F!FCB_reserve_fails, S!FCB_reserve_fails,
         F!Acquired, S!Acquired, F!ToSet, S!ToSet, F!Reverse, S!Reverse,
         F!LowestFids, S!LowestFids, F!FreeFids, S!FreeFids,
         F!Cardinality, S!Cardinality, F!IsFiniteSet, S!IsFiniteSet,
         F!NULL, S!NULL, F!Fids, S!Fids, F!FCBs, S!FCBs

\* OpenNull(), OpenTerminal() and Pipe().
LEMMA SameOpens ==
    /\ \A o, p : F!sys_OpenNull(o, p) = S!sys_OpenNull(o, p)
    /\ \A o, p, n : F!sys_OpenTerminal(o, p, n) = S!sys_OpenTerminal(o, p, n)
    /\ \A o, p, k : F!sys_Pipe(o, p, k) = S!sys_Pipe(o, p, k)
<1>1. ASSUME NEW o, NEW p, NEW s, NEW found
      PROVE  F!open_stream(o, p, s, found) = S!open_stream(o, p, s, found)
  <2>1. /\ F!FCB_reserve(o, p, 1) = S!FCB_reserve(o, p, 1)
        /\ F!FCB_reserve_fails(o, p, 1) = S!FCB_reserve_fails(o, p, 1)
        /\ F!LowestFids(o, p, 1) = S!LowestFids(o, p, 1)
        /\ F!CanReserve(o, p, 1) = S!CanReserve(o, p, 1)
        /\ F!NULL = S!NULL
    BY SameData, SameDescriptors, SameReserve
  <2> QED  BY <2>1 DEF F!open_stream, S!open_stream, F!FCB_unreserve, S!FCB_unreserve
<1>2. ASSUME NEW o, NEW p, NEW k PROVE F!sys_Pipe(o, p, k) = S!sys_Pipe(o, p, k)
  <2>1. /\ F!FCB_reserve(o, p, 2) = S!FCB_reserve(o, p, 2)
        /\ F!FCB_reserve_fails(o, p, 2) = S!FCB_reserve_fails(o, p, 2)
        /\ F!LowestFids(o, p, 2) = S!LowestFids(o, p, 2)
        /\ F!CanReserve(o, p, 2) = S!CanReserve(o, p, 2)
        /\ F!Reader(k) = S!Reader(k) /\ F!Writer(k) = S!Writer(k)
    BY SameData, SameDescriptors, SameReserve
  <2> QED  BY <2>1 DEF F!sys_Pipe, S!sys_Pipe
<1> QED  BY <1>1, <1>2, SameData
         DEF F!sys_OpenNull, S!sys_OpenNull, F!sys_OpenTerminal, S!sys_OpenTerminal

\* Close() and Dup2().
LEMMA SameCloses ==
    /\ \A o, p, f : F!sys_Close(o, p, f) = S!sys_Close(o, p, f)
    /\ \A o, p, f, g : F!sys_Dup2(o, p, f, g) = S!sys_Dup2(o, p, f, g)
  BY SameData DEF F!sys_Close, S!sys_Close, F!sys_Dup2, S!sys_Dup2,
         F!FCB_decref, S!FCB_decref, F!FCB_incref, S!FCB_incref

\* Exec(), which hands the descriptors on, and Exit(), which closes them.
LEMMA SameProcesses ==
    /\ \A o, p, q : F!Inherit(o, p, q) = S!Inherit(o, p, q)
    /\ \A o, p : F!ExitFids(o, p) = S!ExitFids(o, p)
  BY DEF F!Inherit, S!Inherit, F!ExitFids, S!ExitFids,
         F!Cardinality, S!Cardinality, F!IsFiniteSet, S!IsFiniteSet,
         F!NULL, S!NULL, F!Fids, S!Fids, F!FCBs, S!FCBs, F!NullDevice, S!NullDevice

\* The property ShellRestored names.
LEMMA SameFilesSound == S!FilesSound => F!FilesSound
  BY DEF F!FilesSound, S!FilesSound, F!References, S!References, F!ToSet, S!ToSet,
         F!Cardinality, S!Cardinality, F!IsFiniteSet, S!IsFiniteSet,
         F!FCBs, S!FCBs, F!Fids, S!Fids, F!Pipes, S!Pipes,
         F!Reader, S!Reader, F!Writer, S!Writer

-----------------------------------------------------------------------------
(* The system calls of the shell and the programs.                         *)

\* The constants are as Streams wants them; devices are no ends of pipes.
LEMMA FilesConstants ==
    /\ S!StreamsAssumption /\ MaxFrags \in Nat \ {0} /\ PipelineBuffer \in Nat \ {0}
    /\ MaxLines \in Nat /\ EchoBytes \in Nat
    /\ S!Fids = 0 .. 5 /\ Idle = [p \in {Shell} \cup Children |-> S!NULL]
    /\ S!NullDevice # S!None /\ Term # S!None
    /\ S!NullDevice \in S!StreamSet /\ Term \in S!StreamSet
    /\ S!NullDevice \notin S!Ends /\ Term \notin S!Ends
<1>1. MaxFrags \in Nat \ {0} /\ PipelineBuffer \in Nat \ {0} /\ MaxLines \in Nat /\ EchoBytes \in Nat
  BY PipelineAssumption
<1>2. S!IsFiniteSet({Shell} \cup Children)
  <2>1. IsFiniteSet(0 .. MaxFrags)
    BY <1>1, FS_Interval
  <2>2. {Shell} \cup Children = 0 .. MaxFrags
    BY <1>1 DEF Shell, Children
  <2> QED  BY <2>1, <2>2 DEF IsFiniteSet, S!IsFiniteSet
<1>3. S!StreamsAssumption
  BY <1>1, <1>2 DEF S!StreamsAssumption
<1>4. S!Fids = 0 .. 5 /\ Idle = [p \in {Shell} \cup Children |-> S!NULL]
  BY DEF S!Fids, Idle, S!NULL
<1>5. /\ S!NullDevice \in S!StreamSet /\ Term \in S!StreamSet
      /\ S!NullDevice \notin S!Ends /\ Term \notin S!Ends
  BY <1>3, S!StreamKinds DEF Term
<1>6. S!NullDevice # S!None /\ Term # S!None
  BY DEF S!NullDevice, S!None, Term, S!Terminal
<1> QED  BY <1>1, <1>3, <1>4, <1>5, <1>6

\* The streams of a sound table, and after a descriptor or a row changes.
LEMMA ViewFields ==
    ASSUME NEW o, S!Sound(o, Idle)
    PROVE  /\ S!View(o) \in S!ViewTables
           /\ \A p \in {Shell} \cup Children, f \in 0 .. 5 :
                 /\ S!View(o)[p][f] = S!None <=> o.FIDT[p][f] = S!NULL
                 /\ o.FIDT[p][f] # S!NULL => S!View(o)[p][f] = o.stream[o.FIDT[p][f]]
<1>1. o \in S!TableRecord
  BY DEF S!Sound
<1> QED  BY <1>1, FilesConstants, S!ViewTable

\* A table of streams with one descriptor changed.
LEMMA EnterFields ==
    ASSUME NEW W \in S!ViewTables, NEW p \in {Shell} \cup Children, NEW f \in 0 .. 5, NEW x
    PROVE  \A q \in {Shell} \cup Children, g \in 0 .. 5 :
              S!Enter(W, p, f, x)[q][g] = IF q = p /\ g = f THEN x ELSE W[q][g]
  BY FilesConstants DEF S!Enter, S!ViewTables

\* OpenNull(): the lowest free descriptor leads to the null device.
LEMMA OpenNullCall ==
    ASSUME NEW o, S!Sound(o, Idle), NEW W, W = S!View(o), F!CanReserve(o, Shell, 1),
           NEW f, f = F!LowestFids(o, Shell, 1)[1],
           NEW n, n = F!sys_OpenNull(o, Shell)
    PROVE  /\ f \in 0 .. 5 /\ W[Shell][f] = S!None
           /\ \A g \in 0 .. 5 : g < f => W[Shell][g] # S!None
           /\ S!Sound(n, Idle) /\ S!View(n) = S!Enter(W, Shell, f, S!NullDevice)
<1>1. /\ S!CanReserve(o, Shell, 1) /\ f = S!LowestFids(o, Shell, 1)[1]
      /\ n = S!sys_OpenNull(o, Shell)
  BY SameDescriptors, SameOpens
<1>2. S!OpenedAt(o, Idle, Shell, f, S!NullDevice, n)
  BY <1>1, FilesConstants, S!OpenView
<1> QED  BY <1>2, FilesConstants, ViewFields DEF S!OpenedAt

\* boot_shell()
LEMMA ShellTableView ==
    /\ S!Sound(ShellTable, Idle)
    /\ \A p \in {Shell} \cup Children, f \in 0 .. 5 :
          S!View(ShellTable)[p][f] = IF p = Shell /\ f \in {0, 1} THEN Term ELSE S!None
<1>1. PICK m : m = S!sys_OpenTerminal(S!EmptyTable, Shell, 0)
  OBVIOUS
<1>2. PICK n : n = S!sys_OpenTerminal(m, Shell, 0)
  OBVIOUS
<1>3. ShellTable = n
  BY <1>1, <1>2, SameData, SameOpens DEF ShellTable
<1>4. 2 * MaxFrags + 1 > 1 /\ 6 > 1 /\ 1 > 0
  BY FilesConstants
<1>5. /\ S!Sound(n, Idle)
      /\ \A p \in {Shell} \cup Children, f \in S!Fids :
            S!View(n)[p][f] = IF p = Shell /\ f \in {0, 1} THEN S!Terminal(0) ELSE S!None
  <2>1. Shell \in {Shell} \cup Children
    OBVIOUS
  <2> QED  BY ONLY <1>1, <1>2, <1>4, <2>1, FilesConstants, S!BootView
<1> QED  BY <1>3, <1>5, FilesConstants DEF Term

\* Pipe(): the two lowest free descriptors lead to the ends of a free pipe.
LEMMA PipeCall ==
    ASSUME NEW o, S!Sound(o, Idle), NEW W, W = S!View(o), F!CanReserve(o, Shell, 2),
           NEW k \in F!FreePipes(o), NEW L, L = F!LowestFids(o, Shell, 2),
           NEW n, n = F!sys_Pipe(o, Shell, k)
    PROVE  /\ L[1] \in 0 .. 5 /\ L[2] \in 0 .. 5 /\ L[1] < L[2]
           /\ W[Shell][L[1]] = S!None /\ W[Shell][L[2]] = S!None
           /\ \A g \in 0 .. 5 : g < L[2] /\ g # L[1] => W[Shell][g] # S!None
           /\ S!Sound(n, Idle)
           /\ S!View(n) = S!Enter(S!Enter(W, Shell, L[1], S!Reader(k)),
                                  Shell, L[2], S!Writer(k))
<1>1. /\ S!CanReserve(o, Shell, 2) /\ L = S!LowestFids(o, Shell, 2)
      /\ n = S!sys_Pipe(o, Shell, k) /\ k \in S!FreePipes(o)
  BY SameData, SameDescriptors, SameOpens
<1>2. /\ L[1] \in S!Fids /\ L[2] \in S!Fids /\ L[1] < L[2]
      /\ o.FIDT[Shell][L[1]] = S!NULL /\ o.FIDT[Shell][L[2]] = S!NULL
      /\ \A g \in S!Fids : g < L[2] /\ g # L[1] => o.FIDT[Shell][g] # S!NULL
      /\ S!Sound(n, Idle)
      /\ S!View(n) = S!Enter(S!Enter(W, Shell, L[1], S!Reader(k)),
                             Shell, L[2], S!Writer(k))
  BY <1>1, FilesConstants, S!PipeView
<1> QED  BY <1>2, FilesConstants, ViewFields

\* Close() of an open descriptor.
LEMMA CloseCall ==
    ASSUME NEW o, S!Sound(o, Idle), NEW W, W = S!View(o), NEW f \in 0 .. 5,
           W[Shell][f] # S!None, NEW n, n = F!sys_Close(o, Shell, f)
    PROVE  S!Sound(n, Idle) /\ S!View(n) = S!Enter(W, Shell, f, S!None)
<1>1. n = S!sys_Close(o, Shell, f) /\ o.FIDT[Shell][f] # S!NULL
  BY SameCloses, ViewFields
<1> QED  BY <1>1, FilesConstants, S!CloseView

\* Dup2() of an open descriptor.
LEMMA DupCall ==
    ASSUME NEW o, S!Sound(o, Idle), NEW W, W = S!View(o), NEW f \in 0 .. 5, NEW g \in 0 .. 5,
           W[Shell][f] # S!None, NEW n, n = F!sys_Dup2(o, Shell, f, g)
    PROVE  S!Sound(n, Idle) /\ S!View(n) = S!Enter(W, Shell, g, W[Shell][f])
<1>1. n = S!sys_Dup2(o, Shell, f, g) /\ o.FIDT[Shell][f] # S!NULL
  BY SameCloses, ViewFields
<1> QED  BY <1>1, FilesConstants, S!DupView

\* Exec() of a process that has no descriptors yet.
LEMMA InheritCall ==
    ASSUME NEW o, S!Sound(o, Idle), NEW W, W = S!View(o), NEW i \in Children,
           W[i] = S!NoneRow, NEW n, n = F!Inherit(o, Shell, i)
    PROVE  S!Sound(n, Idle) /\ S!View(n) = S!With(W, i, W[Shell])
<1>1. n = S!Inherit(o, Shell, i) /\ \A f \in S!Fids : o.FIDT[i][f] = S!NULL
  BY SameProcesses, ViewFields, FilesConstants DEF S!NoneRow
<1> QED  BY <1>1, FilesConstants, S!InheritView

\* Exit() leaves the process no descriptors.
LEMMA ExitCall ==
    ASSUME NEW o, S!Sound(o, Idle), NEW W, W = S!View(o), NEW i \in Children,
           NEW n, n = F!ExitFids(o, i)
    PROVE  S!Sound(n, Idle) /\ S!View(n) = S!With(W, i, S!NoneRow)
<1>1. n = S!ExitFids(o, i)
  BY SameProcesses
<1> QED  BY <1>1, FilesConstants, S!ExitView

-----------------------------------------------------------------------------
(* What the invariant says of lines, processes and descriptors.            *)

\* The processes and their rows of streams.
LEMMA ProcessRows ==
    /\ Children = 1 .. MaxFrags /\ Shell = 0 /\ Shell \notin Children
    /\ \A f \in 0 .. 5 : S!NoneRow[f] = S!None
    /\ S!Pipes = 1 .. MaxFrags
  BY FilesConstants DEF Children, Shell, S!NoneRow, S!Pipes

\* A line has a program for each of its fragments; the first one only writes.
LEMMA LineFields ==
    ASSUME NEW l \in Lines
    PROVE  /\ Len(l) \in Children /\ Len(l) \in Nat \ {0} /\ l # <<>>
           /\ \A i \in 1 .. Len(l) : l[i] \in {"echo", "copy", "count"}
           /\ l[1] = "echo"
<1>1. PICK n \in 1 .. MaxFrags : l \in [1 .. n -> Programs]
  BY DEF Lines
<1>2. l[1] \notin Filters
  BY DEF Lines
<1>3. l \in Seq(Programs) /\ Len(l) = n /\ DOMAIN l = 1 .. n /\ n \in Nat
  BY <1>1, FilesConstants
<1>4. n \in Children /\ n # 0
  BY ProcessRows, FilesConstants
<1>5. \A i \in 1 .. n : l[i] \in Programs
  BY <1>1
<1>6. l # <<>> /\ 1 \in 1 .. n
  BY <1>3, <1>4
<1> QED  BY <1>2, <1>3, <1>4, <1>5, <1>6 DEF Programs, Filters

\* What a fragment writes, from what the one before it does.
LEMMA OutputFields ==
    ASSUME NEW l \in Lines, NEW i \in 1 .. Len(l)
    PROVE  /\ l[i] = "echo" => OutputOf(l, i) = EchoBytes
           /\ l[i] = "count" => OutputOf(l, i) = 1
           /\ l[i] = "copy" => i > 1 /\ OutputOf(l, i) = OutputOf(l, i - 1)
<1>1. i \in Nat \ {0} /\ l[1] = "echo" /\ Len(l) \in Nat
  BY LineFields
<1>2. ASSUME l[i] # "copy" PROVE (CHOOSE j \in Sources(l, i) : TRUE) = i
  <2>1. Sources(l, i) = {i}
    <3>1. ASSUME NEW j \in Sources(l, i) PROVE j = i
      <4>1. j \in 1 .. i /\ \A k \in j + 1 .. i : l[k] = "copy"
        BY <3>1 DEF Sources
      <4>2. j < i => i \in j + 1 .. i
        BY <1>1, <4>1
      <4> QED  BY <1>1, <1>2, <4>1, <4>2
    <3>2. i \in Sources(l, i)
      BY <1>1, <1>2 DEF Sources
    <3> QED  BY <3>1, <3>2
  <2> QED  BY <2>1
<1>3. ASSUME l[i] = "copy" PROVE Sources(l, i) = Sources(l, i - 1)
  <2>1. ASSUME NEW j \in Sources(l, i) PROVE j \in Sources(l, i - 1)
    BY <1>1, <1>3, <2>1 DEF Sources
  <2>2. ASSUME NEW j \in Sources(l, i - 1) PROVE j \in Sources(l, i)
    <3>1. j \in 1 .. i - 1 /\ l[j] # "copy" /\ \A k \in j + 1 .. i - 1 : l[k] = "copy"
      BY <2>2 DEF Sources
    <3>2. ASSUME NEW k \in j + 1 .. i PROVE l[k] = "copy"
      <4>1. CASE k = i
        BY <1>3, <4>1
      <4>2. CASE k # i
        BY <1>1, <3>1, <3>2, <4>2
      <4> QED  BY <4>1, <4>2
    <3>3. j \in 1 .. i
      BY <1>1, <3>1
    <3> QED  BY <3>1, <3>2, <3>3 DEF Sources
  <2> QED  BY <2>1, <2>2
<1>4. l[i] = "copy" => i > 1
  BY <1>1
<1> QED  BY <1>2, <1>3, <1>4 DEF OutputOf

\* The types in a state.
LEMMA LineTyped ==
    ASSUME LineTypes
    PROVE  /\ V \in S!ViewTables
           /\ \A p \in {Shell} \cup Children : V[p] \in [0 .. 5 -> S!StreamSet \cup {S!None}]
           /\ \A i \in Children : /\ held[i] \in Nat /\ got[i] \in Nat
                                  /\ child[i] \in {"none", "exited"} \cup Live
           /\ \A k \in S!Pipes : content[k] \in Nat
           /\ frag \in Nat \ {0}
           /\ step # "prompt" => /\ line \in Lines /\ frag <= Len(line)
                                 /\ frag \in Children
<1>1. V \in S!ViewTables
  BY ViewFields DEF LineTypes, V
<1>2. \A p \in {Shell} \cup Children : V[p] \in [0 .. 5 -> S!StreamSet \cup {S!None}]
  BY <1>1, FilesConstants DEF S!ViewTables
<1>3. ASSUME step # "prompt"
      PROVE  line \in Lines /\ frag <= Len(line) /\ frag \in Children
  <2>1. line \in Lines /\ frag <= Len(line) /\ frag \in Nat \ {0}
    BY <1>3 DEF LineTypes
  <2>2. Len(line) \in 1 .. MaxFrags
    BY <2>1, LineFields, ProcessRows
  <2> QED  BY <2>1, <2>2, ProcessRows, FilesConstants
<1> QED  BY <1>1, <1>2, <1>3 DEF LineTypes

\* A descriptor that leads somewhere.
LEMMA StreamOfView ==
    ASSUME LineTypes, NEW p \in {Shell} \cup Children, NEW f \in 0 .. 5, V[p][f] # S!None
    PROVE  StreamOf(p, f) = V[p][f]
  BY ViewFields DEF LineTypes, V, StreamOf

\* The ends of a pipe that are open.
LEMMA OpenEnds ==
    ASSUME LineTypes, NEW k \in S!Pipes
    PROVE  /\ HasReader(k) <=> \E p \in {Shell} \cup Children, f \in 0 .. 5 :
                                  V[p][f] = S!Reader(k)
           /\ HasWriter(k) <=> \E p \in {Shell} \cup Children, f \in 0 .. 5 :
                                  V[p][f] = S!Writer(k)
           /\ k \in F!FreePipes(table) =>
                 \A p \in {Shell} \cup Children, f \in 0 .. 5 :
                    V[p][f] # S!Reader(k) /\ V[p][f] # S!Writer(k)
<1>1. S!Reader(k) \in S!Ends /\ S!Writer(k) \in S!Ends
  BY FilesConstants, S!StreamKinds
<1>2. \A p \in {Shell} \cup Children : Idle[p] = S!NULL
  BY DEF Idle, S!NULL
<1>3. \A e \in S!Ends : e \in table.ends <=>
         \E p \in {Shell} \cup Children, f \in 0 .. 5 : V[p][f] = e
  <2>1. S!Sound(table, Idle) /\ S!StreamsAssumption /\ S!Fids = 0 .. 5
    BY FilesConstants DEF LineTypes
  <2>2. ASSUME NEW e \in S!Ends
        PROVE  e \in table.ends <=>
                  \E p \in {Shell} \cup Children, f \in S!Fids : S!View(table)[p][f] = e
    BY ONLY <1>2, <2>1, <2>2, S!EndsView
  <2> QED  BY <2>1, <2>2 DEF V
<1>4. /\ HasReader(k) <=> S!Reader(k) \in table.ends
      /\ HasWriter(k) <=> S!Writer(k) \in table.ends
  BY SameData DEF HasReader, HasWriter
<1>5. k \in F!FreePipes(table) => S!Reader(k) \notin table.ends /\ S!Writer(k) \notin table.ends
  BY SameData DEF S!FreePipes
<1> QED  BY <1>1, <1>3, <1>4, <1>5

\* A pipe end tells its pipe and its direction.
LEMMA EndFields ==
    /\ \A k : S!Reader(k)[1] = "reader" /\ S!Reader(k)[2] = k
    /\ \A k : S!Writer(k)[1] = "writer" /\ S!Writer(k)[2] = k
    /\ \A k, l : S!Reader(k) = S!Reader(l) => k = l
    /\ \A k, l : S!Writer(k) = S!Writer(l) => k = l
    /\ \A k : /\ S!Reader(k) # S!None /\ S!Writer(k) # S!None
              /\ S!Reader(k) # Term /\ S!Writer(k) # Term
    /\ \A k, l : S!Reader(k) # S!Writer(l)
  BY DEF S!Reader, S!Writer, S!None, Term, S!Terminal

-----------------------------------------------------------------------------
(* The shell sets its redirections up.                                     *)

\* One descriptor of the shell leads to x, and all others to what they did.
ShellSets(f, x) ==
    /\ \A g \in 0 .. 5 : V'[Shell][g] = IF g = f THEN x ELSE V[Shell][g]
    /\ \A i \in Children : V'[i] = V[i]

\* A call of the shell that changes one of its descriptors.
LEMMA SetsRow ==
    ASSUME LineTypes, NEW f \in 0 .. 5, NEW x, S!View(table') = S!Enter(V, Shell, f, x)
    PROVE  ShellSets(f, x)
<1>1. V \in S!ViewTables /\ V' = S!Enter(V, Shell, f, x)
  BY LineTyped DEF V
<1>2. \A g \in 0 .. 5 : V'[Shell][g] = IF g = f THEN x ELSE V[Shell][g]
  BY <1>1, EnterFields
<1>3. \A i \in Children : V'[i] = V[i]
  BY <1>1, ProcessRows DEF S!Enter, S!ViewTables
<1> QED  BY <1>2, <1>3 DEF ShellSets

\* There is a pipe for each fragment.
LEMMA SomeLinks == \E K : K \in [Children -> S!Pipes]
<1>1. [i \in Children |-> i] \in [Children -> S!Pipes]
  BY ProcessRows
<1> QED  BY <1>1

\* Before the first process there is nothing to say of the programs.
LEMMA StillNothing ==
    ASSUME PipelineIInv, step \in Saving, LineTypes', frag' = 1, step' \in Saving \cup {"pipe"},
           child' = child, \A i \in Children : V'[i] = V[i]
    PROVE  ChildInv' /\ LinkInv' /\ DoneInv'
<1>1. frag = 1 /\ LineTypes /\ ChildInv
  BY DEF PipelineIInv, LineTypes
<1>2. \A i \in Children : ~ Started(i)
  BY <1>1, ProcessRows DEF Started, Saving
<1>3. LinkInv' /\ DoneInv'
  <2>1. \A i \in Children : ~ Started(i)'
    BY ProcessRows DEF Started, Saving
  <2>2. \A i \in Children : ~ Fed(i)'
    BY <2>1, ProcessRows DEF Fed, Saving, Piping
  <2>3. PICK K : K \in [Children -> S!Pipes]
    BY SomeLinks
  <2>4. Linked(K)'
    BY <2>2, <2>3 DEF Linked
  <2> QED  BY <2>1, <2>4 DEF LinkInv, DoneInv
<1>4. \A i \in Children : child[i] = "none" /\ V[i] = S!NoneRow
  BY <1>1, <1>2 DEF ChildInv, Live
<1>5. \A i \in Children : child'[i] = "none" /\ V'[i] = S!NoneRow
  BY <1>4
<1>6. ChildInv'
  BY <1>5 DEF ChildInv, Live
<1> QED  BY <1>3, <1>6

\* Shell() reads a line.
LEMMA ReadLineKeeps ==
    ASSUME PipelineIInv, ReadLine
    PROVE  PipelineIInv'
<1>1. LineTypes /\ RowInv /\ frag = 1 /\ V' = V
  BY DEF PipelineIInv, LineTypes, ReadLine, Saving, V
<1>2. /\ step = "prompt" /\ frag' = 1 /\ child' = child /\ step' \in {"prompt", "save"}
      /\ step' = "save" => line' \in Lines
      /\ step' = "prompt" => line' = line
      /\ <<savein, saveout, piperead, pipewrite>>' = <<savein, saveout, piperead, pipewrite>>
  BY <1>1 DEF ReadLine, childVars
<1>3. LineTypes'
  <2>1. step' = "save" => 1 <= Len(line')
    <3>1. ASSUME line' \in Lines PROVE 1 <= Len(line')
      BY <3>1, LineFields
    <3> QED  BY <1>2, <3>1
  <2> QED  BY <1>1, <1>2, <2>1 DEF LineTypes, ReadLine, childVars, Saving
<1>4. RowInv'
  BY <1>1, <1>2 DEF RowInv, Saving, Piping
<1>5. ChildInv' /\ LinkInv' /\ DoneInv'
  BY <1>1, <1>2, <1>3, StillNothing DEF Saving
<1> QED  BY <1>3, <1>4, <1>5 DEF PipelineIInv

\* savefid(0)
LEMMA SaveInOpenKeeps ==
    ASSUME PipelineIInv, SaveInOpen
    PROVE  PipelineIInv'
<1>1. LineTypes /\ RowInv /\ S!Sound(table, Idle) /\ frag = 1
  BY DEF PipelineIInv, LineTypes, SaveInOpen, Saving
<1>2. /\ step = "save" /\ frag' = 1 /\ child' = child /\ step' = "save_dup"
      /\ <<saveout, piperead, pipewrite>>' = <<saveout, piperead, pipewrite>>
  BY <1>1 DEF SaveInOpen, childVars
<1>3. /\ savein' \in 0 .. 5 /\ V[Shell][savein'] = S!None
      /\ \A g \in 0 .. 5 : g < savein' => V[Shell][g] # S!None
      /\ S!Sound(table', Idle) /\ S!View(table') = S!Enter(V, Shell, savein', S!NullDevice)
  BY <1>1, OpenNullCall DEF SaveInOpen, V
<1>4. savein' = 2
  BY <1>1, <1>2, <1>3 DEF RowInv, Saving, Piping
<1>5. ShellSets(2, S!NullDevice)
  BY <1>1, <1>3, <1>4, SetsRow
<1>6. LineTypes'
  BY <1>1, <1>2, <1>3 DEF LineTypes, SaveInOpen, childVars, Saving
<1>7. RowInv'
  BY <1>1, <1>2, <1>4, <1>5, FilesConstants DEF RowInv, Saving, Piping, ShellSets
<1>8. ChildInv' /\ LinkInv' /\ DoneInv'
  BY <1>1, <1>2, <1>5, <1>6, StillNothing DEF Saving, ShellSets
<1> QED  BY <1>6, <1>7, <1>8 DEF PipelineIInv

\* savefid(0), its Dup2().
LEMMA SaveInDupKeeps ==
    ASSUME PipelineIInv, SaveInDup
    PROVE  PipelineIInv'
<1>1. LineTypes /\ RowInv /\ S!Sound(table, Idle) /\ frag = 1
  BY DEF PipelineIInv, LineTypes, SaveInDup, Saving
<1>2. /\ step = "save_dup" /\ frag' = 1 /\ child' = child /\ step' = "save_out"
      /\ savein = 2 /\ savein' = 2
      /\ <<saveout, piperead, pipewrite>>' = <<saveout, piperead, pipewrite>>
  BY <1>1 DEF SaveInDup, childVars, RowInv
<1>3. V[Shell][0] = Term /\ V[Shell][0] # S!None
  BY <1>1, <1>2 DEF RowInv, Saving
<1>4. S!Sound(table', Idle) /\ S!View(table') = S!Enter(V, Shell, 2, V[Shell][0])
  BY <1>1, <1>2, <1>3, DupCall DEF SaveInDup, V
<1>5. ShellSets(2, Term)
  BY <1>1, <1>3, <1>4, SetsRow
<1>6. LineTypes'
  BY <1>1, <1>2, <1>4 DEF LineTypes, SaveInDup, childVars, Saving
<1>7. RowInv'
  BY <1>1, <1>2, <1>5, FilesConstants DEF RowInv, Saving, Piping, ShellSets
<1>8. ChildInv' /\ LinkInv' /\ DoneInv'
  BY <1>1, <1>2, <1>5, <1>6, StillNothing DEF Saving, ShellSets
<1> QED  BY <1>6, <1>7, <1>8 DEF PipelineIInv

\* savefid(1)
LEMMA SaveOutOpenKeeps ==
    ASSUME PipelineIInv, SaveOutOpen
    PROVE  PipelineIInv'
<1>1. LineTypes /\ RowInv /\ S!Sound(table, Idle) /\ frag = 1
  BY DEF PipelineIInv, LineTypes, SaveOutOpen, Saving
<1>2. /\ step = "save_out" /\ frag' = 1 /\ child' = child /\ step' = "save_out_dup"
      /\ savein = 2 /\ savein' = 2
      /\ <<piperead, pipewrite>>' = <<piperead, pipewrite>>
  BY <1>1 DEF SaveOutOpen, childVars, RowInv
<1>3. /\ saveout' \in 0 .. 5 /\ V[Shell][saveout'] = S!None
      /\ \A g \in 0 .. 5 : g < saveout' => V[Shell][g] # S!None
      /\ S!Sound(table', Idle) /\ S!View(table') = S!Enter(V, Shell, saveout', S!NullDevice)
  BY <1>1, OpenNullCall DEF SaveOutOpen, V
<1>4. saveout' = 3
  BY <1>1, <1>2, <1>3, FilesConstants DEF RowInv, Saving, Piping
<1>5. ShellSets(3, S!NullDevice)
  BY <1>1, <1>3, <1>4, SetsRow
<1>6. LineTypes'
  BY <1>1, <1>2, <1>3 DEF LineTypes, SaveOutOpen, childVars, Saving
<1>7. RowInv'
  BY <1>1, <1>2, <1>4, <1>5, FilesConstants DEF RowInv, Saving, Piping, ShellSets
<1>8. ChildInv' /\ LinkInv' /\ DoneInv'
  BY <1>1, <1>2, <1>5, <1>6, StillNothing DEF Saving, ShellSets
<1> QED  BY <1>6, <1>7, <1>8 DEF PipelineIInv

\* savefid(1), its Dup2().
LEMMA SaveOutDupKeeps ==
    ASSUME PipelineIInv, SaveOutDup
    PROVE  PipelineIInv'
<1>1. LineTypes /\ RowInv /\ S!Sound(table, Idle) /\ frag = 1
  BY DEF PipelineIInv, LineTypes, SaveOutDup, Saving
<1>2. /\ step = "save_out_dup" /\ frag' = 1 /\ child' = child /\ step' = "pipe"
      /\ savein = 2 /\ savein' = 2 /\ saveout = 3 /\ saveout' = 3 /\ line' = line
      /\ <<piperead, pipewrite>>' = <<piperead, pipewrite>>
  BY <1>1 DEF SaveOutDup, childVars, RowInv
<1>3. V[Shell][1] = Term /\ V[Shell][1] # S!None
  BY <1>1, <1>2 DEF RowInv, Saving
<1>4. S!Sound(table', Idle) /\ S!View(table') = S!Enter(V, Shell, 3, V[Shell][1])
  BY <1>1, <1>2, <1>3, DupCall DEF SaveOutDup, V
<1>5. ShellSets(3, Term)
  BY <1>1, <1>3, <1>4, SetsRow
<1>6. LineTypes'
  BY <1>1, <1>2, <1>4 DEF LineTypes, SaveOutDup, childVars, Saving
<1>7. RowInv'
  BY <1>1, <1>2, <1>5, FilesConstants DEF RowInv, Saving, Piping, ShellSets
<1>8. ChildInv' /\ LinkInv' /\ DoneInv'
  BY <1>1, <1>2, <1>5, <1>6, StillNothing DEF Saving, ShellSets
<1> QED  BY <1>6, <1>7, <1>8 DEF PipelineIInv

-----------------------------------------------------------------------------
(* The shell starts the programs of a line.                                *)

\* Whether the program before fragment i may still write.
\* A step that moves no bytes and leaves the ends of the pipes where they are
\* or hands them on.
LEMMA LinkStays ==
    ASSUME LinkInv, content' = content,
           \A i \in Children : Fed(i)' =>
               /\ Fed(i) /\ line'[i] = line[i]
               /\ Open(i)' => Open(i) /\ Source(i)' = Source(i)
               /\ Taken(i)' = Taken(i) /\ Put(i - 1)' = Put(i - 1)
               /\ Upstream(i)' => Upstream(i) /\ Sink(i - 1)' = Sink(i - 1)
    PROVE  LinkInv'
<1>1. PICK K : Linked(K)
  BY DEF LinkInv
<1>2. ASSUME NEW i \in Children, Fed(i)' PROVE Leads(i, K[i])'
  <2>1. Leads(i, K[i])
    BY <1>1, <1>2 DEF Linked
  <2>2. /\ Fed(i) /\ line'[i] = line[i]
        /\ Open(i)' => Open(i) /\ Source(i)' = Source(i)
        /\ Taken(i)' = Taken(i) /\ Put(i - 1)' = Put(i - 1)
        /\ Upstream(i)' => Upstream(i) /\ Sink(i - 1)' = Sink(i - 1)
    BY <1>2
  <2> QED  BY <2>1, <2>2 DEF Leads
<1>3. Linked(K)'
  BY <1>1, <1>2 DEF Linked
<1> QED  BY <1>3 DEF LinkInv

\* The same processes, with the same descriptors.
LEMMA ChildrenStay ==
    ASSUME ChildInv, line' = line, child' = child, held' = held,
           \A i \in Children : V'[i] = V[i] /\ (Started(i)' <=> Started(i)),
           step # "wait" /\ step' # "wait"
    PROVE  ChildInv'
<1>1. ASSUME NEW i \in Children
      PROVE  /\ ~ Started(i)' \/ (step' = "wait" /\ i < frag') => child'[i] = "none"
             /\ child'[i] \notin Live => V'[i] = S!NoneRow
             /\ child'[i] \in Live /\ i = Len(line') => V'[i][1] = Term
             /\ child'[i] = "report" => line'[i] = "count"
             /\ child'[i] = "run" /\ line'[i] = "count" => held'[i] = 0
  BY DEF ChildInv
<1> QED  BY <1>1 DEF ChildInv

\* They have done the same.
LEMMA DoneStays ==
    ASSUME DoneInv, line' = line, child' = child, held' = held, got' = got,
           \A i \in Children : i <= Len(line) => (Started(i)' <=> Started(i))
    PROVE  DoneInv'
<1>1. \A i \in Children : Due(i)' = Due(i)
  BY DEF Due
<1> QED  BY <1>1 DEF DoneInv

\* A line that is being processed, in the middle of it.
LEMMA AtLine ==
    ASSUME PipelineIInv, step \in {"pipe", "wait"} \cup Piping
    PROVE  /\ LineTypes /\ RowInv /\ ChildInv /\ LinkInv /\ DoneInv /\ S!Sound(table, Idle)
           /\ frag \in Nat \ {0} /\ frag \in Children /\ Len(line) \in Nat /\ Len(line) \in Children
           /\ frag <= Len(line) /\ line \in Lines
           /\ \A i \in Children : i \in Nat \ {0} /\ (i > 1 => i - 1 \in Children)
<1>1. LineTypes /\ step # "prompt"
  BY DEF PipelineIInv, Piping
<1>2. \A i \in Children : i \in Nat \ {0} /\ (i > 1 => i - 1 \in Children)
  BY ProcessRows, FilesConstants
<1>3. frag \in Nat \ {0} /\ frag \in Children /\ frag <= Len(line) /\ line \in Lines
  BY <1>1, LineTyped
<1> QED  BY <1>1, <1>2, <1>3, LineFields DEF PipelineIInv, LineTypes

\* The loop of process_line(): Dup2() to descriptor 1.
LEMMA DupOutKeeps ==
    ASSUME PipelineIInv, DupOut
    PROVE  PipelineIInv'
<1>1. /\ step = "dupw" /\ step' = "closew"
      /\ <<line, frag, savein, saveout, piperead, pipewrite>>'
            = <<line, frag, savein, saveout, piperead, pipewrite>>
      /\ child' = child /\ held' = held /\ got' = got /\ content' = content
      /\ LastFrag' <=> LastFrag
  BY DEF DupOut, childVars, LastFrag
<1>2. /\ LineTypes /\ RowInv /\ ChildInv /\ LinkInv /\ DoneInv /\ S!Sound(table, Idle)
      /\ frag \in Nat \ {0} /\ Len(line) \in Nat /\ frag <= Len(line) /\ line \in Lines
      /\ \A i \in Children : i \in Nat \ {0}
  BY <1>1, AtLine DEF Piping
<1>3. PICK f : f = IF LastFrag THEN 3 ELSE 5
  OBVIOUS
<1>4. /\ f \in 0 .. 5 /\ f = (IF LastFrag THEN saveout ELSE pipewrite)
      /\ V[Shell][f] # S!None /\ (LastFrag => V[Shell][f] = Term)
  <2>1. CASE LastFrag
    BY <1>1, <1>2, <1>3, <2>1, FilesConstants DEF RowInv, Piping, Saving
  <2>2. CASE ~ LastFrag
    BY <1>1, <1>2, <1>3, <2>2 DEF RowInv, Piping
  <2> QED  BY <2>1, <2>2
<1>5. S!Sound(table', Idle) /\ S!View(table') = S!Enter(V, Shell, 1, V[Shell][f])
  BY <1>2, <1>4, DupCall DEF DupOut, V
<1>6. ShellSets(1, V[Shell][f])
  BY <1>2, <1>5, SetsRow
<1>7. LineTypes'
  BY <1>1, <1>2, <1>5 DEF LineTypes, DupOut, childVars, Saving, Piping
<1>8. RowInv'
  BY <1>1, <1>2, <1>4, <1>6 DEF RowInv, Saving, Piping, ShellSets
<1>9. \A i \in Nat : Started(i)' <=> Started(i)
  BY <1>1 DEF Started
<1>10. ChildInv' /\ DoneInv'
  BY <1>1, <1>2, <1>6, <1>9, ChildrenStay, DoneStays DEF ShellSets
<1>11. ASSUME NEW i \in Children, Fed(i)'
       PROVE  /\ Fed(i) /\ line'[i] = line[i]
              /\ Open(i)' => Open(i) /\ Source(i)' = Source(i)
              /\ Taken(i)' = Taken(i) /\ Put(i - 1)' = Put(i - 1)
              /\ Upstream(i)' => Upstream(i) /\ Sink(i - 1)' = Sink(i - 1)
  <2>1. i \in 2 .. Len(line) /\ i \in Nat /\ i - 1 \in Nat /\ i - 1 \in Children
    BY <1>1, <1>2, <1>11, AtLine DEF Fed, Piping
  <2>2. /\ Started(i)' <=> Started(i)
        /\ Started(i - 1)' <=> Started(i - 1)
    BY <1>9, <2>1
  <2>3. Fed(i) /\ ~ Started(i) => i <= frag + 1
    BY <1>1, <1>11, <2>2 DEF Fed, Piping
  <2>4. Source(i)' = Source(i)
    BY <1>1, <1>6, <2>2 DEF Source, ShellSets
  <2>5. Taken(i)' = Taken(i) /\ Put(i - 1)' = Put(i - 1)
    BY <1>1, <2>2 DEF Taken, Put
  <2>6. Fed(i) /\ line'[i] = line[i] /\ (Open(i)' <=> Open(i)) /\ (Upstream(i)' <=> Upstream(i))
    BY <1>1, <1>11, <2>2 DEF Fed, Piping, Upstream, Open
  <2>7. ~ Started(i - 1) => ~ LastFrag
    BY <1>1, <1>2, <2>1, <2>3, <2>6 DEF Started, LastFrag
  <2>8. Sink(i - 1)' = Sink(i - 1)
    BY <1>1, <1>3, <1>6, <2>1, <2>2, <2>7 DEF Sink, ShellSets
  <2> QED  BY <2>4, <2>5, <2>6, <2>8
<1>12. LinkInv'
  BY <1>1, <1>2, <1>11, LinkStays
<1> QED  BY <1>7, <1>8, <1>10, <1>12 DEF PipelineIInv

\* Close() of that descriptor.
LEMMA CloseOutKeeps ==
    ASSUME PipelineIInv, CloseOut
    PROVE  PipelineIInv'
<1>1. /\ step = "closew" /\ step' = "exec"
      /\ <<line, frag, savein, saveout, piperead, pipewrite>>'
            = <<line, frag, savein, saveout, piperead, pipewrite>>
      /\ child' = child /\ held' = held /\ got' = got /\ content' = content
      /\ LastFrag' <=> LastFrag
  BY DEF CloseOut, childVars, LastFrag
<1>2. /\ LineTypes /\ RowInv /\ ChildInv /\ LinkInv /\ DoneInv /\ S!Sound(table, Idle)
      /\ frag \in Nat \ {0} /\ Len(line) \in Nat /\ frag <= Len(line) /\ line \in Lines
      /\ \A i \in Children : i \in Nat \ {0}
  BY <1>1, AtLine DEF Piping
<1>3. PICK f : f = IF LastFrag THEN 3 ELSE 5
  OBVIOUS
<1>4. /\ f \in 0 .. 5 /\ f = (IF LastFrag THEN saveout ELSE pipewrite)
      /\ V[Shell][f] # S!None
  <2>1. CASE LastFrag
    BY <1>1, <1>2, <1>3, <2>1, FilesConstants DEF RowInv, Piping, Saving
  <2>2. CASE ~ LastFrag
    BY <1>1, <1>2, <1>3, <2>2 DEF RowInv, Piping
  <2> QED  BY <2>1, <2>2
<1>5. S!Sound(table', Idle) /\ S!View(table') = S!Enter(V, Shell, f, S!None)
  BY <1>2, <1>4, CloseCall DEF CloseOut, V
<1>6. ShellSets(f, S!None)
  BY <1>2, <1>4, <1>5, SetsRow
<1>7. LineTypes'
  BY <1>1, <1>2, <1>5 DEF LineTypes, CloseOut, childVars, Saving, Piping
<1>8. RowInv'
  BY <1>1, <1>2, <1>3, <1>6 DEF RowInv, Saving, Piping, ShellSets
<1>9. \A i \in Nat : Started(i)' <=> Started(i)
  BY <1>1 DEF Started
<1>10. ChildInv' /\ DoneInv'
  BY <1>1, <1>2, <1>6, <1>9, ChildrenStay, DoneStays DEF ShellSets
<1>11. ASSUME NEW i \in Children, Fed(i)'
       PROVE  /\ Fed(i) /\ line'[i] = line[i]
              /\ Open(i)' => Open(i) /\ Source(i)' = Source(i)
              /\ Taken(i)' = Taken(i) /\ Put(i - 1)' = Put(i - 1)
              /\ Upstream(i)' => Upstream(i) /\ Sink(i - 1)' = Sink(i - 1)
  <2>1. i \in 2 .. Len(line) /\ i \in Nat /\ i - 1 \in Nat /\ i - 1 \in Children
    BY <1>1, <1>2, <1>11, AtLine DEF Fed, Piping
  <2>2. /\ Started(i)' <=> Started(i)
        /\ Started(i - 1)' <=> Started(i - 1)
    BY <1>9, <2>1
  <2>3. Source(i)' = Source(i)
    BY <1>1, <1>3, <1>6, <2>2 DEF Source, ShellSets
  <2>4. Taken(i)' = Taken(i) /\ Put(i - 1)' = Put(i - 1)
    BY <1>1, <2>2 DEF Taken, Put
  <2>5. Fed(i) /\ line'[i] = line[i] /\ (Open(i)' <=> Open(i)) /\ (Upstream(i)' <=> Upstream(i))
    BY <1>1, <1>11, <2>2 DEF Fed, Piping, Upstream, Open
  <2>6. Sink(i - 1)' = Sink(i - 1)
    BY <1>1, <1>3, <1>6, <2>1, <2>2 DEF Sink, ShellSets
  <2> QED  BY <2>3, <2>4, <2>5, <2>6
<1>12. LinkInv'
  BY <1>1, <1>2, <1>11, LinkStays
<1> QED  BY <1>7, <1>8, <1>10, <1>12 DEF PipelineIInv

\* Dup2() to descriptor 0.
LEMMA DupInKeeps ==
    ASSUME PipelineIInv, DupIn
    PROVE  PipelineIInv'
<1>1. /\ step = "dupr" /\ step' = "closer"
      /\ <<line, frag, savein, saveout, piperead, pipewrite>>'
            = <<line, frag, savein, saveout, piperead, pipewrite>>
      /\ child' = child /\ held' = held /\ got' = got /\ content' = content
      /\ LastFrag' <=> LastFrag
  BY DEF DupIn, childVars, LastFrag
<1>2. /\ LineTypes /\ RowInv /\ ChildInv /\ LinkInv /\ DoneInv /\ S!Sound(table, Idle)
      /\ frag \in Nat \ {0} /\ Len(line) \in Nat /\ frag <= Len(line) /\ line \in Lines
      /\ \A i \in Children : i \in Nat \ {0}
  BY <1>1, AtLine DEF Piping
<1>3. PICK f : f = IF LastFrag THEN 2 ELSE 4
  OBVIOUS
<1>4. /\ f \in 0 .. 5 /\ f = (IF LastFrag THEN savein ELSE piperead)
      /\ V[Shell][f] # S!None /\ (LastFrag => V[Shell][f] = Term)
  <2>1. CASE LastFrag
    BY <1>1, <1>2, <1>3, <2>1, FilesConstants DEF RowInv, Piping, Saving
  <2>2. CASE ~ LastFrag
    BY <1>1, <1>2, <1>3, <2>2 DEF RowInv, Piping
  <2> QED  BY <2>1, <2>2
<1>5. S!Sound(table', Idle) /\ S!View(table') = S!Enter(V, Shell, 0, V[Shell][f])
  BY <1>2, <1>4, DupCall DEF DupIn, V
<1>6. ShellSets(0, V[Shell][f])
  BY <1>2, <1>5, SetsRow
<1>7. LineTypes'
  BY <1>1, <1>2, <1>5 DEF LineTypes, DupIn, childVars, Saving, Piping
<1>8. RowInv'
  BY <1>1, <1>2, <1>4, <1>6 DEF RowInv, Saving, Piping, ShellSets
<1>9. \A i \in Nat : Started(i)' <=> Started(i)
  BY <1>1 DEF Started
<1>10. ChildInv' /\ DoneInv'
  BY <1>1, <1>2, <1>6, <1>9, ChildrenStay, DoneStays DEF ShellSets
<1>11. ASSUME NEW i \in Children, Fed(i)'
       PROVE  /\ Fed(i) /\ line'[i] = line[i]
              /\ Open(i)' => Open(i) /\ Source(i)' = Source(i)
              /\ Taken(i)' = Taken(i) /\ Put(i - 1)' = Put(i - 1)
              /\ Upstream(i)' => Upstream(i) /\ Sink(i - 1)' = Sink(i - 1)
  <2>1. i \in 2 .. Len(line) /\ i \in Nat /\ i - 1 \in Nat /\ i - 1 \in Children
    BY <1>1, <1>2, <1>11, AtLine DEF Fed, Piping
  <2>2. /\ Started(i)' <=> Started(i)
        /\ Started(i - 1)' <=> Started(i - 1)
    BY <1>9, <2>1
  <2>3. Fed(i) /\ line'[i] = line[i] /\ (Open(i)' <=> Open(i)) /\ (Upstream(i)' <=> Upstream(i))
    BY <1>1, <1>11, <2>2 DEF Fed, Piping, Upstream, Open
  <2>4. ~ Started(i) => i # frag /\ ~ LastFrag
    BY <1>1, <1>2, <2>1, <2>3 DEF Started, LastFrag, Fed
  <2>5. Source(i)' = Source(i)
    BY <1>1, <1>2, <1>3, <1>6, <2>1, <2>2, <2>4 DEF Source, ShellSets
  <2>6. Taken(i)' = Taken(i) /\ Put(i - 1)' = Put(i - 1)
    BY <1>1, <2>2 DEF Taken, Put
  <2>7. Started(i - 1)
    BY <1>1, <1>2, <2>1, <2>3 DEF Started, Fed
  <2>8. Sink(i - 1)' = Sink(i - 1)
    BY <1>1, <1>6, <2>1, <2>2, <2>7 DEF Sink, ShellSets
  <2> QED  BY <2>3, <2>5, <2>6, <2>8
<1>12. LinkInv'
  BY <1>1, <1>2, <1>11, LinkStays
<1> QED  BY <1>7, <1>8, <1>10, <1>12 DEF PipelineIInv

\* Close() of that descriptor, and on to the next fragment or to waiting.
LEMMA CloseInKeeps ==
    ASSUME PipelineIInv, CloseIn
    PROVE  PipelineIInv'
<1>1. /\ step = "closer" /\ step' = (IF LastFrag THEN "wait" ELSE "pipe")
      /\ frag' = IF LastFrag THEN 1 ELSE frag + 1
      /\ <<line, savein, saveout, piperead, pipewrite>>'
            = <<line, savein, saveout, piperead, pipewrite>>
      /\ child' = child /\ held' = held /\ got' = got /\ content' = content
  BY DEF CloseIn, childVars
<1>2. /\ LineTypes /\ RowInv /\ ChildInv /\ LinkInv /\ DoneInv /\ S!Sound(table, Idle)
      /\ frag \in Nat \ {0} /\ Len(line) \in Nat \ {0} /\ frag <= Len(line) /\ line \in Lines
      /\ \A i \in Children : i \in Nat \ {0}
  BY <1>1, AtLine, ProcessRows DEF Piping
<1>3. PICK f : f = IF LastFrag THEN 2 ELSE 4
  OBVIOUS
<1>4. /\ f \in 0 .. 5 /\ f = (IF LastFrag THEN savein ELSE piperead)
      /\ V[Shell][f] # S!None
  <2>1. CASE LastFrag
    BY <1>1, <1>2, <1>3, <2>1, FilesConstants DEF RowInv, Piping, Saving
  <2>2. CASE ~ LastFrag
    BY <1>1, <1>2, <1>3, <2>2 DEF RowInv, Piping
  <2> QED  BY <2>1, <2>2
<1>5. S!Sound(table', Idle) /\ S!View(table') = S!Enter(V, Shell, f, S!None)
  BY <1>2, <1>4, CloseCall DEF CloseIn, V
<1>6. ShellSets(f, S!None)
  BY <1>2, <1>4, <1>5, SetsRow
<1>7. ~ LastFrag => frag + 1 <= Len(line)
  BY <1>2 DEF LastFrag
<1>8. LineTypes'
  BY <1>1, <1>2, <1>5, <1>7 DEF LineTypes, CloseIn, childVars, Saving, Piping
<1>9. RowInv'
  <2>1. CASE LastFrag
    BY <1>1, <1>2, <1>3, <1>6, <2>1 DEF RowInv, Saving, Piping, ShellSets
  <2>2. CASE ~ LastFrag
    BY <1>1, <1>2, <1>3, <1>6, <2>2 DEF RowInv, Saving, Piping, ShellSets
  <2> QED  BY <2>1, <2>2
<1>10. \A i \in Nat : i <= Len(line) => (Started(i)' <=> Started(i))
  BY <1>1, <1>2, <1>7 DEF Started, LastFrag
<1>11. ChildInv'
  <2>1. ASSUME NEW i \in Children
        PROVE  /\ ~ Started(i)' \/ (step' = "wait" /\ i < frag') => child'[i] = "none"
               /\ child'[i] \notin Live => V'[i] = S!NoneRow
               /\ child'[i] \in Live /\ i = Len(line') => V'[i][1] = Term
               /\ child'[i] = "report" => line'[i] = "count"
               /\ child'[i] = "run" /\ line'[i] = "count" => held'[i] = 0
    <3>1. ~ Started(i)' => ~ Started(i)
      BY <1>1, <1>2, <1>7 DEF Started, LastFrag
    <3>2. ~ (step' = "wait" /\ i < frag')
      BY <1>1, <1>2
    <3> QED  BY <1>1, <1>2, <1>6, <3>1, <3>2 DEF ChildInv, ShellSets
  <2> QED  BY <2>1 DEF ChildInv
<1>12. DoneInv'
  BY <1>1, <1>2, <1>10, DoneStays
<1>13. ASSUME NEW i \in Children, Fed(i)'
       PROVE  /\ Fed(i) /\ line'[i] = line[i]
              /\ Open(i)' => Open(i) /\ Source(i)' = Source(i)
              /\ Taken(i)' = Taken(i) /\ Put(i - 1)' = Put(i - 1)
              /\ Upstream(i)' => Upstream(i) /\ Sink(i - 1)' = Sink(i - 1)
  <2>1. i \in 2 .. Len(line) /\ i \in Nat /\ i - 1 \in Nat /\ i - 1 \in Children
    BY <1>1, <1>2, <1>13, AtLine DEF Fed, Piping
  <2>2. /\ Started(i)' <=> Started(i)
        /\ Started(i - 1)' <=> Started(i - 1)
    BY <1>10, <2>1
  <2>3. ~ Started(i) => i = frag + 1 /\ ~ LastFrag /\ i = frag'
    BY <1>1, <1>2, <1>7, <1>13, <2>1, <2>2 DEF Started, LastFrag, Fed
  <2>4. Fed(i) /\ line'[i] = line[i] /\ (Open(i)' <=> Open(i)) /\ (Upstream(i)' <=> Upstream(i))
    BY <1>1, <1>2, <1>13, <2>1, <2>2, <2>3 DEF Fed, Piping, Upstream, Open
  <2>5. Source(i)' = Source(i)
    BY <1>1, <1>3, <1>6, <2>1, <2>2, <2>3 DEF Source, ShellSets
  <2>6. Taken(i)' = Taken(i) /\ Put(i - 1)' = Put(i - 1)
    BY <1>1, <2>2 DEF Taken, Put
  <2>7. Started(i - 1)
    BY <1>1, <1>2, <2>1, <2>3, <2>4 DEF Started, Fed
  <2>8. Sink(i - 1)' = Sink(i - 1)
    BY <1>1, <1>6, <2>1, <2>2, <2>7 DEF Sink, ShellSets
  <2> QED  BY <2>4, <2>5, <2>6, <2>8
<1>14. LinkInv'
  BY <1>1, <1>2, <1>13, LinkStays
<1> QED  BY <1>8, <1>9, <1>11, <1>12, <1>14 DEF PipelineIInv

\* Execute(): the child has what the shell has.
LEMMA ExecuteKeeps ==
    ASSUME PipelineIInv, Execute
    PROVE  PipelineIInv'
<1>1. /\ step = "exec" /\ step' = "dupr"
      /\ <<line, frag, savein, saveout, piperead, pipewrite>>'
            = <<line, frag, savein, saveout, piperead, pipewrite>>
      /\ child' = [child EXCEPT ![frag] = "run"]
      /\ held' = [held EXCEPT ![frag] = IF line[frag] = "echo" THEN EchoBytes ELSE 0]
      /\ got' = [got EXCEPT ![frag] = 0] /\ content' = content
      /\ LastFrag' <=> LastFrag
  BY DEF Execute, LastFrag
<1>2. /\ LineTypes /\ RowInv /\ ChildInv /\ LinkInv /\ DoneInv /\ S!Sound(table, Idle)
      /\ frag \in Nat \ {0} /\ frag \in Children /\ Len(line) \in Nat
      /\ frag <= Len(line) /\ line \in Lines
      /\ \A i \in Children : i \in Nat \ {0}
      /\ EchoBytes \in Nat
  BY <1>1, AtLine, FilesConstants DEF Piping
<1>3. /\ child \in [Children -> {"none", "exited"} \cup Live]
      /\ held \in [Children -> Nat] /\ got \in [Children -> Nat]
  BY <1>2 DEF LineTypes
<1>4. \A i \in Children :
         /\ child'[i] = IF i = frag THEN "run" ELSE child[i]
         /\ held'[i] = IF i # frag THEN held[i] ELSE IF line[i] = "echo" THEN EchoBytes ELSE 0
         /\ got'[i] = IF i = frag THEN 0 ELSE got[i]
  BY <1>1, <1>3
<1>5. ~ Started(frag)
  BY <1>1, <1>2 DEF Started
<1>6. V[frag] = S!NoneRow
  BY <1>2, <1>5 DEF ChildInv, Live
<1>7. S!Sound(table', Idle) /\ S!View(table') = S!With(V, frag, V[Shell])
  BY <1>2, <1>6, InheritCall DEF Execute, V
<1>8. \A p \in {Shell} \cup Children : V'[p] = IF p = frag THEN V[Shell] ELSE V[p]
  BY <1>2, <1>7, LineTyped DEF S!With, S!ViewTables, V
<1>9. V'[Shell] = V[Shell] /\ \A i \in Children : V'[i] = IF i = frag THEN V[Shell] ELSE V[i]
  BY <1>2, <1>8, ProcessRows
<1>10. LineTypes'
  <2>1. /\ child' \in [Children -> {"none", "exited"} \cup Live]
        /\ held' \in [Children -> Nat] /\ got' \in [Children -> Nat]
    BY <1>1, <1>2, <1>3 DEF Live
  <2> QED  BY <1>1, <1>2, <1>7, <2>1 DEF LineTypes, Saving, Piping
<1>11. RowInv'
  BY <1>1, <1>2, <1>9 DEF RowInv, Saving, Piping
<1>12. \A i \in Nat : Started(i)' <=> Started(i) \/ i = frag
  BY <1>1, <1>2 DEF Started
<1>13. ChildInv'
  <2>1. ASSUME NEW i \in Children
        PROVE  /\ ~ Started(i)' \/ (step' = "wait" /\ i < frag') => child'[i] = "none"
               /\ child'[i] \notin Live => V'[i] = S!NoneRow
               /\ child'[i] \in Live /\ i = Len(line') => V'[i][1] = Term
               /\ child'[i] = "report" => line'[i] = "count"
               /\ child'[i] = "run" /\ line'[i] = "count" => held'[i] = 0
    <3>1. CASE i = frag
      <4>1. Started(i)' /\ child'[i] = "run" /\ V'[i] = V[Shell]
        BY <1>2, <1>4, <1>9, <1>12, <3>1
      <4>2. i = Len(line') => V[Shell][1] = Term
        BY <1>1, <1>2, <3>1 DEF RowInv, Piping, LastFrag
      <4>3. line'[i] = "count" => held'[i] = 0
        BY <1>1, <1>4, <3>1
      <4> QED  BY <1>1, <4>1, <4>2, <4>3 DEF Live
    <3>2. CASE i # frag
      <4>1. Started(i)' <=> Started(i)
        BY <1>2, <1>12, <3>2
      <4> QED  BY <1>1, <1>2, <1>4, <1>9, <3>2, <4>1 DEF ChildInv
    <3> QED  BY <3>1, <3>2
  <2> QED  BY <2>1 DEF ChildInv
<1>14. DoneInv'
  <2>1. ASSUME NEW i \in Children, i <= Len(line'), Started(i)', child'[i] # "run"
        PROVE  /\ child'[i] \notin Live => held'[i] = 0
               /\ i > 1 /\ line'[i] \in Filters => child'[i - 1] \notin Live /\ got'[i] = Due(i)'
    <3>1. i # frag /\ i <= Len(line) /\ child[i] # "run" /\ line'[i] = line[i]
      BY <1>1, <1>2, <1>4, <2>1
    <3>2. Started(i) /\ i < frag
      BY <1>1, <1>2, <1>12, <2>1, <3>1 DEF Started
    <3>3. i > 1 => i - 1 \in Children /\ i - 1 # frag
      BY <1>1, <1>2, <3>2, AtLine DEF Piping
    <3>4. Due(i)' = Due(i)
      BY <1>1 DEF Due
    <3> QED  BY <1>2, <1>4, <3>1, <3>2, <3>3, <3>4 DEF DoneInv
  <2> QED  BY <2>1 DEF DoneInv
<1>15. ASSUME NEW i \in Children, Fed(i)'
       PROVE  /\ Fed(i) /\ line'[i] = line[i]
              /\ Open(i)' => Open(i) /\ Source(i)' = Source(i)
              /\ Taken(i)' = Taken(i) /\ Put(i - 1)' = Put(i - 1)
              /\ Upstream(i)' => Upstream(i) /\ Sink(i - 1)' = Sink(i - 1)
  <2>1. i \in 2 .. Len(line) /\ i \in Nat /\ i - 1 \in Nat /\ i - 1 \in Children /\ i - 1 # i
    BY <1>1, <1>2, <1>15, AtLine DEF Fed, Piping
  <2>2. /\ Started(i)' <=> Started(i) \/ i = frag
        /\ Started(i - 1)' <=> Started(i - 1) \/ i - 1 = frag
    BY <1>12, <2>1
  <2>3. Fed(i)
    <3>1. CASE ~ Started(i)
      <4>1. i <= frag + 1
        BY <1>1, <1>2, <1>15, <2>1, <2>2, <3>1 DEF Fed
      <4> QED  BY <1>1, <2>1, <3>1, <4>1 DEF Fed, Piping
    <3>2. CASE Started(i)
      <4>1. i # frag /\ i - 1 # frag
        BY <1>1, <1>2, <1>5, <2>1, <3>2 DEF Started
      <4>2. child'[i] = child[i] /\ child'[i - 1] = child[i - 1]
        BY <1>4, <2>1, <4>1
      <4>3. child'[i] \in Live \/ child'[i - 1] \in Live
        BY <1>15, <2>2, <3>2 DEF Fed
      <4> QED  BY <1>1, <2>1, <3>2, <4>2, <4>3 DEF Fed, Piping
    <3> QED  BY <3>1, <3>2
  <2>4. Source(i)' = Source(i)
    BY <1>1, <1>2, <1>5, <1>9, <2>1, <2>2 DEF Source
  <2>5. Taken(i)' = Taken(i)
    BY <1>2, <1>4, <1>5, <2>2 DEF Taken
  <2>6. Put(i - 1)' = Put(i - 1)
    <3>1. CASE i - 1 = frag
      <4>1. Put(i - 1) = 0 /\ Started(i - 1)'
        BY <1>5, <2>2, <3>1 DEF Put
      <4>2. /\ held'[i - 1] = (IF line[i - 1] = "echo" THEN EchoBytes ELSE 0)
            /\ got'[i - 1] = 0 /\ child'[i - 1] = "run"
        BY <1>4, <2>1, <3>1
      <4> QED  BY <1>1, <1>2, <4>1, <4>2 DEF Put
    <3>2. CASE i - 1 # frag
      BY <1>1, <1>4, <2>1, <2>2, <3>2 DEF Put
    <3> QED  BY <3>1, <3>2
  <2>7. line'[i] = line[i] /\ (Open(i)' => Open(i)) /\ (Upstream(i)' => Upstream(i))
    BY <1>1, <1>2, <1>4, <1>5, <2>1, <2>2 DEF Upstream, Open
  <2>8. Sink(i - 1)' = Sink(i - 1)
    BY <1>1, <1>5, <1>9, <2>1, <2>2 DEF Sink
  <2> QED  BY <2>3, <2>4, <2>5, <2>6, <2>7, <2>8
<1>16. LinkInv'
  BY <1>1, <1>2, <1>15, LinkStays
<1> QED  BY <1>10, <1>11, <1>13, <1>14, <1>16 DEF PipelineIInv

\* WaitChild()
LEMMA WaitKeeps ==
    ASSUME PipelineIInv, Wait
    PROVE  PipelineIInv'
<1>1. /\ step = "wait" /\ child[frag] = "exited"
      /\ child' = [child EXCEPT ![frag] = "none"]
      /\ frag' = (IF LastFrag THEN 1 ELSE frag + 1)
      /\ step' = (IF LastFrag THEN "prompt" ELSE "wait")
      /\ line' = (IF LastFrag THEN <<>> ELSE line)
      /\ <<savein, saveout, piperead, pipewrite>>'
            = <<savein, saveout, piperead, pipewrite>>
      /\ held' = held /\ got' = got /\ content' = content /\ table' = table /\ V' = V
  BY DEF Wait, V
<1>2. /\ LineTypes /\ RowInv /\ ChildInv /\ LinkInv /\ DoneInv /\ S!Sound(table, Idle)
      /\ frag \in Nat \ {0} /\ frag \in Children /\ Len(line) \in Nat
      /\ frag <= Len(line) /\ line \in Lines
      /\ \A i \in Children : i \in Nat \ {0}
  BY <1>1, AtLine
<1>3. child \in [Children -> {"none", "exited"} \cup Live]
  BY <1>2 DEF LineTypes
<1>4. \A i \in Children : child'[i] = IF i = frag THEN "none" ELSE child[i]
  BY <1>1, <1>3
<1>5. ~ LastFrag => frag + 1 <= Len(line)
  BY <1>2 DEF LastFrag
<1>6. LineTypes'
  <2>1. child' \in [Children -> {"none", "exited"} \cup Live]
    BY <1>1, <1>3
  <2> QED  BY <1>1, <1>2, <1>5, <2>1 DEF LineTypes, Saving, Piping
<1>7. RowInv'
  BY <1>1, <1>2 DEF RowInv, Saving, Piping
<1>8. \A i \in Nat \ {0} : i <= Len(line) => Started(i)
  BY <1>1 DEF Started
<1>9. ChildInv'
  <2>1. ASSUME NEW i \in Children
        PROVE  /\ ~ Started(i)' \/ (step' = "wait" /\ i < frag') => child'[i] = "none"
               /\ child'[i] \notin Live => V'[i] = S!NoneRow
               /\ child'[i] \in Live /\ i = Len(line') => V'[i][1] = Term
               /\ child'[i] = "report" => line'[i] = "count"
               /\ child'[i] = "run" /\ line'[i] = "count" => held'[i] = 0
    <3>1. child[i] \notin Live => V[i] = S!NoneRow
      BY <1>2 DEF ChildInv
    <3>2. CASE i = frag
      BY <1>1, <1>2, <1>4, <3>1, <3>2 DEF Live
    <3>3. CASE i # frag /\ ~ LastFrag
      <4>1. ~ Started(i)' \/ (step' = "wait" /\ i < frag') => ~ Started(i) \/ i < frag
        BY <1>1, <1>2, <1>5, <3>3 DEF Started, LastFrag
      <4>2. child'[i] = child[i] /\ line' = line
        BY <1>1, <1>4, <3>3
      <4> QED  BY <1>1, <1>2, <4>1, <4>2 DEF ChildInv
    <3>4. CASE i # frag /\ LastFrag
      <4>1. ~ Started(i) \/ i < frag
        BY <1>1, <1>2, <3>4 DEF Started, LastFrag
      <4>2. child[i] = "none"
        BY <1>1, <1>2, <4>1 DEF ChildInv
      <4>3. child'[i] = "none"
        BY <1>4, <3>4, <4>2
      <4> QED  BY <1>1, <3>1, <4>2, <4>3 DEF Live
    <3> QED  BY <3>2, <3>3, <3>4
  <2> QED  BY <2>1 DEF ChildInv
<1>10. DoneInv'
  <2>1. ASSUME NEW i \in Children, i <= Len(line'), Started(i)', child'[i] # "run"
        PROVE  /\ child'[i] \notin Live => held'[i] = 0
               /\ i > 1 /\ line'[i] \in Filters => child'[i - 1] \notin Live /\ got'[i] = Due(i)'
    <3>0. ~ LastFrag /\ line' = line
      BY <1>1, <1>2, <2>1
    <3>1. Started(i) /\ i <= Len(line) /\ child[i] # "run"
      BY <1>1, <1>2, <1>4, <1>8, <2>1, <3>0
    <3>2. i > 1 => i - 1 \in Children
      BY <1>1, AtLine
    <3>3. Due(i)' = Due(i)
      BY <3>0 DEF Due
    <3>4. /\ child[i] \notin Live => held[i] = 0
          /\ i > 1 /\ line[i] \in Filters => child[i - 1] \notin Live /\ got[i] = Due(i)
      BY <1>2, <3>1 DEF DoneInv
    <3>5. \A j \in Children : child'[j] \notin Live <=> child[j] \notin Live
      BY <1>1, <1>2, <1>4 DEF Live
    <3> QED  BY <1>1, <3>0, <3>2, <3>3, <3>4, <3>5
  <2> QED  BY <2>1 DEF DoneInv
<1>11. ASSUME NEW i \in Children, Fed(i)'
       PROVE  /\ Fed(i) /\ line'[i] = line[i]
              /\ Open(i)' => Open(i) /\ Source(i)' = Source(i)
              /\ Taken(i)' = Taken(i) /\ Put(i - 1)' = Put(i - 1)
              /\ Upstream(i)' => Upstream(i) /\ Sink(i - 1)' = Sink(i - 1)
  <2>0. step' = "wait" /\ ~ LastFrag /\ line' = line
    BY <1>1, <1>11 DEF Fed, Piping
  <2>1. i \in 2 .. Len(line) /\ i \in Nat /\ i - 1 \in Nat \ {0} /\ i - 1 \in Children
    BY <1>1, <1>2, <1>11, <2>0, AtLine DEF Fed
  <2>2. step' = "wait" /\ Started(i)' /\ Started(i) /\ Started(i - 1)' /\ Started(i - 1)
    BY <1>1, <1>2, <1>8, <1>11, <2>0, <2>1 DEF Started, Fed, Piping
  <2>3. \A j \in Children : (child'[j] \in Live <=> child[j] \in Live)
                            /\ (child'[j] = "run" <=> child[j] = "run")
    BY <1>1, <1>2, <1>4 DEF Live
  <2>4. Fed(i) /\ line'[i] = line[i] /\ (Open(i)' <=> Open(i)) /\ (Upstream(i)' <=> Upstream(i))
    BY <1>1, <1>11, <2>0, <2>1, <2>2, <2>3 DEF Fed, Upstream, Open
  <2>5. Source(i)' = Source(i) /\ Taken(i)' = Taken(i) /\ Sink(i - 1)' = Sink(i - 1)
    BY <1>1, <2>2 DEF Source, Taken, Sink
  <2>6. Put(i - 1)' = Put(i - 1)
    BY <1>1, <2>0, <2>1, <2>2, <2>3 DEF Put
  <2> QED  BY <2>4, <2>5, <2>6
<1>12. LinkInv'
  BY <1>1, <1>2, <1>11, LinkStays
<1> QED  BY <1>6, <1>7, <1>9, <1>10, <1>12 DEF PipelineIInv

\* Pipe(): its ends are new, and lead from this fragment to the next.
LEMMA MakePipeKeeps ==
    ASSUME PipelineIInv, MakePipe
    PROVE  PipelineIInv'
<1>1. /\ step = "pipe" /\ step' = "dupw"
      /\ <<line, frag, savein, saveout>>' = <<line, frag, savein, saveout>>
      /\ child' = child /\ held' = held /\ got' = got
      /\ LastFrag' <=> LastFrag
  BY DEF MakePipe, LastFrag
<1>2. /\ LineTypes /\ RowInv /\ ChildInv /\ LinkInv /\ DoneInv /\ S!Sound(table, Idle)
      /\ frag \in Nat \ {0} /\ Len(line) \in Nat /\ frag <= Len(line) /\ line \in Lines
      /\ \A i \in Children : i \in Nat \ {0}
  BY <1>1, AtLine
<1>3. \A i \in Nat : Started(i)' <=> Started(i)
  BY <1>1 DEF Started
<1>4. DoneInv'
  BY <1>1, <1>2, <1>3, DoneStays
<1>5. CASE LastFrag
  <2>1. table' = table /\ V' = V /\ content' = content
        /\ <<piperead, pipewrite>>' = <<piperead, pipewrite>>
    BY <1>5 DEF MakePipe, V
  <2>2. LineTypes'
    BY <1>1, <1>2, <2>1 DEF LineTypes, Saving, Piping
  <2>3. RowInv'
    BY <1>1, <1>2, <1>5, <2>1 DEF RowInv, Saving, Piping
  <2>4. ChildInv'
    BY <1>1, <1>2, <1>3, <2>1, ChildrenStay
  <2>5. ASSUME NEW i \in Children, Fed(i)'
        PROVE  /\ Fed(i) /\ line'[i] = line[i]
               /\ Open(i)' => Open(i) /\ Source(i)' = Source(i)
               /\ Taken(i)' = Taken(i) /\ Put(i - 1)' = Put(i - 1)
               /\ Upstream(i)' => Upstream(i) /\ Sink(i - 1)' = Sink(i - 1)
    <3>1. i \in 2 .. Len(line) /\ i \in Nat /\ i - 1 \in Nat /\ i <= frag
      BY <1>1, <1>2, <1>5, <2>5 DEF Fed, LastFrag
    <3>2. /\ Started(i)' <=> Started(i)
          /\ Started(i - 1)' <=> Started(i - 1)
      BY <1>3, <3>1
    <3>3. Fed(i) /\ line'[i] = line[i] /\ (Open(i)' <=> Open(i)) /\ (Upstream(i)' <=> Upstream(i))
      BY <1>1, <1>2, <2>5, <3>1, <3>2 DEF Fed, Upstream, Open
    <3>4. Started(i - 1) /\ (~ Started(i) => i = frag)
      BY <1>1, <1>2, <3>1 DEF Started
    <3>5. Source(i)' = Source(i) /\ Sink(i - 1)' = Sink(i - 1)
      BY <1>1, <2>1, <3>2, <3>4 DEF Source, Sink
    <3>6. Taken(i)' = Taken(i) /\ Put(i - 1)' = Put(i - 1)
      BY <1>1, <3>2 DEF Taken, Put
    <3> QED  BY <3>3, <3>5, <3>6
  <2>6. LinkInv'
    BY <1>2, <2>1, <2>5, LinkStays
  <2> QED  BY <1>4, <2>2, <2>3, <2>4, <2>6 DEF PipelineIInv
<1>6. CASE ~ LastFrag
  <2>1. PICK k \in F!FreePipes(table) : /\ table' = F!sys_Pipe(table, Shell, k)
                                        /\ content' = [content EXCEPT ![k] = 0]
    BY <1>6 DEF MakePipe
  <2>2. PICK L : L = F!LowestFids(table, Shell, 2)
    OBVIOUS
  <2>3. F!CanReserve(table, Shell, 2) /\ piperead' = L[1] /\ pipewrite' = L[2]
    BY <1>6, <2>2 DEF MakePipe
  <2>4. k \in S!Pipes
    BY <2>1, SameData DEF S!FreePipes
  <2>5. /\ L[1] \in 0 .. 5 /\ L[2] \in 0 .. 5 /\ L[1] < L[2]
        /\ V[Shell][L[1]] = S!None /\ V[Shell][L[2]] = S!None
        /\ \A g \in 0 .. 5 : g < L[2] /\ g # L[1] => V[Shell][g] # S!None
        /\ S!Sound(table', Idle)
        /\ S!View(table') = S!Enter(S!Enter(V, Shell, L[1], S!Reader(k)),
                                    Shell, L[2], S!Writer(k))
    BY <1>2, <2>1, <2>2, <2>3, PipeCall DEF V
  <2>6. L[1] = 4 /\ L[2] = 5
    <3>1. /\ V[Shell][0] # S!None /\ V[Shell][1] # S!None /\ V[Shell][2] # S!None
          /\ V[Shell][3] # S!None /\ V[Shell][4] = S!None /\ V[Shell][5] = S!None
      BY <1>1, <1>2, FilesConstants DEF RowInv, Saving, Piping
    <3> QED  BY <2>5, <3>1
  <2>7. V' = S!Enter(S!Enter(V, Shell, 4, S!Reader(k)), Shell, 5, S!Writer(k))
    BY <2>5, <2>6 DEF V
  <2>8. /\ \A g \in 0 .. 5 : V'[Shell][g] = IF g = 4 THEN S!Reader(k)
                                            ELSE IF g = 5 THEN S!Writer(k) ELSE V[Shell][g]
        /\ \A i \in Children : V'[i] = V[i]
    BY <1>2, <2>7, LineTyped, ProcessRows, FilesConstants DEF S!Enter, S!ViewTables
  <2>9. LineTypes'
    <3>1. content' \in [S!Pipes -> Nat]
      BY <1>2, <2>1, <2>4 DEF LineTypes
    <3> QED  BY <1>1, <1>2, <2>5, <3>1 DEF LineTypes, Saving, Piping
  <2>10. RowInv'
    BY <1>1, <1>2, <1>6, <2>3, <2>6, <2>8, EndFields DEF RowInv, Saving, Piping
  <2>11. ChildInv'
    BY <1>1, <1>2, <1>3, <2>8, ChildrenStay
  <2>12. /\ content'[k] = 0
         /\ \A l \in S!Pipes : l # k => content'[l] = content[l]
    BY <1>2, <2>1, <2>4 DEF LineTypes
  <2>13. \A p \in {Shell} \cup Children, f \in 0 .. 5 :
            V[p][f] # S!Reader(k) /\ V[p][f] # S!Writer(k)
    BY <1>2, <2>1, <2>4, OpenEnds
  <2>17. PICK K : Linked(K)
    BY <1>2 DEF LinkInv
  <2>14. ASSUME NEW i \in Children, Fed(i)', i # frag + 1
         PROVE  Fed(i) /\ K[i] # k /\ Leads(i, K[i])'
    <3>1. i \in 2 .. Len(line) /\ i \in Nat /\ i - 1 \in Nat /\ i - 1 \in Children
      BY <1>1, <1>2, <2>14, AtLine DEF Fed
    <3>2. /\ Started(i)' <=> Started(i)
          /\ Started(i - 1)' <=> Started(i - 1)
      BY <1>3, <3>1
    <3>3. Fed(i) /\ line'[i] = line[i] /\ (Open(i)' <=> Open(i)) /\ (Upstream(i)' <=> Upstream(i))
      BY <1>1, <1>2, <2>14, <3>1, <3>2 DEF Fed, Upstream, Open
    <3>4. Started(i - 1) /\ (~ Started(i) => i = frag)
      BY <1>1, <1>2, <3>1, <3>3 DEF Started, Fed
    <3>5. Source(i)' = Source(i) /\ Sink(i - 1)' = Sink(i - 1)
      BY <1>1, <2>8, <3>1, <3>2, <3>4 DEF Source, Sink
    <3>6. Taken(i)' = Taken(i) /\ Put(i - 1)' = Put(i - 1)
      BY <1>1, <3>2 DEF Taken, Put
    <3>7. Source(i) # S!Reader(k) /\ Sink(i - 1) # S!Writer(k)
      <4>1. /\ Source(i) \in {V[i][0], V[Shell][0], V[Shell][4]}
            /\ Sink(i - 1) = V[i - 1][1]
        BY <3>4 DEF Source, Sink
      <4>2. /\ V[i][0] # S!Reader(k) /\ V[i - 1][1] # S!Writer(k)
            /\ V[Shell][0] # S!Reader(k) /\ V[Shell][4] # S!Reader(k)
        BY <2>13, <3>1
      <4> QED  BY <4>1, <4>2
    <3>8. K[i] \in S!Pipes /\ Leads(i, K[i])
      BY <2>17, <3>3 DEF Linked
    <3>9. K[i] # k
      <4>1. Open(i) \/ Upstream(i)
        BY <3>3, <3>4 DEF Fed, Open, Upstream
      <4> QED  BY <3>7, <3>8, <4>1 DEF Leads
    <3>10. Leads(i, K[i])'
      BY <2>12, <3>3, <3>5, <3>6, <3>8, <3>9 DEF Leads
    <3> QED  BY <3>3, <3>9, <3>10
  <2>15. ASSUME NEW i \in Children, i = frag + 1
         PROVE  Leads(i, k)'
    <3>1. ~ Started(i)' /\ ~ Started(i - 1)' /\ i - 1 = frag
      BY <1>1, <1>2, <2>15 DEF Started
    <3>2. Source(i)' = S!Reader(k) /\ Sink(i - 1)' = S!Writer(k)
      BY <1>1, <1>2, <2>8, <2>15, <3>1 DEF Source, Sink
    <3>3. Taken(i)' = 0 /\ Put(i - 1)' = 0
      BY <3>1 DEF Taken, Put
    <3> QED  BY <2>12, <3>2, <3>3 DEF Leads
  <2>16. LinkInv'
    <3>1. PICK M : M = [i \in Children |-> IF i = frag + 1 THEN k ELSE K[i]]
      OBVIOUS
    <3>2. /\ M \in [Children -> S!Pipes]
          /\ \A i \in Children : M[i] = IF i = frag + 1 THEN k ELSE K[i]
      BY <2>4, <2>17, <3>1 DEF Linked
    <3>3. ASSUME NEW i \in Children, Fed(i)' PROVE Leads(i, M[i])'
      <4>1. CASE i = frag + 1
        <5>1. M[i] = k /\ Leads(i, k)'
          BY <2>15, <3>2, <4>1
        <5> QED  BY <5>1 DEF Leads
      <4>2. CASE i # frag + 1
        <5>1. M[i] = K[i] /\ Leads(i, K[i])'
          BY <2>14, <3>2, <3>3, <4>2
        <5> QED  BY <5>1 DEF Leads
      <4> QED  BY <4>1, <4>2
    <3>4. ASSUME NEW i \in Children, NEW j \in Children, Fed(i)', Fed(j)', i # j
          PROVE  M[i] # M[j]
      BY <2>17, <2>14, <3>2, <3>4 DEF Linked
    <3>5. Linked(M)'
      BY <3>2, <3>3, <3>4 DEF Linked
    <3> QED  BY <3>5 DEF LinkInv
  <2> QED  BY <1>4, <2>9, <2>10, <2>11, <2>16 DEF PipelineIInv
<1> QED  BY <1>5, <1>6

-----------------------------------------------------------------------------
(* The programs.                                                           *)

\* A program that runs was started for this line, and reads from its pipe.
LEMMA LiveChild ==
    ASSUME PipelineIInv, NEW i \in Children, child[i] \in Live
    PROVE  /\ step \in {"pipe", "wait"} \cup Piping /\ Started(i)
           /\ i \in 1 .. Len(line) /\ line[i] \in {"echo", "copy", "count"}
           /\ line[i] # "echo" => i > 1
           /\ i > 1 => /\ Fed(i) /\ i - 1 \in Children
                       /\ \A k \in S!Pipes : Leads(i, k) => StreamOf(i, 0) = S!Reader(k)
<1>1. Started(i)
  BY DEF PipelineIInv, ChildInv, Live
<1>2. step \in {"pipe", "wait"} \cup Piping
  <2>1. ASSUME step \in Saving PROVE FALSE
    BY <1>1, <2>1, ProcessRows DEF PipelineIInv, LineTypes, Started, Saving
  <2> QED  BY <2>1 DEF PipelineIInv, LineTypes
<1>3. /\ LineTypes /\ LinkInv /\ frag \in Nat \ {0} /\ Len(line) \in Nat
      /\ frag <= Len(line) /\ line \in Lines
      /\ i \in Nat \ {0} /\ (i > 1 => i - 1 \in Children)
  BY <1>2, AtLine
<1>4. i \in 1 .. Len(line)
  BY <1>1, <1>3 DEF Started
<1>5. line[i] \in {"echo", "copy", "count"} /\ (line[i] # "echo" => i > 1)
  BY <1>3, <1>4, LineFields
<1>6. ASSUME i > 1 PROVE Fed(i)
  BY <1>1, <1>2, <1>4, <1>6 DEF Fed
<1>7. ASSUME NEW k \in S!Pipes, Leads(i, k) PROVE StreamOf(i, 0) = S!Reader(k)
  <2>1. V[i][0] = S!Reader(k)
    BY <1>1, <1>7 DEF Leads, Source, Open
  <2>2. StreamOf(i, 0) = V[i][0]
    BY <1>3, <2>1, StreamOfView, EndFields
  <2> QED  BY <2>1, <2>2
<1> QED  BY <1>1, <1>2, <1>3, <1>4, <1>5, <1>6, <1>7

\* fgetc()
LEMMA ReadByteKeeps ==
    ASSUME PipelineIInv, NEW i \in Children, ReadByte(i)
    PROVE  PipelineIInv'
<1>1. /\ child[i] = "run" /\ line[i] \in {"copy", "count"} /\ held[i] = 0
      /\ table' = table /\ V' = V /\ child' = child
      /\ <<line, step, frag, savein, saveout, piperead, pipewrite>>'
            = <<line, step, frag, savein, saveout, piperead, pipewrite>>
      /\ got' = [got EXCEPT ![i] = @ + 1]
      /\ held' = [held EXCEPT ![i] = IF line[i] = "copy" THEN 1 ELSE 0]
  BY DEF ReadByte, shellVars, V, Filters
<1>2. /\ step \in {"pipe", "wait"} \cup Piping /\ Started(i)
      /\ i \in 1 .. Len(line) /\ i > 1 /\ Fed(i) /\ i - 1 \in Children
  BY <1>1, LiveChild DEF Live
<1>20. PICK K : Linked(K)
  BY DEF PipelineIInv, LinkInv
<1>3. PICK k \in S!Pipes : k = K[i] /\ Leads(i, k) /\ StreamOf(i, 0) = S!Reader(k)
  BY <1>1, <1>2, <1>20, LiveChild DEF Live, Linked
<1>4. content[k] > 0 /\ content' = [content EXCEPT ![k] = @ - 1]
  <2>1. StreamOf(i, 0)[2] = k
    BY <1>3, EndFields
  <2> QED  BY <2>1 DEF ReadByte
<1>5. /\ LineTypes /\ RowInv /\ ChildInv /\ LinkInv /\ DoneInv /\ Len(line) \in Nat
      /\ \A j \in Children : j \in Nat \ {0} /\ (j > 1 => j - 1 \in Children)
  BY <1>2, AtLine
<1>6. /\ held \in [Children -> Nat] /\ got \in [Children -> Nat]
      /\ content \in [S!Pipes -> Nat]
  BY <1>5 DEF LineTypes
<1>7. /\ \A j \in Children : /\ j # i => got'[j] = got[j] /\ held'[j] = held[j]
                             /\ held'[j] \in Nat /\ got'[j] \in Nat
      /\ got'[i] = got[i] + 1 /\ held'[i] = (IF line[i] = "copy" THEN 1 ELSE 0)
      /\ content'[k] = content[k] - 1
      /\ \A l \in S!Pipes : l # k => content'[l] = content[l]
  BY <1>1, <1>4, <1>6
<1>8. LineTypes'
  <2>1. /\ held' \in [Children -> Nat] /\ got' \in [Children -> Nat]
        /\ content' \in [S!Pipes -> Nat]
    BY <1>1, <1>4, <1>6
  <2> QED  BY <1>1, <1>5, <2>1 DEF LineTypes
<1>9. RowInv'
  BY <1>1, <1>5 DEF RowInv, LastFrag
<1>10. \A j \in Nat : Started(j)' <=> Started(j)
  BY <1>1 DEF Started
<1>11. ChildInv'
  <2>1. ASSUME NEW j \in Children
        PROVE  /\ ~ Started(j)' \/ (step' = "wait" /\ j < frag') => child'[j] = "none"
               /\ child'[j] \notin Live => V'[j] = S!NoneRow
               /\ child'[j] \in Live /\ j = Len(line') => V'[j][1] = Term
               /\ child'[j] = "report" => line'[j] = "count"
               /\ child'[j] = "run" /\ line'[j] = "count" => held'[j] = 0
    <3>1. Started(j)' <=> Started(j)
      BY <1>5, <1>10
    <3>2. child'[j] = "run" /\ line'[j] = "count" => held'[j] = 0
      BY <1>1, <1>5, <1>7 DEF ChildInv
    <3> QED  BY <1>1, <1>5, <3>1, <3>2 DEF ChildInv
  <2> QED  BY <2>1 DEF ChildInv
<1>12. DoneInv'
  <2>1. ASSUME NEW j \in Children, j <= Len(line'), Started(j)', child'[j] # "run"
        PROVE  /\ child'[j] \notin Live => held'[j] = 0
               /\ j > 1 /\ line'[j] \in Filters => child'[j - 1] \notin Live /\ got'[j] = Due(j)'
    <3>1. Started(j) /\ j # i /\ Due(j)' = Due(j)
      BY <1>1, <1>5, <1>10, <2>1 DEF Due
    <3> QED  BY <1>1, <1>5, <1>7, <2>1, <3>1 DEF DoneInv
  <2> QED  BY <2>1 DEF DoneInv
<1>13. ASSUME NEW j \in Children, Fed(j)'
       PROVE  Fed(j) /\ Leads(j, K[j])'
  <2>1. j \in 2 .. Len(line) /\ j \in Nat /\ j - 1 \in Nat /\ j - 1 \in Children
    BY <1>1, <1>5, <1>13 DEF Fed
  <2>2. /\ Started(j)' <=> Started(j)
        /\ Started(j - 1)' <=> Started(j - 1)
    BY <1>10, <2>1
  <2>3. /\ Fed(j) /\ Source(j)' = Source(j) /\ Sink(j - 1)' = Sink(j - 1)
        /\ (Open(j)' <=> Open(j)) /\ (Upstream(j)' <=> Upstream(j))
    BY <1>1, <1>13, <2>2 DEF Fed, Source, Sink, Open, Upstream
  <2>4. Put(j - 1)' = Put(j - 1)
    <3>1. CASE j - 1 = i
      BY <1>1, <1>6, <1>7, <2>2, <3>1 DEF Put
    <3>2. CASE j - 1 # i
      BY <1>1, <1>7, <2>1, <2>2, <3>2 DEF Put
    <3> QED  BY <3>1, <3>2
  <2>5. CASE j = i
    <3>1. Taken(j) = got[i] /\ Taken(j)' = got[i] + 1
      BY <1>2, <1>7, <2>2, <2>5 DEF Taken
    <3>2. content'[k] + Taken(j)' = content[k] + Taken(j)
      BY <1>6, <1>7, <3>1
    <3>3. Leads(j, k)'
      BY <1>1, <1>3, <2>2, <2>3, <2>4, <2>5, <3>2 DEF Leads
    <3> QED  BY <1>3, <2>3, <2>5, <3>3
  <2>6. CASE j # i
    <3>1. K[j] \in S!Pipes /\ Leads(j, K[j]) /\ K[j] # k
      BY <1>2, <1>3, <1>20, <2>3, <2>6 DEF Linked
    <3>3. Taken(j)' = Taken(j)
      BY <1>7, <2>2, <2>6 DEF Taken
    <3>4. Leads(j, K[j])'
      BY <1>1, <1>7, <2>3, <2>4, <3>1, <3>3 DEF Leads
    <3> QED  BY <2>3, <3>4
  <2> QED  BY <2>5, <2>6
<1>14. LinkInv'
  <2>1. Linked(K)'
    BY <1>20, <1>13 DEF Linked
  <2> QED  BY <2>1 DEF LinkInv
<1> QED  BY <1>8, <1>9, <1>11, <1>12, <1>14 DEF PipelineIInv

\* A reader of a pipe does not end before its writer: a byte always arrives.
LEMMA NextReads ==
    ASSUME PipelineIInv, NEW i \in Children, child[i] \in Live, i # Len(line)
    PROVE  /\ i + 1 \in Children /\ Fed(i + 1)
           /\ \A k \in S!Pipes : Leads(i + 1, k) =>
                 /\ StreamOf(i, 1) = S!Writer(k)
                 /\ line[i + 1] \in Filters => HasReader(k)
<1>1. /\ step \in {"pipe", "wait"} \cup Piping /\ Started(i) /\ i \in 1 .. Len(line)
  BY LiveChild
<1>2. /\ LineTypes /\ LinkInv /\ DoneInv /\ Len(line) \in Children
      /\ frag \in Nat \ {0} /\ Len(line) \in Nat /\ frag <= Len(line)
  BY <1>1, AtLine
<1>3. PICK j : j = i + 1
  OBVIOUS
<1>4. j \in Children /\ j \in 2 .. Len(line) /\ j - 1 = i /\ j \in Nat /\ i \in Nat
  BY <1>1, <1>2, <1>3, ProcessRows, FilesConstants
<1>5. Fed(j)
  <2>1. CASE Started(j)
    BY <1>1, <1>4, <2>1 DEF Fed
  <2>2. CASE ~ Started(j)
    <3>1. j <= frag + (IF step = "pipe" THEN 0 ELSE 1)
      BY <1>1, <1>2, <1>4, <2>2 DEF Started
    <3> QED  BY <1>1, <1>4, <2>2, <3>1 DEF Fed
  <2> QED  BY <2>1, <2>2
<1>6. ASSUME NEW k \in S!Pipes, Leads(j, k)
      PROVE  StreamOf(i, 1) = S!Writer(k) /\ (line[j] \in Filters => HasReader(k))
  <2>1. V[i][1] = S!Writer(k)
    BY <1>1, <1>4, <1>6 DEF Leads, Sink, Upstream, Open
  <2>2. StreamOf(i, 1) = S!Writer(k)
    BY <1>2, <2>1, StreamOfView, EndFields
  <2>3. ASSUME line[j] \in Filters PROVE HasReader(k)
    <3>1. Open(j)
      <4>1. CASE Started(j)
        BY <1>2, <1>4, <2>3, <4>1 DEF DoneInv, Live, Open
      <4> QED  BY <4>1 DEF Open
    <3>2. \E p \in {Shell} \cup Children, f \in 0 .. 5 : V[p][f] = S!Reader(k)
      BY <1>4, <1>6, <3>1 DEF Leads, Source
    <3> QED  BY <1>2, <3>2, OpenEnds
  <2> QED  BY <2>2, <2>3
<1> QED  BY <1>3, <1>4, <1>5, <1>6

\* fputc(): the last program writes to the terminal, the others to the next.
LEMMA WriteByteKeeps ==
    ASSUME PipelineIInv, NEW i \in Children, WriteByte(i)
    PROVE  PipelineIInv'
<1>1. /\ child[i] \in Live /\ held[i] > 0
      /\ table' = table /\ V' = V /\ child' = child /\ got' = got
      /\ <<line, step, frag, savein, saveout, piperead, pipewrite>>'
            = <<line, step, frag, savein, saveout, piperead, pipewrite>>
      /\ held' = [held EXCEPT ![i] = @ - 1]
  BY DEF WriteByte, shellVars, V, Live
<1>2. /\ step \in {"pipe", "wait"} \cup Piping /\ Started(i)
      /\ i \in 1 .. Len(line) /\ line[i] \in {"echo", "copy", "count"}
  BY <1>1, LiveChild
<1>3. /\ LineTypes /\ RowInv /\ ChildInv /\ LinkInv /\ DoneInv /\ Len(line) \in Nat
      /\ \A j \in Children : j \in Nat \ {0} /\ (j > 1 => j - 1 \in Children)
  BY <1>2, AtLine
<1>4. /\ held \in [Children -> Nat] /\ got \in [Children -> Nat]
      /\ content \in [S!Pipes -> Nat] /\ EchoBytes \in Nat
  BY <1>3, FilesConstants DEF LineTypes
<1>5. /\ \A j \in Children : j # i => held'[j] = held[j]
      /\ held'[i] = held[i] - 1
  BY <1>1, <1>4
<1>6. \A j \in Nat : Started(j)' <=> Started(j)
  BY <1>1 DEF Started
<1>20. PICK K : Linked(K)
  BY <1>3 DEF LinkInv
<1>7. \/ content' = content /\ (i = Len(line) \/ line[i + 1] \notin Filters)
      \/ i # Len(line) /\ content' = [content EXCEPT ![K[i + 1]] = @ + 1]
  <2>1. PICK out : out = StreamOf(i, 1)
    OBVIOUS
  <2>2. \/ out = F!Terminal(0) /\ content' = content
        \/ /\ out[1] = "writer" /\ HasReader(out[2])
           /\ content' = [content EXCEPT ![out[2]] = @ + 1]
        \/ out[1] = "writer" /\ ~ HasReader(out[2]) /\ content' = content
    BY <2>1 DEF WriteByte
  <2>3. CASE i = Len(line)
    <3>1. V[i][1] = Term
      BY <1>1, <1>3, <2>3 DEF ChildInv
    <3>2. out = Term
      BY <1>3, <2>1, <3>1, FilesConstants, StreamOfView
    <3>3. out[1] # "writer"
      BY <3>2 DEF Term, S!Terminal
    <3> QED  BY <2>2, <2>3, <3>3
  <2>4. CASE i # Len(line)
    <3>1. PICK k \in S!Pipes : /\ k = K[i + 1] /\ StreamOf(i, 1) = S!Writer(k)
                               /\ line[i + 1] \in Filters => HasReader(k)
      <4>1. i + 1 \in Children /\ Fed(i + 1)
        BY <1>1, <2>4, NextReads
      <4>2. K[i + 1] \in S!Pipes /\ Leads(i + 1, K[i + 1])
        BY <1>20, <4>1 DEF Linked
      <4> QED  BY <1>1, <2>4, <4>2, NextReads
    <3>2. out[2] = k /\ out # F!Terminal(0)
      BY <2>1, <3>1, EndFields, SameData DEF Term
    <3> QED  BY <2>2, <2>4, <3>1, <3>2
  <2> QED  BY <2>3, <2>4
<1>8. LineTypes'
  <2>1. held' \in [Children -> Nat]
    BY <1>1, <1>4
  <2>2. content' \in [S!Pipes -> Nat]
    <3>1. i # Len(line) => K[i + 1] \in S!Pipes
      BY <1>1, <1>20, NextReads DEF Linked
    <3> QED  BY <1>4, <1>7, <3>1
  <2> QED  BY <1>1, <1>3, <2>1, <2>2 DEF LineTypes
<1>9. RowInv'
  BY <1>1, <1>3 DEF RowInv, LastFrag
<1>10. ~ (child[i] = "run" /\ line[i] = "count")
  BY <1>1, <1>3 DEF ChildInv
<1>11. ChildInv'
  <2>1. ASSUME NEW j \in Children
        PROVE  /\ ~ Started(j)' \/ (step' = "wait" /\ j < frag') => child'[j] = "none"
               /\ child'[j] \notin Live => V'[j] = S!NoneRow
               /\ child'[j] \in Live /\ j = Len(line') => V'[j][1] = Term
               /\ child'[j] = "report" => line'[j] = "count"
               /\ child'[j] = "run" /\ line'[j] = "count" => held'[j] = 0
    <3>1. Started(j)' <=> Started(j)
      BY <1>3, <1>6
    <3>2. child'[j] = "run" /\ line'[j] = "count" => held'[j] = 0
      BY <1>1, <1>3, <1>5, <1>10 DEF ChildInv
    <3> QED  BY <1>1, <1>3, <3>1, <3>2 DEF ChildInv
  <2> QED  BY <2>1 DEF ChildInv
<1>12. DoneInv'
  <2>1. ASSUME NEW j \in Children, j <= Len(line'), Started(j)', child'[j] # "run"
        PROVE  /\ child'[j] \notin Live => held'[j] = 0
               /\ j > 1 /\ line'[j] \in Filters => child'[j - 1] \notin Live /\ got'[j] = Due(j)'
    <3>1. Started(j) /\ Due(j)' = Due(j)
      BY <1>1, <1>3, <1>6, <2>1 DEF Due
    <3>2. child'[j] \notin Live => j # i
      BY <1>1
    <3> QED  BY <1>1, <1>3, <1>5, <2>1, <3>1, <3>2 DEF DoneInv
  <2> QED  BY <2>1 DEF DoneInv
<1>13. ASSUME NEW j \in Children, Fed(j)'
       PROVE  Fed(j) /\ Leads(j, K[j])'
  <2>1. j \in 2 .. Len(line) /\ j \in Nat /\ j - 1 \in Nat /\ j - 1 \in Children
    BY <1>1, <1>3, <1>13 DEF Fed
  <2>2. /\ Started(j)' <=> Started(j)
        /\ Started(j - 1)' <=> Started(j - 1)
    BY <1>6, <2>1
  <2>3. /\ Fed(j) /\ Source(j)' = Source(j) /\ Sink(j - 1)' = Sink(j - 1) /\ Taken(j)' = Taken(j)
        /\ (Open(j)' <=> Open(j)) /\ (Upstream(j)' <=> Upstream(j))
    BY <1>1, <1>13, <2>2 DEF Fed, Source, Sink, Taken, Open, Upstream
  <2>4. PICK k \in S!Pipes : k = K[j] /\ Leads(j, k)
    BY <1>20, <2>3 DEF Linked
  <2>5. CASE j - 1 = i /\ line[j] \in Filters
    <3>1. i # Len(line) /\ j = i + 1
      BY <1>2, <1>3, <2>1, <2>5
    <3>2. content' = [content EXCEPT ![k] = @ + 1]
      BY <1>7, <2>4, <2>5, <3>1
    <3>3. content'[k] = content[k] + 1
      BY <1>4, <3>2
    <3>4. Put(i)' = Put(i) + 1 /\ Put(i) \in Int
      <4>1. /\ line' = line /\ child' = child /\ got' = got /\ held'[i] = held[i] - 1
            /\ held[i] \in Nat /\ got[i] \in Nat
        BY <1>1, <1>4, <1>5
      <4>2. Started(i) /\ Started(i)'
        BY <1>2, <2>2, <2>5
      <4>3. CASE line[i] = "echo"
        BY <1>4, <4>1, <4>2, <4>3 DEF Put
      <4>4. CASE line[i] = "copy"
        BY <4>1, <4>2, <4>4 DEF Put
      <4>5. CASE line[i] = "count"
        BY <1>10, <4>1, <4>2, <4>5 DEF Put
      <4> QED  BY <1>2, <4>3, <4>4, <4>5
    <3>5. Taken(j) \in Nat
      BY <1>4 DEF Taken
    <3>6. content'[k] + Taken(j)' = Put(j - 1)'
      BY <1>4, <2>3, <2>4, <2>5, <3>3, <3>4, <3>5 DEF Leads
    <3>7. Leads(j, k)'
      BY <1>1, <2>3, <2>4, <3>6 DEF Leads
    <3> QED  BY <2>3, <2>4, <3>7
  <2>6. CASE j - 1 # i
    <3>1. Put(j - 1)' = Put(j - 1)
      BY <1>1, <1>5, <2>1, <2>2, <2>6 DEF Put
    <3>2. content'[k] = content[k]
      <4>1. CASE content' = content
        BY <4>1
      <4>2. CASE i # Len(line) /\ content' = [content EXCEPT ![K[i + 1]] = @ + 1]
        <5>1. i + 1 \in Children /\ Fed(i + 1)
          BY <1>1, <4>2, NextReads
        <5>2. j # i + 1
          BY <1>2, <2>1, <2>6
        <5>3. K[i + 1] \in S!Pipes /\ K[i + 1] # k
          BY <1>20, <2>3, <2>4, <5>1, <5>2 DEF Linked
        <5> QED  BY <1>4, <4>2, <5>3
      <4> QED  BY <1>7, <4>1, <4>2
    <3>3. Leads(j, k)'
      BY <1>1, <2>3, <2>4, <3>1, <3>2 DEF Leads
    <3> QED  BY <2>3, <2>4, <3>3
  <2>7. CASE line[j] \notin Filters
    <3>1. Leads(j, k)'
      BY <1>1, <2>3, <2>4, <2>7 DEF Leads
    <3> QED  BY <2>3, <2>4, <3>1
  <2> QED  BY <2>5, <2>6, <2>7
<1>14. LinkInv'
  <2>1. Linked(K)'
    BY <1>20, <1>13 DEF Linked
  <2> QED  BY <2>1 DEF LinkInv
<1> QED  BY <1>8, <1>9, <1>11, <1>12, <1>14 DEF PipelineIInv

\* A program at the end of its input: who wrote it has ended, and wrote what
\* was due.
LEMMA EndIsDue ==
    ASSUME PipelineIInv, NEW i \in Children, child[i] \in Live, line[i] \in Filters, AtEnd(i)
    PROVE  child[i - 1] \notin Live /\ got[i] = Due(i)
<1>1. /\ step \in {"pipe", "wait"} \cup Piping /\ Started(i) /\ i \in 1 .. Len(line)
      /\ Fed(i) /\ i - 1 \in Children /\ i > 1
  BY LiveChild DEF Filters
<1>2. PICK k \in S!Pipes : Leads(i, k) /\ StreamOf(i, 0) = S!Reader(k)
  BY <1>1, LiveChild DEF PipelineIInv, LinkInv, Linked
<1>3. content[k] = 0 /\ ~ HasWriter(k)
  <2>1. StreamOf(i, 0)[2] = k
    BY <1>2, EndFields
  <2> QED  BY <2>1 DEF AtEnd
<1>4. /\ LineTypes /\ ChildInv /\ DoneInv /\ line \in Lines
      /\ i \in Nat \ {0} /\ Len(line) \in Nat
      /\ held \in [Children -> Nat] /\ got \in [Children -> Nat] /\ EchoBytes \in Nat
  BY <1>1, AtLine, FilesConstants DEF LineTypes
<1>5. ~ Upstream(i)
  <2>1. ASSUME Upstream(i) PROVE FALSE
    <3>1. Sink(i - 1) = S!Writer(k)
      BY <1>2, <2>1 DEF Leads, Upstream, Open
    <3>2. \E p \in {Shell} \cup Children, f \in 0 .. 5 : V[p][f] = S!Writer(k)
      BY <1>1, <3>1 DEF Sink
    <3> QED  BY <1>3, <1>4, <3>2, OpenEnds
  <2> QED  BY <2>1
<1>6. PICK h : h = i - 1
  OBVIOUS
<1>7. /\ h \in Children /\ h \in 1 .. Len(line) /\ h \in Nat /\ Started(h)
      /\ child[h] \notin Live
  BY <1>1, <1>4, <1>5, <1>6 DEF Upstream, Open
<1>8. held[h] = 0 /\ (h > 1 /\ line[h] \in Filters => got[h] = Due(h))
  BY <1>4, <1>7 DEF DoneInv, Live
<1>9. got[i] = Put(h)
  <2>1. content[k] + Taken(i) = Put(h) /\ Taken(i) = got[i]
    BY <1>1, <1>2, <1>6 DEF Leads, Taken
  <2> QED  BY <1>3, <1>4, <2>1
<1>10. line[h] \in {"echo", "copy", "count"}
  BY <1>4, <1>7, LineFields
<1>11. Put(h) = Due(i)
  <2>1. CASE line[h] = "echo"
    <3>1. Due(i) = EchoBytes
      BY <1>4, <1>6, <1>7, <2>1, OutputFields DEF Due
    <3> QED  BY <1>4, <1>7, <1>8, <2>1, <3>1 DEF Put
  <2>2. CASE line[h] = "copy"
    <3>1. h > 1 /\ Due(i) = Due(h)
      BY <1>4, <1>6, <1>7, <2>2, OutputFields DEF Due
    <3> QED  BY <1>4, <1>7, <1>8, <2>2, <3>1 DEF Put, Filters
  <2>3. CASE line[h] = "count"
    <3>1. Due(i) = 1
      BY <1>4, <1>6, <1>7, <2>3, OutputFields DEF Due
    <3> QED  BY <1>7, <1>8, <2>3, <3>1 DEF Put, Live
  <2> QED  BY <1>10, <2>1, <2>2, <2>3
<1> QED  BY <1>6, <1>7, <1>9, <1>11

\* WordCount has counted; it still runs.
LEMMA ReportKeeps ==
    ASSUME PipelineIInv, NEW i \in Children, Report(i)
    PROVE  PipelineIInv'
<1>1. /\ child[i] = "run" /\ line[i] = "count" /\ AtEnd(i)
      /\ table' = table /\ V' = V /\ got' = got /\ content' = content
      /\ <<line, step, frag, savein, saveout, piperead, pipewrite>>'
            = <<line, step, frag, savein, saveout, piperead, pipewrite>>
      /\ child' = [child EXCEPT ![i] = "report"]
      /\ held' = [held EXCEPT ![i] = 1]
  BY DEF Report, shellVars, V
<1>2. /\ step \in {"pipe", "wait"} \cup Piping /\ Started(i)
      /\ i \in 1 .. Len(line) /\ i > 1
  BY <1>1, LiveChild DEF Live
<1>3. /\ LineTypes /\ RowInv /\ ChildInv /\ LinkInv /\ DoneInv /\ Len(line) \in Nat
      /\ \A j \in Children : j \in Nat \ {0} /\ (j > 1 => j - 1 \in Children)
  BY <1>2, AtLine
<1>4. /\ child \in [Children -> {"none", "exited"} \cup Live]
      /\ held \in [Children -> Nat]
  BY <1>3 DEF LineTypes
<1>5. /\ \A j \in Children : j # i => child'[j] = child[j] /\ held'[j] = held[j]
      /\ child'[i] = "report" /\ held'[i] = 1
  BY <1>1, <1>4
<1>6. \A j \in Children : child'[j] \in Live <=> child[j] \in Live
  BY <1>1, <1>5 DEF Live
<1>7. LineTypes'
  <2>1. /\ child' \in [Children -> {"none", "exited"} \cup Live]
        /\ held' \in [Children -> Nat]
    BY <1>1, <1>4 DEF Live
  <2> QED  BY <1>1, <1>3, <2>1 DEF LineTypes
<1>8. RowInv'
  BY <1>1, <1>3 DEF RowInv, LastFrag
<1>9. \A j \in Nat : Started(j)' <=> Started(j)
  BY <1>1 DEF Started
<1>10. ChildInv'
  <2>1. ASSUME NEW j \in Children
        PROVE  /\ ~ Started(j)' \/ (step' = "wait" /\ j < frag') => child'[j] = "none"
               /\ child'[j] \notin Live => V'[j] = S!NoneRow
               /\ child'[j] \in Live /\ j = Len(line') => V'[j][1] = Term
               /\ child'[j] = "report" => line'[j] = "count"
               /\ child'[j] = "run" /\ line'[j] = "count" => held'[j] = 0
    <3>1. Started(j)' <=> Started(j)
      BY <1>3, <1>9
    <3>2. ~ Started(j)' \/ (step' = "wait" /\ j < frag') => child[j] = "none" /\ j # i
      BY <1>1, <1>3, <3>1 DEF ChildInv
    <3> QED  BY <1>1, <1>3, <1>5, <1>6, <3>2 DEF ChildInv
  <2> QED  BY <2>1 DEF ChildInv
<1>11. child[i - 1] \notin Live /\ got[i] = Due(i)
  BY <1>1, <1>2, EndIsDue DEF Live, Filters
<1>12. DoneInv'
  <2>1. ASSUME NEW j \in Children, j <= Len(line'), Started(j)', child'[j] # "run"
        PROVE  /\ child'[j] \notin Live => held'[j] = 0
               /\ j > 1 /\ line'[j] \in Filters => child'[j - 1] \notin Live /\ got'[j] = Due(j)'
    <3>1. Started(j) /\ Due(j)' = Due(j)
      BY <1>1, <1>3, <1>9, <2>1 DEF Due
    <3>2. CASE j = i
      BY <1>1, <1>2, <1>3, <1>5, <1>6, <1>11, <3>1, <3>2 DEF Live
    <3>3. CASE j # i
      <4>1. /\ child[j] \notin Live => held[j] = 0
            /\ j > 1 /\ line[j] \in Filters => child[j - 1] \notin Live /\ got[j] = Due(j)
        BY <1>1, <1>3, <1>5, <2>1, <3>1, <3>3 DEF DoneInv
      <4> QED  BY <1>1, <1>3, <1>5, <1>6, <3>1, <3>3, <4>1
    <3> QED  BY <3>2, <3>3
  <2> QED  BY <2>1 DEF DoneInv
<1>13. ASSUME NEW j \in Children, Fed(j)'
       PROVE  /\ Fed(j) /\ line'[j] = line[j]
              /\ Open(j)' => Open(j) /\ Source(j)' = Source(j)
              /\ Taken(j)' = Taken(j) /\ Put(j - 1)' = Put(j - 1)
              /\ Upstream(j)' => Upstream(j) /\ Sink(j - 1)' = Sink(j - 1)
  <2>1. j \in 2 .. Len(line) /\ j \in Nat /\ j - 1 \in Nat /\ j - 1 \in Children
    BY <1>1, <1>3, <1>13 DEF Fed
  <2>2. /\ Started(j)' <=> Started(j)
        /\ Started(j - 1)' <=> Started(j - 1)
    BY <1>9, <2>1
  <2>3. /\ Fed(j) /\ Source(j)' = Source(j) /\ Taken(j)' = Taken(j)
        /\ Upstream(j)' => Upstream(j) /\ Sink(j - 1)' = Sink(j - 1)
        /\ line'[j] = line[j] /\ (Open(j)' => Open(j))
    BY <1>1, <1>6, <1>13, <2>1, <2>2 DEF Fed, Source, Sink, Taken, Upstream, Open
  <2>4. Put(j - 1)' = Put(j - 1)
    <3>1. CASE j - 1 = i
      BY <1>1, <1>2, <1>5, <2>2, <3>1 DEF Put
    <3>2. CASE j - 1 # i
      BY <1>1, <1>5, <2>1, <2>2, <3>2 DEF Put
    <3> QED  BY <3>1, <3>2
  <2> QED  BY <2>3, <2>4
<1>14. LinkInv'
  BY <1>1, <1>3, <1>13, LinkStays
<1> QED  BY <1>7, <1>8, <1>10, <1>12, <1>14 DEF PipelineIInv

\* Exit() of a program.
LEMMA ProgramExitKeeps ==
    ASSUME PipelineIInv, NEW i \in Children, ProgramExit(i)
    PROVE  PipelineIInv'
<1>1. /\ child[i] \in Live /\ held[i] = 0
      /\ \/ child[i] = "run" /\ line[i] = "echo"
         \/ child[i] = "run" /\ line[i] = "copy" /\ AtEnd(i)
         \/ child[i] = "report"
      /\ held' = held /\ got' = got /\ content' = content
      /\ <<line, step, frag, savein, saveout, piperead, pipewrite>>'
            = <<line, step, frag, savein, saveout, piperead, pipewrite>>
      /\ child' = [child EXCEPT ![i] = "exited"]
      /\ table' = F!ExitFids(table, i)
  BY DEF ProgramExit, shellVars, Live
<1>2. /\ step \in {"pipe", "wait"} \cup Piping /\ Started(i)
      /\ i \in 1 .. Len(line)
  BY <1>1, LiveChild
<1>3. /\ LineTypes /\ RowInv /\ ChildInv /\ LinkInv /\ DoneInv /\ S!Sound(table, Idle)
      /\ Len(line) \in Nat
      /\ \A j \in Children : j \in Nat \ {0} /\ (j > 1 => j - 1 \in Children)
  BY <1>2, AtLine
<1>4. child \in [Children -> {"none", "exited"} \cup Live]
  BY <1>3 DEF LineTypes
<1>5. \A j \in Children : child'[j] = IF j = i THEN "exited" ELSE child[j]
  BY <1>1, <1>4
<1>6. S!Sound(table', Idle) /\ S!View(table') = S!With(V, i, S!NoneRow)
  BY <1>1, <1>3, ExitCall DEF V
<1>7. \A p \in {Shell} \cup Children : V'[p] = IF p = i THEN S!NoneRow ELSE V[p]
  BY <1>3, <1>6, LineTyped DEF S!With, S!ViewTables, V
<1>8. V'[Shell] = V[Shell] /\ \A j \in Children : V'[j] = IF j = i THEN S!NoneRow ELSE V[j]
  BY <1>7, ProcessRows
<1>9. LineTypes'
  <2>1. child' \in [Children -> {"none", "exited"} \cup Live]
    BY <1>1, <1>4
  <2> QED  BY <1>1, <1>3, <1>6, <2>1 DEF LineTypes
<1>10. RowInv'
  BY <1>1, <1>3, <1>8 DEF RowInv, LastFrag
<1>11. \A j \in Nat : Started(j)' <=> Started(j)
  BY <1>1 DEF Started
<1>12. ChildInv'
  <2>1. ASSUME NEW j \in Children
        PROVE  /\ ~ Started(j)' \/ (step' = "wait" /\ j < frag') => child'[j] = "none"
               /\ child'[j] \notin Live => V'[j] = S!NoneRow
               /\ child'[j] \in Live /\ j = Len(line') => V'[j][1] = Term
               /\ child'[j] = "report" => line'[j] = "count"
               /\ child'[j] = "run" /\ line'[j] = "count" => held'[j] = 0
    <3>1. Started(j)' <=> Started(j)
      BY <1>3, <1>11
    <3>2. ~ Started(j)' \/ (step' = "wait" /\ j < frag') => child[j] = "none" /\ j # i
      BY <1>1, <1>3, <3>1 DEF ChildInv, Live
    <3> QED  BY <1>1, <1>3, <1>5, <1>8, <3>2 DEF ChildInv, Live
  <2> QED  BY <2>1 DEF ChildInv
<1>13. i > 1 /\ line[i] \in Filters => child[i - 1] \notin Live /\ got[i] = Due(i)
  <2>1. CASE child[i] = "run"
    BY <1>1, <1>2, <2>1, EndIsDue DEF Filters
  <2>2. CASE child[i] # "run"
    BY <1>2, <1>3, <2>2 DEF DoneInv
  <2> QED  BY <2>1, <2>2
<1>14. DoneInv'
  <2>1. ASSUME NEW j \in Children, j <= Len(line'), Started(j)', child'[j] # "run"
        PROVE  /\ child'[j] \notin Live => held'[j] = 0
               /\ j > 1 /\ line'[j] \in Filters => child'[j - 1] \notin Live /\ got'[j] = Due(j)'
    <3>1. Started(j) /\ Due(j)' = Due(j)
      BY <1>1, <1>3, <1>11, <2>1 DEF Due
    <3>2. \A h \in Children : child[h] \notin Live => child'[h] \notin Live
      BY <1>5 DEF Live
    <3>3. CASE j = i
      BY <1>1, <1>3, <1>13, <3>1, <3>2, <3>3
    <3>4. CASE j # i
      BY <1>1, <1>3, <1>5, <2>1, <3>1, <3>2, <3>4 DEF DoneInv
    <3> QED  BY <3>3, <3>4
  <2> QED  BY <2>1 DEF DoneInv
<1>15. ASSUME NEW j \in Children, Fed(j)'
       PROVE  /\ Fed(j) /\ line'[j] = line[j]
              /\ Open(j)' => Open(j) /\ Source(j)' = Source(j)
              /\ Taken(j)' = Taken(j) /\ Put(j - 1)' = Put(j - 1)
              /\ Upstream(j)' => Upstream(j) /\ Sink(j - 1)' = Sink(j - 1)
  <2>1. j \in 2 .. Len(line) /\ j \in Nat /\ j - 1 \in Nat /\ j - 1 \in Children
    BY <1>1, <1>3, <1>15 DEF Fed
  <2>2. /\ Started(j)' <=> Started(j)
        /\ Started(j - 1)' <=> Started(j - 1)
    BY <1>11, <2>1
  <2>3. \A h \in Children : child'[h] \in Live => child[h] \in Live /\ h # i
    BY <1>1, <1>5 DEF Live
  <2>4. Fed(j)
    BY <1>1, <1>15, <2>1, <2>2, <2>3 DEF Fed
  <2>5. (Open(j)' => Open(j) /\ Source(j)' = Source(j)) /\ Taken(j)' = Taken(j)
    <3>1. Open(j)' => Open(j) /\ (Started(j) => j # i)
      BY <2>2, <2>3 DEF Open
    <3>2. Taken(j)' = Taken(j)
      BY <1>1, <2>2 DEF Taken
    <3>3. Started(j) /\ j # i => Source(j)' = Source(j)
      BY <1>8, <2>2 DEF Source
    <3>4. ~ Started(j) => Source(j)' = Source(j)
      BY <1>1, <1>8, <2>2 DEF Source
    <3> QED  BY <3>1, <3>2, <3>3, <3>4
  <2>6. Upstream(j)' => Upstream(j) /\ Sink(j - 1)' = Sink(j - 1)
    BY <1>1, <1>2, <1>5, <1>8, <2>1, <2>2 DEF Upstream, Open, Sink, Live
  <2>7. Put(j - 1)' = Put(j - 1)
    <3>1. CASE j - 1 = i
      <4>1. child[i] = "run" => line[i] \in {"echo", "copy"}
        BY <1>1
      <4>2. child'[i] = "exited" /\ child[i] \in {"run", "report"}
        BY <1>1, <1>5 DEF Live
      <4> QED  BY <1>1, <2>2, <3>1, <4>1, <4>2 DEF Put
    <3>2. CASE j - 1 # i
      <4>1. child'[j - 1] = child[j - 1]
        BY <1>5, <2>1, <3>2
      <4> QED  BY <1>1, <2>2, <4>1 DEF Put
    <3> QED  BY <3>1, <3>2
  <2>8. line'[j] = line[j]
    BY <1>1
  <2> QED  BY <2>4, <2>5, <2>6, <2>7, <2>8
<1>16. LinkInv'
  BY <1>1, <1>3, <1>15, LinkStays
<1> QED  BY <1>9, <1>10, <1>12, <1>14, <1>16 DEF PipelineIInv

-----------------------------------------------------------------------------
(* The theorems.                                                           *)

\* After boot_shell().
LEMMA PipelineInitial ==
    ASSUME PipelineInit
    PROVE  PipelineIInv
<1>1. /\ table = ShellTable /\ line = <<>> /\ step = "prompt" /\ frag = 1
      /\ child = [i \in Children |-> "none"]
      /\ held = [i \in Children |-> 0] /\ got = [i \in Children |-> 0]
      /\ content = [k \in S!Pipes |-> 0]
  BY SameData DEF PipelineInit
<1>2. LineTypes
  BY <1>1, ShellTableView DEF LineTypes, Saving
<1>3. \A p \in {Shell} \cup Children, f \in 0 .. 5 :
         V[p][f] = IF p = Shell /\ f \in {0, 1} THEN Term ELSE S!None
  BY <1>1, ShellTableView DEF V
<1>4. RowInv
  BY <1>1, <1>3, FilesConstants DEF RowInv, Saving, Piping
<1>5. \A i \in Children : ~ Started(i)
  BY <1>1, ProcessRows DEF Started
<1>6. ChildInv
  <2>1. ASSUME NEW i \in Children PROVE child[i] = "none" /\ V[i] = S!NoneRow
    <3>1. V[i] \in [0 .. 5 -> S!StreamSet \cup {S!None}]
      BY <1>2, LineTyped
    <3>2. \A f \in 0 .. 5 : V[i][f] = S!None
      BY <1>3, ProcessRows
    <3> QED  BY <1>1, <3>1, <3>2, FilesConstants DEF S!NoneRow
  <2> QED  BY <1>1, <2>1 DEF ChildInv, Live
<1>7. LinkInv
  <2>1. PICK K : K \in [Children -> S!Pipes]
    BY SomeLinks
  <2>2. \A i \in Children : ~ Fed(i)
    BY <1>1 DEF Fed, Piping
  <2>3. Linked(K)
    BY <2>1, <2>2 DEF Linked
  <2> QED  BY <2>3 DEF LinkInv
<1>8. DoneInv
  BY <1>5 DEF DoneInv
<1> QED  BY <1>2, <1>4, <1>6, <1>7, <1>8 DEF PipelineIInv

\* Every call keeps it.
LEMMA PipelineKeeps ==
    ASSUME PipelineIInv, [PipelineNext]_pipelineVars
    PROVE  PipelineIInv'
<1>1. CASE ReadLine
  BY <1>1, ReadLineKeeps
<1>2. CASE SaveInOpen \/ SaveInDup \/ SaveOutOpen \/ SaveOutDup
  BY <1>2, SaveInOpenKeeps, SaveInDupKeeps, SaveOutOpenKeeps, SaveOutDupKeeps
<1>3. CASE MakePipe \/ DupOut \/ CloseOut \/ Execute
  BY <1>3, MakePipeKeeps, DupOutKeeps, CloseOutKeeps, ExecuteKeeps
<1>4. CASE DupIn \/ CloseIn \/ Wait
  BY <1>4, DupInKeeps, CloseInKeeps, WaitKeeps
<1>5. ASSUME NEW i \in Children, ChildStep(i)
      PROVE  PipelineIInv'
  BY <1>5, ReadByteKeeps, WriteByteKeeps, ReportKeeps, ProgramExitKeeps DEF ChildStep
<1>6. CASE UNCHANGED pipelineVars
  <2>1. /\ table' = table /\ line' = line /\ lines' = lines /\ step' = step /\ frag' = frag
        /\ savein' = savein /\ saveout' = saveout /\ piperead' = piperead
        /\ pipewrite' = pipewrite /\ child' = child /\ held' = held /\ got' = got
        /\ content' = content
    BY <1>6 DEF pipelineVars, shellVars, childVars
  <2>2. V' = V /\ (LastFrag' <=> LastFrag)
    BY <2>1 DEF V, LastFrag
  <2>3. LineTypes' /\ RowInv'
    BY <2>1, <2>2 DEF PipelineIInv, LineTypes, RowInv
  <2>4. \A i : Started(i)' <=> Started(i)
    BY <2>1 DEF Started
  <2>5. ChildInv' /\ DoneInv'
    BY <2>1, <2>2, <2>4 DEF PipelineIInv, ChildInv, DoneInv, Due
  <2>6. \A i : /\ (Fed(i)' <=> Fed(i)) /\ (Open(i)' <=> Open(i))
               /\ Source(i)' = Source(i) /\ Sink(i)' = Sink(i)
               /\ Taken(i)' = Taken(i) /\ Put(i)' = Put(i)
    BY <2>1, <2>2, <2>4 DEF Fed, Open, Source, Sink, Taken, Put
  <2>7. LinkInv'
    BY <2>1, <2>6, LinkStays DEF PipelineIInv, Upstream
  <2> QED  BY <2>3, <2>5, <2>7 DEF PipelineIInv
<1> QED  BY <1>1, <1>2, <1>3, <1>4, <1>5, <1>6 DEF PipelineNext, ShellStep

\* The invariant holds for all lines and buffers: the shell's descriptors lead
\* where process_line() means them to, and bytes are on their way or arrived.
THEOREM PipelineIsSound ==
    PipelineInit /\ [][PipelineNext]_pipelineVars => []PipelineIInv
<1>1. PipelineInit => PipelineIInv
  BY PipelineInitial
<1>2. PipelineIInv /\ [PipelineNext]_pipelineVars => PipelineIInv'
  BY PipelineKeeps
<1> QED  BY <1>1, <1>2, PTL

\* process_line() leaks no descriptor and no pipe.
THEOREM LineIsRestored ==
    PipelineInit /\ [][PipelineNext]_pipelineVars => []ShellRestored
<1>1. ASSUME PipelineIInv PROVE ShellRestored
  <2>1. LineTypes /\ RowInv /\ ChildInv
    BY <1>1 DEF PipelineIInv
  <2>2. SUFFICES ASSUME step = "prompt"
                 PROVE  /\ \A p \in {Shell} \cup Children : \A f \in F!Fids :
                             IF p = Shell /\ f \in {0, 1}
                             THEN StreamOf(p, f) = F!Terminal(0)
                             ELSE table.FIDT[p][f] = F!NULL
                        /\ table.ends = {} /\ F!FilesSound
    BY DEF ShellRestored
  <2>3. \A i \in Children : V[i] = S!NoneRow
    <3>1. \A i \in Children : ~ Started(i)
      BY <2>1, <2>2, ProcessRows DEF LineTypes, Started, Saving
    <3> QED  BY <2>1, <3>1 DEF ChildInv, Live
  <2>4. \A p \in {Shell} \cup Children, f \in 0 .. 5 :
           V[p][f] = IF p = Shell /\ f \in {0, 1} THEN Term ELSE S!None
    <3>1. \A f \in 0 .. 5 : V[Shell][f] = IF f \in {0, 1} THEN Term ELSE S!None
      BY <2>1, <2>2 DEF RowInv, Saving, Piping
    <3> QED  BY <2>3, <3>1, ProcessRows
  <2>5. ASSUME NEW p \in {Shell} \cup Children, NEW f \in 0 .. 5
        PROVE  IF p = Shell /\ f \in {0, 1} THEN StreamOf(p, f) = F!Terminal(0)
                                             ELSE table.FIDT[p][f] = F!NULL
    <3>1. CASE p = Shell /\ f \in {0, 1}
      BY <2>1, <2>4, <3>1, FilesConstants, StreamOfView, SameData DEF Term
    <3>2. CASE ~ (p = Shell /\ f \in {0, 1})
      <4>1. V[p][f] = S!None
        BY <2>4, <3>2
      <4>2. S!Sound(table, Idle)
        BY <2>1 DEF LineTypes
      <4>3. table.FIDT[p][f] = S!NULL
        BY <4>1, <4>2, ViewFields DEF V
      <4> QED  BY <3>2, <4>3, SameData
    <3> QED  BY <3>1, <3>2
  <2>6. table.ends = {}
    <3>1. \A p \in {Shell} \cup Children : Idle[p] = S!NULL
      BY DEF Idle, S!NULL
    <3>2. \A e \in S!Ends : e \notin table.ends
      <4>1. SUFFICES ASSUME NEW e \in S!Ends, e \in table.ends PROVE FALSE
        OBVIOUS
      <4>2. S!Sound(table, Idle)
        BY <2>1 DEF LineTypes
      <4>3. PICK p \in {Shell} \cup Children, f \in 0 .. 5 : V[p][f] = e
        BY <3>1, <4>1, <4>2, FilesConstants, S!EndsView DEF V
      <4>4. e = Term \/ e = S!None
        BY <2>4, <4>3
      <4>5. S!None \notin S!Ends
        BY DEF S!Ends, S!None, S!Reader, S!Writer
      <4> QED  BY <4>1, <4>4, <4>5, FilesConstants
    <3>3. table.ends \subseteq S!Ends
      BY <2>1 DEF LineTypes, S!Sound, S!TableRecord
    <3> QED  BY <3>2, <3>3
  <2>7. F!FilesSound
    BY <2>1, FilesConstants, S!SoundIsFilesSound, SameFilesSound DEF LineTypes, Idle
  <2> QED  BY <2>5, <2>6, <2>7, FilesConstants, SameData
<1> QED  BY <1>1, PipelineIsSound, PTL

\* No byte is lost between two programs of a line, whatever their speed.
THEOREM BytesArrive ==
    PipelineInit /\ [][PipelineNext]_pipelineVars => []AllBytesArrive
<1>1. ASSUME PipelineIInv PROVE AllBytesArrive
  <2>1. SUFFICES ASSUME step = "wait", NEW i \in 2 .. Len(line), child[i] = "exited",
                        line[i] \in Filters
                 PROVE  got[i] = Due(i)
    BY DEF AllBytesArrive, Due
  <2>2. DoneInv /\ i \in Children /\ i \in Nat /\ Len(line) \in Nat
    BY <1>1, <2>1, AtLine, ProcessRows, FilesConstants
  <2>3. Started(i) /\ i <= Len(line) /\ i > 1
    BY <2>1, <2>2 DEF Started
  <2> QED  BY <2>1, <2>2, <2>3 DEF DoneInv
<1> QED  BY <1>1, PipelineIsSound, PTL

=============================================================================
