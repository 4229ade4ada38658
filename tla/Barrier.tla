------------------------------ MODULE Barrier ------------------------------
(***************************************************************************)
(* BarrierSync() of tinyoslib.c, used the way test_cyclic_joins of         *)
(* validate_api.c does: some threads and the main thread meet at the       *)
(* barrier; then each thread joins the next one, round a cycle, until the  *)
(* main thread detaches thread 0.  Before that the barrier is used several *)
(* times over (Rounds; the test itself has 1).                             *)
(***************************************************************************)
EXTENDS Integers, FiniteSets

CONSTANTS Joiners,       \* number of threads in the cycle, N in the test
          Rounds         \* bound on how often the barrier is used

ASSUME BarrierAssumption == {Joiners, Rounds} \subseteq Nat \ {0}

Main == Joiners
Parties == 0 .. Joiners

VARIABLES
    epoch, count,    \* of the barrier
    mine,            \* the local copy of epoch of a thread in BarrierSync()
    bpc,             \* "off", "out", "asleep", "woken", "join", "exited"
    entered, left,   \* calls of BarrierSync() begun and ended
    detached0

barrierVars == <<epoch, count, mine, bpc, entered, left, detached0>>

BarrierInit ==
    /\ epoch = 0 /\ count = 0
    /\ mine = [t \in Parties |-> 0]
    /\ bpc = [t \in Parties |-> "off"]
    /\ entered = [t \in Parties |-> 0]
    /\ left = [t \in Parties |-> 0]
    /\ detached0 = FALSE

\* cyclic_joins_main_thread() makes the threads.
BarrierStart ==
    /\ \A t \in Parties : bpc[t] = "off"
    /\ bpc' = [t \in Parties |-> "out"]
    /\ UNCHANGED <<epoch, count, mine, entered, left, detached0>>

-----------------------------------------------------------------------------

\* After BarrierSync(): the next round, or the join.
Onward(t) == IF left'[t] < Rounds THEN "out" ELSE "join"

\* Faulty variant: the last one to come does not start a new epoch.
SyncNoEpoch(t) ==
    LET last == count + 1 = Joiners + 1 IN
    /\ bpc[t] = "out"
    /\ mine' = [mine EXCEPT ![t] = epoch]
    /\ entered' = [entered EXCEPT ![t] = @ + 1]
    /\ count' = IF last THEN 0 ELSE count + 1
    /\ left' = IF last THEN [left EXCEPT ![t] = @ + 1] ELSE left
    /\ bpc' = [u \in Parties |-> IF u = t THEN (IF last THEN Onward(t) ELSE "asleep")
                                 ELSE IF last /\ bpc[u] = "asleep" THEN "woken" ELSE bpc[u]]
    /\ UNCHANGED <<epoch, detached0>>

\* Faulty variant: count is not set back.
SyncNoReset(t) ==
    LET last == count + 1 = Joiners + 1 IN
    /\ bpc[t] = "out"
    /\ mine' = [mine EXCEPT ![t] = epoch]
    /\ entered' = [entered EXCEPT ![t] = @ + 1]
    /\ count' = count + 1
    /\ epoch' = IF last THEN epoch + 1 ELSE epoch
    /\ left' = IF last THEN [left EXCEPT ![t] = @ + 1] ELSE left
    /\ bpc' = [u \in Parties |-> IF u = t THEN (IF last THEN Onward(t) ELSE "asleep")
                                 ELSE IF last /\ bpc[u] = "asleep" THEN "woken" ELSE bpc[u]]
    /\ UNCHANGED detached0

\* BarrierSync() up to Cond_Wait(), all under the mutex.  The last one to
\* come starts a new epoch, wakes the others and does not wait.
Sync(t) ==
    LET last == count + 1 = Joiners + 1 IN
    /\ bpc[t] = "out"
    /\ mine' = [mine EXCEPT ![t] = epoch]
    /\ entered' = [entered EXCEPT ![t] = @ + 1]
    /\ count' = IF last THEN 0 ELSE count + 1
    /\ epoch' = IF last THEN epoch + 1 ELSE epoch
    /\ left' = IF last THEN [left EXCEPT ![t] = @ + 1] ELSE left
    /\ bpc' = [u \in Parties |-> IF u = t THEN (IF last THEN Onward(t) ELSE "asleep")
                                 ELSE IF last /\ bpc[u] = "asleep" THEN "woken" ELSE bpc[u]]
    /\ UNCHANGED detached0

\* The return of Cond_Wait(): while(epoch == bar->epoch).
SyncResume(t) ==
    /\ bpc[t] = "woken"
    /\ IF mine[t] = epoch
       THEN UNCHANGED left /\ bpc' = [bpc EXCEPT ![t] = "asleep"]
       ELSE /\ left' = [left EXCEPT ![t] = @ + 1]
            /\ bpc' = [bpc EXCEPT ![t] = Onward(t)]
    /\ UNCHANGED <<epoch, count, mine, entered, detached0>>

\* ThreadJoin() of the next thread of the cycle returns when that one has
\* exited or is detached; cyclic_joins_join_thread() ends.
JoinNext(t) ==
    LET u == (t + 1) % Joiners IN
    /\ t # Main /\ bpc[t] = "join"
    /\ bpc[u] = "exited" \/ (u = 0 /\ detached0)
    /\ bpc' = [bpc EXCEPT ![t] = "exited"]
    /\ UNCHANGED <<epoch, count, mine, entered, left, detached0>>

\* The main thread detaches thread 0 and ends.
Detach ==
    /\ bpc[Main] = "join"
    /\ detached0' = TRUE
    /\ bpc' = [bpc EXCEPT ![Main] = "exited"]
    /\ UNCHANGED <<epoch, count, mine, entered, left>>

PartyStep(t) == Sync(t) \/ SyncResume(t) \/ JoinNext(t) \/ (t = Main /\ Detach)

BarrierNext == BarrierStart \/ \E t \in Parties : PartyStep(t)

BarrierFairness == \A t \in Parties : WF_barrierVars(PartyStep(t))

BarrierSpec == BarrierInit /\ [][BarrierNext]_barrierVars /\ BarrierFairness

-----------------------------------------------------------------------------
(* Properties.                                                             *)

(* Nobody gets past the barrier for the k-th time before everyone has come *)
(* to it for the k-th time, although fast threads come back while slow     *)
(* ones have not yet left; and count < n holds for whoever comes.          *)
BarrierHolds ==
    /\ \A t, u \in Parties : left[t] <= entered[u]
    /\ count <= Joiners

(* All threads get through the barrier every time, and the cycle of joins  *)
(* ends once thread 0 is detached.                                         *)
BarrierPasses ==
    []<>(\A t \in Parties : bpc[t] \in {"off", "exited"})
=============================================================================
