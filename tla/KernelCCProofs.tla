--------------------------- MODULE KernelCCProofs ---------------------------
(***************************************************************************)
(* Proofs about KernelCC, for every set of threads and of condition        *)
(* variables: the invariants of the semaphore and of the rings, and that   *)
(* they implement Monitor.  And about Rings, for every number of nodes:    *)
(* that the pointers of util.h, of which those rings are made, are the     *)
(* sequences that every other module takes a list for.                     *)
(***************************************************************************)
EXTENDS KernelCC, Rings, FiniteSetTheorems, WellFoundedInduction, TLAPS

-----------------------------------------------------------------------------
(* The inductive invariant.                                                *)

InWait == {"release", "doze", "asleep"}
InSignal == {"pop", "wake", "mark"}

\* What a thread at each position has called, and for what.
OpInv == \A t \in Threads :
    /\ pc[t] \in {"in", "out", "exited"} => op[t] = "none" /\ cv[t] = kernel_sem_cv
    /\ pc[t] \in {"mutex", "test", "enqueue", "release", "doze", "asleep"} =>
          /\ op[t] \in {"none", "wait", "timedwait"}
          /\ cv[t] \in CVs => op[t] \in {"wait", "timedwait"}
    /\ pc[t] = "post" => op[t] \in {"unlock", "exit", "wait", "timedwait"}
    /\ pc[t] \in {"signal", "pop", "wake", "mark"} => op[t] # "none"
    /\ pc[t] \in {"post", "signal", "pop", "wake", "mark"} =>
          (cv[t] \in CVs <=> op[t] \notin {"unlock", "exit"})

\* Who holds kernel_mutex and the waitset_locks.
MutexInv == \A t \in Threads :
    /\ pc[t] \in {"test", "enqueue", "release"} => kernel_mutex = t
    /\ pc[t] \in {"signal", "pop", "wake", "mark"}
          /\ op[t] \notin {"signal", "broadcast"} => kernel_mutex = t
    /\ pc[t] \in {"release", "doze"} => waitset_lock[cv[t]] = t
    /\ pc[t] \in InSignal => waitset_lock[Signalled(t)] = t

\* A thread that found the semaphore taken holds kernel_mutex until it is in
\* the ring, so that the semaphore is still taken.
SemInv ==
    /\ KernelExclusion
    /\ \A t \in Threads :
          pc[t] \in {"enqueue", "release"} /\ cv[t] = kernel_sem_cv => kernel_sem = 0

\* A thread is stopped only in cv_wait(); then it is in the ring, or about to
\* be woken up by the thread that took it out.
StopInv == \A t \in Threads : state[t] = "STOPPED" =>
    /\ pc[t] = "asleep"
    /\ ~ signalled[t]
    /\ \/ ~ removed[t]
       \/ \E u \in Threads : pc[u] = "wake" /\ waiter[u] = t

\* The rings hold the waiters that were not removed.
RingInv ==
    /\ \A c \in AllCVs : /\ Distinct(waitset[c])
                         /\ \A t \in Members(waitset[c]) : cv[t] = c /\ pc[t] \in InWait
    /\ \A t \in Threads : pc[t] \in InWait =>
          /\ removed[t] <=> t \notin Members(waitset[cv[t]])
          /\ ~ removed[t] => ~ signalled[t]
          /\ pc[t] # "asleep" => ~ removed[t]

\* What a thread in cv_signal() has in its hands.
WaiterInv == \A t \in Threads : pc[t] \in {"wake", "mark"} =>
    LET w == waiter[t]
    IN  /\ w \in Threads /\ pc[w] = "asleep"
        /\ cv[w] = Signalled(t) /\ removed[w]
        /\ pc[t] = "mark" => state[w] = "RUNNING"

\* A thread woken up finds out what woke it from signalled, once the thread
\* that woke it has set that.
Marking(t) == \E u \in Threads : pc[u] = "mark" /\ waiter[u] = t

CauseInv == \A t \in Threads :
    CASE cv[t] \in CVs /\ pc[t] = "asleep" /\ state[t] = "RUNNING" ->
            cause[t] = "signal" <=> signalled[t] \/ Marking(t)
      [] cv[t] \in CVs /\ pc[t] = "mutex" -> cause[t] = "signal" <=> signalled[t]
      [] OTHER -> cause[t] = "signal" <=> ret[t]

\* Somebody is on the way to take the semaphore or to signal that it is free.
Coming(t) ==
    \/ pc[t] \in {"signal", "pop", "wake", "mark"} /\ Signalled(t) = kernel_sem_cv
    \/ pc[t] \in {"mutex", "test"}
    \/ pc[t] = "asleep" /\ state[t] = "RUNNING"

NotLostInv ==
    kernel_sem > 0
    /\ (\E t \in Threads : cv[t] = kernel_sem_cv
                           /\ (state[t] = "STOPPED" \/ pc[t] = "doze"))
    => \E t \in Threads : Coming(t)

IInv == /\ TypeOK /\ OpInv /\ MutexInv /\ SemInv /\ StopInv
        /\ RingInv /\ WaiterInv /\ CauseInv /\ NotLostInv

-----------------------------------------------------------------------------
(* Facts used in several places.                                           *)

\* What putting a thread in a ring and taking it out do to the ring.
LEMMA RingFacts ==
    ASSUME IInv
    PROVE  /\ \A c \in AllCVs : /\ waitset[c] \in Seq(Threads)
                                 /\ Members(waitset[c]) \subseteq Threads
           /\ \A t \in Threads : cv[t] \in AllCVs /\ Signalled(t) \in AllCVs
<1>1. \A c \in AllCVs : waitset[c] \in Seq(Threads)
  BY DEF IInv, TypeOK
<1>2. \A c \in AllCVs : Members(waitset[c]) \subseteq Threads
  BY <1>1 DEF Members
<1>3. \A t \in Threads : cv[t] \in AllCVs /\ Signalled(t) \in AllCVs
  BY DEF IInv, TypeOK, Signalled, AllCVs
<1> QED  BY <1>1, <1>2, <1>3

\* At most one thread at a time is in cv_signal() on a condition variable.
LEMMA LoneSignaller ==
    ASSUME IInv, NEW t \in Threads, NEW u \in Threads,
           pc[t] \in InSignal, pc[u] \in InSignal, Signalled(t) = Signalled(u)
    PROVE  t = u
  BY DEF IInv, MutexInv

\* A thread holds the semaphore that is taken, and nobody else does.
LEMMA InsideFacts ==
    ASSUME IInv, NEW t \in Threads, Inside(t)
    PROVE  kernel_sem = 0 /\ \A u \in Threads : Inside(u) => u = t
  BY DEF IInv, SemInv, KernelExclusion

-----------------------------------------------------------------------------
(* The steps of a thread preserve the invariant.                           *)

\* A thread wants to enter the kernel.
LEMMA kernel_lockKeeps == ASSUME IInv, NEW t \in Threads, kernel_lock(t) PROVE IInv'
<1> USE CCAssumption DEF IInv, TypeOK, AllCVs, lockVars, waitVars, kernel_lock, Goto
<1>1. TypeOK'
  BY SMT
<1>2. OpInv'
  BY DEF OpInv
<1>3. MutexInv'
  BY DEF MutexInv, Signalled, InSignal, OpInv
<1>4. SemInv'
  BY DEF SemInv, KernelExclusion, Inside, MutexInv, OpInv
<1>5. StopInv'
  BY DEF StopInv, MutexInv, WaiterInv, Signalled, InSignal, RingInv, InWait
<1>6. RingInv'
  BY DEF RingInv, InWait, MutexInv, StopInv, WaiterInv
<1>7. WaiterInv'
  BY DEF WaiterInv, MutexInv, InSignal, Signalled, OpInv, StopInv, RingInv,
     InWait
<1>8. CauseInv'
  BY DEF CauseInv, Marking, OpInv, WaiterInv, StopInv, MutexInv, InSignal,
     Signalled
<1>9. NotLostInv'
  BY DEF NotLostInv, Coming, SemInv, MutexInv, InSignal, Signalled, OpInv,
     StopInv, RingInv, WaiterInv
<1> QED  BY <1>1, <1>2, <1>3, <1>4, <1>5, <1>6, <1>7, <1>8, <1>9

\* A thread in the kernel begins one of the calls.
LEMMA CallKeeps ==
    ASSUME IInv, NEW t \in Threads, NEW call, NEW c, NEW label, Call(t, call, c, label),
           \/ call \in {"unlock", "exit"} /\ c = kernel_sem_cv /\ label = "post"
           \/ call \in {"wait", "timedwait"} /\ c \in CVs /\ label = "post"
           \/ call \in {"signal", "broadcast"} /\ c \in CVs /\ label = "signal"
    PROVE  IInv'
<1> USE CCAssumption DEF IInv, TypeOK, AllCVs, lockVars, waitVars, Call, Goto
<1>1. TypeOK'
  BY SMT
<1>2. OpInv'
  BY DEF OpInv
<1>3. MutexInv'
  BY DEF MutexInv, Signalled, InSignal, OpInv
<1>4. SemInv'
  BY DEF SemInv, KernelExclusion, Inside, MutexInv, OpInv
<1>5. StopInv'
  BY DEF StopInv, MutexInv, WaiterInv, Signalled, InSignal, RingInv, InWait
<1>6. RingInv'
  BY DEF RingInv, InWait, MutexInv, StopInv, WaiterInv
<1>7. WaiterInv'
  BY DEF WaiterInv, MutexInv, InSignal, Signalled, OpInv, StopInv, RingInv,
     InWait
<1>8. CauseInv'
  BY DEF CauseInv, Marking, OpInv, WaiterInv, StopInv, MutexInv, InSignal,
     Signalled
<1>9. NotLostInv'
  BY DEF NotLostInv, Coming, SemInv, MutexInv, InSignal, Signalled, OpInv,
     StopInv, RingInv, WaiterInv
<1> QED  BY <1>1, <1>2, <1>3, <1>4, <1>5, <1>6, <1>7, <1>8, <1>9

\* Only kernel_mutex and the result of the wait change hands.
LEMMA LockMutexKeeps == ASSUME IInv, NEW t \in Threads, LockMutex(t) PROVE IInv'
<1> USE CCAssumption DEF IInv, TypeOK, AllCVs, lockVars, waitVars, LockMutex, Goto
<1>1. TypeOK'
  BY SMT
<1>2. OpInv'
  BY DEF OpInv
<1>3. MutexInv'
  BY DEF MutexInv, Signalled, InSignal, OpInv
<1>4. SemInv'
  BY DEF SemInv, KernelExclusion, Inside, MutexInv, OpInv
<1>5. StopInv'
  BY DEF StopInv, MutexInv, WaiterInv, Signalled, InSignal, RingInv, InWait
<1>6. RingInv'
  BY DEF RingInv, InWait, MutexInv, StopInv, WaiterInv
<1>7. WaiterInv'
  BY DEF WaiterInv, MutexInv, InSignal, Signalled, OpInv, StopInv, RingInv,
     InWait
<1>8. CauseInv'
  BY DEF CauseInv, Marking, OpInv, WaiterInv, StopInv, MutexInv, InSignal,
     Signalled
<1>9. NotLostInv'
  BY DEF NotLostInv, Coming, SemInv, MutexInv, InSignal, Signalled, OpInv,
     StopInv, RingInv, WaiterInv
<1> QED  BY <1>1, <1>2, <1>3, <1>4, <1>5, <1>6, <1>7, <1>8, <1>9

\* The thread takes the semaphore, or is on its way into the ring.
LEMMA SemTestKeeps == ASSUME IInv, NEW t \in Threads, SemTest(t) PROVE IInv'
<1> USE CCAssumption DEF IInv, TypeOK, AllCVs, lockVars, waitVars, SemTest, Goto
<1>1. TypeOK'
  BY SMT
<1>2. OpInv'
  BY DEF OpInv
<1>3. MutexInv'
  BY DEF MutexInv, Signalled, InSignal, OpInv
<1>4. SemInv'
  BY SMTT(30) DEF SemInv, KernelExclusion, Inside, MutexInv, OpInv
<1>5. StopInv'
  BY DEF StopInv, MutexInv, WaiterInv, Signalled, InSignal, RingInv, InWait
<1>6. RingInv'
  BY RingFacts DEF RingInv, InWait, MutexInv, StopInv, WaiterInv
<1>7. WaiterInv'
  BY DEF WaiterInv, MutexInv, InSignal, Signalled, OpInv, StopInv, RingInv,
     InWait
<1>8. CauseInv'
  BY DEF CauseInv, Marking, OpInv, WaiterInv, StopInv, MutexInv, InSignal,
     Signalled
<1>9. NotLostInv'
  BY DEF NotLostInv, Coming, SemInv, MutexInv, InSignal, Signalled, OpInv,
     StopInv, RingInv, WaiterInv
<1> QED  BY <1>1, <1>2, <1>3, <1>4, <1>5, <1>6, <1>7, <1>8, <1>9

\* The semaphore is free, and this thread is about to tell so.
LEMMA PostKeeps == ASSUME IInv, NEW t \in Threads, Post(t) PROVE IInv'
<1> USE CCAssumption DEF IInv, TypeOK, AllCVs, lockVars, waitVars, Post, Goto
<1>1. TypeOK'
  <2>1. kernel_sem = 0
    BY InsideFacts DEF Inside
  <2> QED  BY <2>1
<1>2. OpInv'
  BY DEF OpInv
<1>3. MutexInv'
  BY DEF MutexInv, Signalled, InSignal, OpInv
<1>4. SemInv'
  BY DEF SemInv, KernelExclusion, Inside, MutexInv, OpInv
<1>5. StopInv'
  BY DEF StopInv, MutexInv, WaiterInv, Signalled, InSignal, RingInv, InWait
<1>6. RingInv'
  BY DEF RingInv, InWait, MutexInv, StopInv, WaiterInv
<1>7. WaiterInv'
  BY DEF WaiterInv, MutexInv, InSignal, Signalled, OpInv, StopInv, RingInv,
     InWait
<1>8. CauseInv'
  BY DEF CauseInv, Marking, OpInv, WaiterInv, StopInv, MutexInv, InSignal,
     Signalled
<1>9. NotLostInv'
  <2>1. Signalled(t)' = kernel_sem_cv
    BY DEF Signalled, OpInv
  <2> QED  BY <2>1 DEF NotLostInv, Coming
<1> QED  BY <1>1, <1>2, <1>3, <1>4, <1>5, <1>6, <1>7, <1>8, <1>9

\* The waiter joins the ring.
LEMMA EnqueueKeeps == ASSUME IInv, NEW t \in Threads, Enqueue(t) PROVE IInv'
<1> USE CCAssumption DEF IInv, TypeOK, AllCVs, lockVars, waitVars, Enqueue, Goto
<1>1. TypeOK'
  BY SMT
<1>2. OpInv'
  BY DEF OpInv
<1>3. MutexInv'
  BY DEF MutexInv, Signalled, InSignal, OpInv
<1>4. SemInv'
  BY DEF SemInv, KernelExclusion, Inside, MutexInv, OpInv
<1>5. StopInv'
  BY DEF StopInv, MutexInv, WaiterInv, Signalled, InSignal, RingInv, InWait
<1>6. RingInv'
  <2> DEFINE c == cv[t]
  <2>1. /\ waitset[c] \in Seq(Threads) /\ c \in AllCVs
        /\ t \notin Members(waitset[c]) /\ Distinct(waitset[c])
    BY RingFacts DEF RingInv, InWait
  <2>2. /\ waitset'[c] = Append(waitset[c], t)
        /\ \A d \in AllCVs : d # c => waitset'[d] = waitset[d]
        /\ cv' = cv
    BY <2>1
  <2> HIDE DEF c
  <2>3. /\ Members(Append(waitset[c], t)) = Members(waitset[c]) \cup {t}
        /\ Distinct(Append(waitset[c], t))
    BY <2>1, AppendMembers
  <2>4. ASSUME NEW d \in AllCVs, NEW u \in Members(waitset'[d])
        PROVE  cv'[u] = d /\ pc'[u] \in InWait
    <3>1. (u = t /\ d = c) \/ u \in Members(waitset[d])
      BY <2>2, <2>3, <2>4
    <3>2. u \in Members(waitset[d]) => u \in Threads /\ cv[u] = d /\ pc[u] \in InWait
      BY RingFacts DEF RingInv
    <3> QED  BY <2>2, <3>1, <3>2 DEF InWait, c
  <2>5. ASSUME NEW u \in Threads, pc'[u] \in InWait
        PROVE  /\ removed'[u] <=> u \notin Members(waitset'[cv'[u]])
               /\ ~ removed'[u] => ~ signalled'[u]
               /\ pc'[u] # "asleep" => ~ removed'[u]
    <3>1. CASE u = t
      <4>1. ~ removed'[t] /\ ~ signalled'[t] /\ cv'[t] = c
        BY <2>2 DEF c
      <4>2. t \in Members(waitset'[c])
        BY <2>2, <2>3
      <4> QED  BY <3>1, <4>1, <4>2
    <3>2. CASE u # t
      <4>1. pc[u] \in InWait /\ pc'[u] = pc[u] /\ cv[u] \in AllCVs
        BY <2>5, <3>2, RingFacts DEF InWait
      <4>2. u \in Members(waitset'[cv[u]]) <=> u \in Members(waitset[cv[u]])
        BY <2>2, <2>3, <3>2, <4>1
      <4> QED  BY <3>2, <4>1, <4>2 DEF RingInv
    <3> QED  BY <3>1, <3>2
  <2>6. \A d \in AllCVs : Distinct(waitset'[d])
    BY <2>2, <2>3 DEF RingInv
  <2> QED  BY <2>4, <2>5, <2>6 DEF RingInv
<1>7. WaiterInv'
  BY DEF WaiterInv, MutexInv, InSignal, Signalled, OpInv, StopInv, RingInv,
     InWait
<1>8. CauseInv'
  BY DEF CauseInv, Marking, OpInv, WaiterInv, StopInv, MutexInv, InSignal,
     Signalled
<1>9. NotLostInv'
  BY DEF NotLostInv, Coming, SemInv, MutexInv, InSignal, Signalled, OpInv,
     StopInv, RingInv, WaiterInv
<1> QED  BY <1>1, <1>2, <1>3, <1>4, <1>5, <1>6, <1>7, <1>8, <1>9

\* kernel_mutex is free again, the waiter stays in the ring.
LEMMA ReleaseKeeps == ASSUME IInv, NEW t \in Threads, Release(t) PROVE IInv'
<1> USE CCAssumption DEF IInv, TypeOK, AllCVs, lockVars, waitVars, Release, Goto
<1>1. TypeOK'
  BY SMT
<1>2. OpInv'
  BY DEF OpInv
<1>3. MutexInv'
  BY DEF MutexInv, Signalled, InSignal, OpInv
<1>4. SemInv'
  BY DEF SemInv, KernelExclusion, Inside, MutexInv, OpInv
<1>5. StopInv'
  BY DEF StopInv, MutexInv, WaiterInv, Signalled, InSignal, RingInv, InWait
<1>6. RingInv'
  BY DEF RingInv, InWait, MutexInv, StopInv, WaiterInv
<1>7. WaiterInv'
  BY DEF WaiterInv, MutexInv, InSignal, Signalled, OpInv, StopInv, RingInv,
     InWait
<1>8. CauseInv'
  BY DEF CauseInv, Marking, OpInv, WaiterInv, StopInv, MutexInv, InSignal,
     Signalled
<1>9. NotLostInv'
  BY DEF NotLostInv, Coming, SemInv, MutexInv, InSignal, Signalled, OpInv,
     StopInv, RingInv, WaiterInv
<1> QED  BY <1>1, <1>2, <1>3, <1>4, <1>5, <1>6, <1>7, <1>8, <1>9

\* The thread stops; its waiter is still in the ring.
LEMMA sleep_releasingKeeps == ASSUME IInv, NEW t \in Threads, sleep_releasing(t) PROVE IInv'
<1> USE CCAssumption DEF IInv, TypeOK, AllCVs, lockVars, waitVars, sleep_releasing, Goto
<1>1. TypeOK'
  BY SMT
<1>2. OpInv'
  BY DEF OpInv
<1>3. MutexInv'
  BY DEF MutexInv, Signalled, InSignal, OpInv
<1>4. SemInv'
  BY DEF SemInv, KernelExclusion, Inside, MutexInv, OpInv
<1>5. StopInv'
  BY RingFacts DEF StopInv, MutexInv, WaiterInv, Signalled, InSignal, RingInv,
     InWait
<1>6. RingInv'
  BY DEF RingInv, InWait, MutexInv, StopInv, WaiterInv
<1>7. WaiterInv'
  BY DEF WaiterInv, MutexInv, InSignal, Signalled, OpInv, StopInv, RingInv,
     InWait
<1>8. CauseInv'
  BY DEF CauseInv, Marking, OpInv, WaiterInv, StopInv, MutexInv, InSignal,
     Signalled
<1>9. NotLostInv'
  BY DEF NotLostInv, Coming, SemInv, MutexInv, InSignal, Signalled, OpInv,
     StopInv, RingInv, WaiterInv
<1> QED  BY <1>1, <1>2, <1>3, <1>4, <1>5, <1>6, <1>7, <1>8, <1>9

\* The timer wakes a thread up: no signal did, and none will.
LEMMA TimeoutKeeps == ASSUME IInv, NEW t \in Threads, Timeout(t) PROVE IInv'
<1> USE CCAssumption DEF IInv, TypeOK, AllCVs, lockVars, waitVars, Timeout
<1>1. TypeOK'
  BY SMT
<1>2. OpInv'
  BY DEF OpInv
<1>3. MutexInv'
  BY DEF MutexInv, Signalled, InSignal, OpInv
<1>4. SemInv'
  BY DEF SemInv, KernelExclusion, Inside, MutexInv, OpInv
<1>5. StopInv'
  BY DEF StopInv, MutexInv, WaiterInv, Signalled, InSignal, RingInv, InWait
<1>6. RingInv'
  BY DEF RingInv, InWait, MutexInv, StopInv, WaiterInv
<1>7. WaiterInv'
  BY DEF WaiterInv, MutexInv, InSignal, Signalled, OpInv, StopInv, RingInv,
     InWait
<1>8. CauseInv'
  BY DEF CauseInv, Marking, OpInv, WaiterInv, StopInv, MutexInv, InSignal,
     Signalled
<1>9. NotLostInv'
  BY DEF NotLostInv, Coming, SemInv, MutexInv, InSignal, Signalled, OpInv,
     StopInv, RingInv, WaiterInv
<1> QED  BY <1>1, <1>2, <1>3, <1>4, <1>5, <1>6, <1>7, <1>8, <1>9

\* The waiter leaves the ring, unless cv_signal() took it out.
LEMMA TidyKeeps == ASSUME IInv, NEW t \in Threads, Tidy(t) PROVE IInv'
<1> USE CCAssumption DEF IInv, TypeOK, AllCVs, lockVars, waitVars, Tidy, Goto
<1>0. /\ \A c \in AllCVs : /\ waitset'[c] \in Seq(Threads)
                           /\ Distinct(waitset'[c])
                           /\ Members(waitset'[c]) =
                                 Members(waitset[c]) \ (IF c = cv[t] THEN {t} ELSE {})
      /\ waitset' \in [AllCVs -> Seq(Threads)]
  <2> DEFINE s == waitset[cv[t]]
  <2>1. /\ cv[t] \in AllCVs /\ s \in Seq(Threads) /\ Distinct(s)
        /\ removed[t] <=> t \notin Members(s)
    BY RingFacts DEF RingInv, InWait
  <2> HIDE DEF s
  <2>2. CASE removed[t]
    <3>1. waitset' = waitset /\ t \notin Members(s)
      BY <2>1, <2>2
    <3> QED  BY <3>1, RingFacts DEF RingInv, s
  <2>3. CASE ~ removed[t]
    <3>1. Position(t) \in 1 .. Len(s) /\ s[Position(t)] = t
      BY <2>1, <2>3 DEF Position, Members, s
    <3>2. /\ waitset'[cv[t]] = RemoveNth(s, Position(t))
          /\ \A c \in AllCVs : c # cv[t] => waitset'[c] = waitset[c]
          /\ DOMAIN waitset' = AllCVs
          /\ waitset' = [c \in AllCVs |-> waitset'[c]]
      BY <2>1, <2>3 DEF s
    <3>3. /\ waitset'[cv[t]] \in Seq(Threads)
          /\ Members(waitset'[cv[t]]) = Members(s) \ {t}
          /\ Distinct(waitset'[cv[t]])
      <4>1. /\ RemoveNth(s, Position(t)) \in Seq(Threads)
            /\ Members(RemoveNth(s, Position(t))) = Members(s) \ {s[Position(t)]}
            /\ Distinct(RemoveNth(s, Position(t)))
        BY <2>1, <3>1, RemoveMembers
      <4> QED  BY <3>1, <3>2, <4>1
    <3>4. ASSUME NEW c \in AllCVs, c # cv[t]
          PROVE  /\ waitset'[c] \in Seq(Threads)
                 /\ Distinct(waitset'[c])
                 /\ Members(waitset'[c]) = Members(waitset[c])
      BY <3>2, <3>4, RingFacts DEF RingInv
    <3> QED  BY <3>2, <3>3, <3>4 DEF s
  <2> QED  BY <2>2, <2>3
<1>1. TypeOK'
  BY <1>0
<1>2. OpInv'
  BY DEF OpInv
<1>3. MutexInv'
  BY DEF MutexInv, Signalled, InSignal, OpInv
<1>4. SemInv'
  BY DEF SemInv, KernelExclusion, Inside, MutexInv, OpInv
<1>5. StopInv'
  BY DEF StopInv, MutexInv, WaiterInv, Signalled, InSignal, RingInv, InWait
<1>6. RingInv'
  <2>1. ASSUME NEW d \in AllCVs,
      NEW u \in Members(waitset'[d])
        PROVE  cv'[u] = d /\ pc'[u] \in InWait
    <3>1. u \in Threads /\ cv[u] = d /\ pc[u] \in InWait /\ (d = cv[t] => u # t)
      <4>0. Members(waitset'[d]) = Members(waitset[d]) \ (IF d = cv[t] THEN {t} ELSE {})
        BY <1>0
      <4> HIDE DEF Tidy, TypeOK
      <4>1. u \in Members(waitset[d]) /\ (d = cv[t] => u # t)
        BY <2>1, <4>0
      <4> QED  BY <4>1, RingFacts DEF RingInv
    <3> QED  BY <3>1 DEF InWait
  <2>2. ASSUME NEW u \in Threads, pc'[u] \in InWait
        PROVE  /\ removed'[u] <=> u \notin Members(waitset'[cv'[u]])
               /\ ~ removed'[u] => ~ signalled'[u]
               /\ pc'[u] # "asleep" => ~ removed'[u]
    <3>1. u # t /\ pc[u] \in InWait /\ pc'[u] = pc[u] /\ cv'[u] = cv[u] /\ cv[u] \in AllCVs
      BY <2>2, RingFacts DEF InWait
    <3>2. u \in Members(waitset'[cv[u]]) <=> u \in Members(waitset[cv[u]])
      BY ZenonT(40), <1>0, <3>1
    <3> QED  BY <3>1, <3>2 DEF RingInv
  <2> QED  BY <1>0, <2>1, <2>2 DEF RingInv
<1>7. WaiterInv'
  BY DEF WaiterInv, MutexInv, InSignal, Signalled, OpInv, StopInv, RingInv,
     InWait
<1>8. CauseInv'
  BY DEF CauseInv, Marking, OpInv, WaiterInv, StopInv, MutexInv, InSignal,
     Signalled
<1>9. NotLostInv'
  BY DEF NotLostInv, Coming, SemInv, MutexInv, InSignal, Signalled, OpInv,
     StopInv, RingInv, WaiterInv
<1> QED  BY <1>1, <1>2, <1>3, <1>4, <1>5, <1>6, <1>7, <1>8, <1>9

\* cv_signal() begins.
LEMMA SignalLockKeeps == ASSUME IInv, NEW t \in Threads, SignalLock(t) PROVE IInv'
<1> USE CCAssumption DEF IInv, TypeOK, AllCVs, lockVars, waitVars, SignalLock, Goto
<1>1. TypeOK'
  BY RingFacts
<1>2. OpInv'
  BY DEF OpInv
<1>3. MutexInv'
  BY DEF MutexInv, Signalled, InSignal, OpInv
<1>4. SemInv'
  BY DEF SemInv, KernelExclusion, Inside, MutexInv, OpInv
<1>5. StopInv'
  BY DEF StopInv, MutexInv, WaiterInv, Signalled, InSignal, RingInv, InWait
<1>6. RingInv'
  BY DEF RingInv, InWait, MutexInv, StopInv, WaiterInv
<1>7. WaiterInv'
  BY DEF WaiterInv, MutexInv, InSignal, Signalled, OpInv, StopInv, RingInv,
     InWait
<1>8. CauseInv'
  BY DEF CauseInv, Marking, OpInv, WaiterInv, StopInv, MutexInv, InSignal,
     Signalled
<1>9. NotLostInv'
  BY DEF NotLostInv, Coming, SemInv, MutexInv, InSignal, Signalled, OpInv,
     StopInv, RingInv, WaiterInv
<1> QED  BY <1>1, <1>2, <1>3, <1>4, <1>5, <1>6, <1>7, <1>8, <1>9

\* The first waiter leaves the ring; its thread is asleep.
LEMMA PopKeeps == ASSUME IInv, NEW t \in Threads, Pop(t) PROVE IInv'
<1> USE CCAssumption DEF IInv, TypeOK, AllCVs, lockVars, waitVars, Pop, Goto
<1> DEFINE c == Signalled(t)
           w == Head(waitset[c])
<1>0. /\ c \in AllCVs /\ w \in Threads /\ w \in Members(waitset[c])
      /\ waitset' \in [AllCVs -> Seq(Threads)]
      /\ Distinct(waitset'[c])
      /\ Members(waitset'[c]) = Members(waitset[c]) \ {w}
      /\ \A d \in AllCVs : d # c => waitset'[d] = waitset[d]
  <2>1. /\ c \in AllCVs /\ waitset[c] \in Seq(Threads)
        /\ waitset[c] # <<>> /\ Distinct(waitset[c])
    BY RingFacts DEF RingInv
  <2>2. /\ waitset'[c] = Tail(waitset[c])
        /\ \A d \in AllCVs : d # c => waitset'[d] = waitset[d]
        /\ waitset' = [d \in AllCVs |-> waitset'[d]]
    BY <2>1
  <2>3. /\ w \in Threads /\ w \in Members(waitset[c])
        /\ Tail(waitset[c]) \in Seq(Threads)
        /\ Members(Tail(waitset[c])) = Members(waitset[c]) \ {w}
        /\ Distinct(Tail(waitset[c]))
    BY <2>1, TailMembers, Zenon
  <2>4. \A d \in AllCVs : waitset'[d] \in Seq(Threads)
    BY <2>1, <2>2, <2>3, RingFacts
  <2> QED  BY <2>1, <2>2, <2>3, <2>4
<1>w. cv[w] = c /\ pc[w] = "asleep" /\ w # t
  BY SMTT(30), <1>0 DEF RingInv, InWait, MutexInv, InSignal
<1>u. \A u \in Threads : pc[u] \in InSignal /\ Signalled(u) = c => u = t
  BY LoneSignaller DEF InSignal
<1> HIDE DEF c, w
<1>a. /\ pc[t] = "pop" /\ pc' = [pc EXCEPT ![t] = "wake"]
      /\ waiter' = [waiter EXCEPT ![t] = w]
      /\ removed' = [removed EXCEPT ![w] = TRUE]
      /\ \A u \in Threads : Signalled(u)' = Signalled(u)
      /\ Signalled(t) = c
  BY DEF c, w, Signalled
<1>1. TypeOK'
  BY <1>0
<1>2. OpInv'
  BY DEF OpInv
<1>3. MutexInv'
  BY DEF MutexInv, Signalled, InSignal, OpInv
<1>4. SemInv'
  BY DEF SemInv, KernelExclusion, Inside, MutexInv, OpInv
<1>5. StopInv'
  BY <1>a, <1>0, <1>w DEF StopInv, RingInv, InWait
<1>6. RingInv'
  <2>1. ASSUME NEW d \in AllCVs
        PROVE  /\ Distinct(waitset'[d])
               /\ \A u \in Members(waitset'[d]) : cv'[u] = d /\ pc'[u] \in InWait
    BY <1>0, <1>a, RingFacts DEF RingInv, InWait
  <2>2. ASSUME NEW u \in Threads, pc'[u] \in InWait
        PROVE  /\ removed'[u] <=> u \notin Members(waitset'[cv'[u]])
               /\ ~ removed'[u] => ~ signalled'[u]
               /\ pc'[u] # "asleep" => ~ removed'[u]
    <3>1. u # t /\ pc[u] \in InWait /\ cv'[u] = cv[u] /\ cv[u] \in AllCVs
      BY <1>a, <2>2, RingFacts DEF InWait
    <3>2. CASE u = w
      BY <1>0, <1>w, <1>a, <3>1, <3>2
    <3>3. CASE u # w
      <4>1. u \in Members(waitset'[cv[u]]) <=> u \in Members(waitset[cv[u]])
        BY <1>0, <3>1, <3>3
      <4> QED  BY <1>a, <3>1, <3>3, <4>1 DEF RingInv
    <3> QED  BY <3>2, <3>3
  <2> QED  BY <2>1, <2>2 DEF RingInv
<1>7. WaiterInv'
  <2> SUFFICES ASSUME NEW u \in Threads, pc'[u] \in {"wake", "mark"}
               PROVE  /\ waiter'[u] \in Threads /\ pc'[waiter'[u]] = "asleep"
                      /\ cv'[waiter'[u]] = Signalled(u)'
                      /\ removed'[waiter'[u]]
                      /\ pc'[u] = "mark" => state'[waiter'[u]] = "RUNNING"
    BY DEF WaiterInv
  <2>1. CASE u = t
    BY <1>0, <1>w, <1>a, <2>1
  <2>2. CASE u # t
    BY <1>a, <2>2 DEF WaiterInv
  <2> QED  BY <2>1, <2>2
<1>8. CauseInv'
  BY DEF CauseInv, Marking, OpInv, WaiterInv, StopInv, MutexInv, InSignal,
     Signalled
<1>9. NotLostInv'
  BY DEF NotLostInv, Coming, SemInv, MutexInv, InSignal, Signalled, OpInv,
     StopInv, RingInv, WaiterInv
<1> QED  BY <1>1, <1>2, <1>3, <1>4, <1>5, <1>6, <1>7, <1>8, <1>9

\* The thread of the removed waiter runs again, if it did not already.
LEMMA WakeKeeps == ASSUME IInv, NEW t \in Threads, Wake(t) PROVE IInv'
<1> USE CCAssumption DEF IInv, TypeOK, AllCVs, lockVars, waitVars, Wake, Goto
<1>1. TypeOK'
  BY SMT
<1>2. OpInv'
  BY DEF OpInv
<1>3. MutexInv'
  BY DEF MutexInv, Signalled, InSignal, OpInv
<1>4. SemInv'
  BY DEF SemInv, KernelExclusion, Inside, MutexInv, OpInv
<1>5. StopInv'
  BY DEF StopInv, MutexInv, WaiterInv, Signalled, InSignal, RingInv, InWait
<1>6. RingInv'
  <2>1. ASSUME NEW d \in AllCVs,
      NEW u \in Members(waitset[d])
        PROVE  cv'[u] = d /\ pc'[u] \in InWait
    <3>1. u \in Threads /\ cv[u] = d /\ pc[u] \in InWait
      BY RingFacts DEF RingInv
    <3> QED  BY <3>1 DEF InWait
  <2>2. ASSUME NEW u \in Threads, pc'[u] \in InWait
        PROVE  /\ removed'[u] <=> u \notin Members(waitset'[cv'[u]])
               /\ ~ removed'[u] => ~ signalled'[u]
               /\ pc'[u] # "asleep" => ~ removed'[u]
    <3>1. pc[u] \in InWait /\ pc'[u] = pc[u] /\ cv'[u] = cv[u]
      BY <2>2 DEF InWait
    <3> QED  BY <3>1 DEF RingInv
  <2> QED  BY <2>1, <2>2 DEF RingInv
<1>7. WaiterInv'
  BY DEF WaiterInv, MutexInv, InSignal, Signalled, OpInv, StopInv, RingInv,
     InWait
<1>8. CauseInv'
  BY DEF CauseInv, Marking, OpInv, WaiterInv, StopInv, MutexInv, InSignal,
     Signalled
<1>9. NotLostInv'
  BY DEF NotLostInv, Coming, SemInv, MutexInv, InSignal, Signalled, OpInv,
     StopInv, RingInv, WaiterInv
<1> QED  BY <1>1, <1>2, <1>3, <1>4, <1>5, <1>6, <1>7, <1>8, <1>9

\* cv_signal() ends: with the mark, or because the ring is empty.
LEMMA EndSignalKeeps ==
    ASSUME IInv, NEW t \in Threads, SignalDone(t),
           UNCHANGED <<kernel_sem, waitset, state, removed, cause, ret>>,
           \/ /\ pc[t] = "mark" /\ op[t] # "broadcast"
              /\ signalled' = [signalled EXCEPT ![waiter[t]] = TRUE]
           \/ /\ pc[t] = "pop" /\ waitset[Signalled(t)] = <<>>
              /\ UNCHANGED signalled
    PROVE  IInv'
<1> USE CCAssumption DEF IInv, TypeOK, AllCVs, lockVars, waitVars, SignalDone, Goto
<1> DEFINE w == waiter[t]
<1>a. /\ pc[t] \in {"mark", "pop"}
      /\ pc' = [pc EXCEPT ![t] = IF op[t] \in {"signal", "broadcast"} THEN "in"
                                  ELSE IF op[t] = "unlock" THEN "out"
                                  ELSE IF op[t] = "exit" THEN "exited" ELSE "enqueue"]
      /\ op' = [op EXCEPT ![t] = IF op[t] \in {"wait", "timedwait"} THEN op[t] ELSE "none"]
      /\ cv' = [cv EXCEPT ![t] = IF op[t] \in {"signal", "broadcast"}
                                  THEN kernel_sem_cv ELSE cv[t]]
      /\ kernel_mutex' = IF op[t] \in {"unlock", "exit"} THEN Nobody ELSE kernel_mutex
      /\ waitset_lock' = [waitset_lock EXCEPT ![Signalled(t)] = Nobody]
      /\ waiter' = [waiter EXCEPT ![t] = Nobody]
      /\ op[t] # "none"
  BY DEF OpInv
<1>b. /\ \A u \in Threads : u # t => Signalled(u)' = Signalled(u)
      /\ \A u \in Threads : Signalled(u) \in AllCVs
  BY <1>a, RingFacts DEF Signalled
<1>u. \A u \in Threads : pc[u] \in InSignal /\ Signalled(u) = Signalled(t) => u = t
  BY <1>a, LoneSignaller DEF InSignal
<1>w. pc[t] = "mark" => /\ w \in Threads /\ pc[w] = "asleep" /\ cv[w] = Signalled(t)
                        /\ removed[w] /\ state[w] = "RUNNING" /\ w # t
  BY <1>a DEF WaiterInv
<1>1. TypeOK'
  BY <1>a, <1>b
<1>2. OpInv'
  BY <1>a DEF OpInv
<1>3. MutexInv'
  <2> SUFFICES ASSUME NEW u \in Threads
               PROVE  /\ pc'[u] \in {"test", "enqueue", "release"} => kernel_mutex' = u
                      /\ pc'[u] \in {"signal", "pop", "wake", "mark"}
                            /\ op'[u] \notin {"signal", "broadcast"} => kernel_mutex' = u
                      /\ pc'[u] \in {"release", "doze"} => waitset_lock'[cv'[u]] = u
                      /\ pc'[u] \in InSignal => waitset_lock'[Signalled(u)'] = u
    BY DEF MutexInv
  <2>1. CASE u = t
    BY <1>a, <2>1 DEF MutexInv, InSignal
  <2>2. CASE u # t
    BY <1>a, <1>b, <1>u, <2>2 DEF MutexInv, InSignal
  <2> QED  BY <2>1, <2>2
<1>4. SemInv'
  BY <1>a DEF SemInv, KernelExclusion, Inside, OpInv
<1>5. StopInv'
  BY SMTT(30), <1>a, <1>w DEF StopInv
<1>6. RingInv'
  <2>1. ASSUME NEW d \in AllCVs, NEW u \in Members(waitset[d])
        PROVE  cv'[u] = d /\ pc'[u] \in InWait
    <3>1. u \in Threads /\ cv[u] = d /\ pc[u] \in InWait
      BY RingFacts DEF RingInv
    <3> QED  BY <1>a, <3>1 DEF InWait
  <2>2. ASSUME NEW u \in Threads, pc'[u] \in InWait
        PROVE  /\ removed'[u] <=> u \notin Members(waitset'[cv'[u]])
               /\ ~ removed'[u] => ~ signalled'[u]
               /\ pc'[u] # "asleep" => ~ removed'[u]
    <3>1. pc[u] \in InWait /\ pc'[u] = pc[u] /\ cv'[u] = cv[u]
      BY <1>a, <2>2 DEF InWait
    <3> QED  BY <1>a, <1>w, <3>1 DEF RingInv
  <2> QED  BY <2>1, <2>2 DEF RingInv
<1>7. WaiterInv'
  BY <1>a, <1>b DEF WaiterInv
<1>8. CauseInv'
  <2> SUFFICES ASSUME NEW u \in Threads, u # w \/ pc[t] # "mark"
               PROVE  Marking(u)' <=> Marking(u)
    BY <1>a, <1>w DEF CauseInv, w, Marking, OpInv
  <2> QED  BY <1>a DEF Marking, w
<1>9. NotLostInv'
  BY <1>a, <1>b, <1>w, <1>u, RingFacts DEF NotLostInv, Coming, StopInv, RingInv,
     InWait, MutexInv, InSignal, WaiterInv, Signalled, Members
<1> QED  BY <1>1, <1>2, <1>3, <1>4, <1>5, <1>6, <1>7, <1>8, <1>9

\* The waiter learns that a signal woke it.
LEMMA MarkKeeps == ASSUME IInv, NEW t \in Threads, Mark(t) PROVE IInv'
<1> USE CCAssumption DEF IInv, TypeOK, AllCVs, lockVars, waitVars, Mark, Goto
<1> SUFFICES ASSUME op[t] = "broadcast" PROVE IInv'
  BY EndSignalKeeps DEF waitVars
<1> DEFINE w == waiter[t]
<1>a. /\ pc[t] = "mark" /\ pc' = [pc EXCEPT ![t] = "pop"]
      /\ signalled' = [signalled EXCEPT ![w] = TRUE]
      /\ UNCHANGED <<kernel_mutex, kernel_sem, waitset, waitset_lock, op, cv,
                     waiter, state, removed, cause, ret>>
      /\ \A u \in Threads : Signalled(u)' = Signalled(u)
  BY DEF Signalled
<1>w. /\ w \in Threads /\ pc[w] = "asleep" /\ cv[w] = Signalled(t)
      /\ removed[w] /\ state[w] = "RUNNING" /\ w # t
  BY <1>a DEF WaiterInv
<1>u. \A u \in Threads : pc[u] \in InSignal /\ Signalled(u) = Signalled(t) => u = t
  BY <1>a, LoneSignaller DEF InSignal
<1> HIDE DEF w
<1>1. TypeOK'
  BY <1>a
<1>2. OpInv'
  BY DEF OpInv
<1>3. MutexInv'
  BY DEF MutexInv, Signalled, InSignal, OpInv
<1>4. SemInv'
  BY DEF SemInv, KernelExclusion, Inside, MutexInv, OpInv
<1>5. StopInv'
  BY <1>a, <1>w DEF StopInv
<1>6. RingInv'
  <2>1. ASSUME NEW d \in AllCVs, NEW u \in Members(waitset[d])
        PROVE  cv'[u] = d /\ pc'[u] \in InWait
    <3>1. u \in Threads /\ cv[u] = d /\ pc[u] \in InWait
      BY RingFacts DEF RingInv
    <3> QED  BY <1>a, <3>1 DEF InWait
  <2>2. ASSUME NEW u \in Threads, pc'[u] \in InWait
        PROVE  /\ removed'[u] <=> u \notin Members(waitset'[cv'[u]])
               /\ ~ removed'[u] => ~ signalled'[u]
               /\ pc'[u] # "asleep" => ~ removed'[u]
    <3>1. pc[u] \in InWait /\ pc'[u] = pc[u] /\ cv'[u] = cv[u]
      BY <1>a, <2>2 DEF InWait
    <3> QED  BY <1>a, <1>w, <3>1 DEF RingInv
  <2> QED  BY <2>1, <2>2 DEF RingInv
<1>7. WaiterInv'
  BY <1>a DEF WaiterInv
<1>8. CauseInv'
  <2> SUFFICES ASSUME NEW u \in Threads, u # w
               PROVE  Marking(u)' <=> Marking(u)
    BY <1>a, <1>w DEF CauseInv, w, Marking
  <2> QED  BY <1>a DEF Marking, w
<1>9. NotLostInv'
  BY DEF NotLostInv, Coming, SemInv, MutexInv, InSignal, Signalled, OpInv,
     StopInv, RingInv, WaiterInv
<1> QED  BY <1>1, <1>2, <1>3, <1>4, <1>5, <1>6, <1>7, <1>8, <1>9

\* Nobody is left to wake up.
LEMMA NoWaiterKeeps == ASSUME IInv, NEW t \in Threads, NoWaiter(t) PROVE IInv'
  BY EndSignalKeeps DEF NoWaiter, waitVars


\* Nothing happens.
LEMMA StutterKeeps == ASSUME IInv, UNCHANGED vars PROVE IInv'
<1> USE DEF vars, lockVars, waitVars
<1>1. TypeOK' /\ OpInv' /\ MutexInv' /\ SemInv'
  BY DEF IInv, TypeOK, OpInv, MutexInv, SemInv, KernelExclusion, Inside,
     Signalled
<1>2. StopInv' /\ RingInv' /\ WaiterInv'
  BY DEF IInv, StopInv, RingInv, WaiterInv, Signalled
<1>3. CauseInv' /\ NotLostInv'
  BY DEF IInv, CauseInv, Marking, NotLostInv, Coming, Signalled
<1> QED  BY <1>1, <1>2, <1>3 DEF IInv

-----------------------------------------------------------------------------
(* The invariant holds.                                                    *)

\* The invariant holds before any call.
LEMMA InitEstablishesIInv == ASSUME Init PROVE IInv
<1> USE CCAssumption DEF Init, AllCVs
<1>1. Members(<<>>) = {} /\ Distinct(<<>>)
  BY DEF Members, Distinct
<1>2. TypeOK
  BY DEF TypeOK
<1>3. OpInv /\ MutexInv /\ SemInv /\ StopInv
  BY DEF OpInv, MutexInv, InSignal, SemInv, KernelExclusion, Inside, StopInv
<1>4. RingInv /\ WaiterInv
  BY <1>1 DEF RingInv, InWait, WaiterInv
<1>5. CauseInv /\ NotLostInv
  BY DEF CauseInv, NotLostInv
<1> QED  BY <1>2, <1>3, <1>4, <1>5 DEF IInv

\* Every step keeps the invariant.
LEMMA NextPreserves == ASSUME IInv, [Next \/ Quiet]_vars PROVE IInv'
<1>1. CASE Quiet \/ UNCHANGED vars
  BY <1>1, StutterKeeps DEF Quiet
<1>2. ASSUME NEW t \in Threads, kernel_lock(t) \/ Timeout(t) PROVE IInv'
  BY <1>2, kernel_lockKeeps, TimeoutKeeps
<1>3. ASSUME NEW t \in Threads, Act(t) PROVE IInv'
  <2>1. CASE kernel_unlock(t) \/ kernel_sleep(t)
    BY <2>1, CallKeeps DEF kernel_unlock, kernel_sleep
  <2>2. ASSUME NEW c \in CVs, kernel_wait_wchan(t, c) PROVE IInv'
    BY <2>2, CallKeeps DEF kernel_wait_wchan
  <2>3. ASSUME NEW c \in CVs, kernel_signal(t, c) \/ kernel_broadcast(t, c)
        PROVE  IInv'
    BY <2>3, CallKeeps DEF kernel_signal, kernel_broadcast
  <2> QED  BY <1>3, <2>1, <2>2, <2>3 DEF Act
<1>4. ASSUME NEW t \in Threads, Step(t) PROVE IInv'
  BY <1>4, LockMutexKeeps, SemTestKeeps, PostKeeps, EnqueueKeeps, ReleaseKeeps,
     sleep_releasingKeeps, TidyKeeps, SignalLockKeeps, PopKeeps, WakeKeeps,
     MarkKeeps, NoWaiterKeeps DEF Step
<1> QED  BY <1>1, <1>2, <1>3, <1>4 DEF Next

\* The inductive invariant of kernel_cc.c.
THEOREM InductiveInvariant == Spec => []IInv
  BY InitEstablishesIInv, NextPreserves, PTL DEF Spec

\* kernel_lock(), kernel_wait(), kernel_signal() and their like keep the
\* semaphore exclusive and typed, never touch a waiter that is gone, pass the
\* assertion of cv_wait(), and do not lose the wakeup of the semaphore.
THEOREM KernelSound == Spec => []KernelInvariant
<1>1. IInv => KernelInvariant
  <2> SUFFICES ASSUME IInv PROVE KernelInvariant
    OBVIOUS
  <2>1. TypeOK /\ KernelExclusion
    BY DEF IInv, SemInv
  <2>2. WaitersAlive
    BY DEF IInv, WaitersAlive, RingInv, WaiterInv, InWait
  <2>3. AssertionHolds
    BY DEF IInv, AssertionHolds, RingInv, InWait
  <2>4. SemaphoreNotLost
    BY DEF IInv, SemaphoreNotLost, NotLostInv, Coming
  <2> QED  BY <2>1, <2>2, <2>3, <2>4 DEF KernelInvariant
<1> QED  BY <1>1, InductiveInvariant, PTL

\* kernel_wait() returns 1 exactly when a signal, not the timer, ended it.
THEOREM WaitTellsCause == Spec => []ResultTellsCause
<1>1. IInv => ResultTellsCause
  BY DEF IInv, CauseInv, ResultTellsCause
<1> QED  BY <1>1, InductiveInvariant, PTL

-----------------------------------------------------------------------------
(* What the steps do.                                                      *)

\* cv_signal() leaves its loop without a woken waiter only when the ring is
\* empty, so that no signal is used up by a waiter whose timeout came first.
THEOREM SignalsReachWaiters == Spec => SignalReachesAWaiter
<1>1. ASSUME IInv, Next, NEW t \in Threads, pc[t] \in {"pop", "wake"},
             pc'[t] \notin {"pop", "wake", "mark"}
      PROVE  waitset[Signalled(t)] = <<>>
  <2>1. ASSUME NEW u \in Threads, u # t,
               kernel_lock(u) \/ Act(u) \/ Step(u) \/ Timeout(u)
        PROVE  pc'[t] = pc[t]
    <3>1. ASSUME NEW call, NEW c, NEW label, Call(u, call, c, label)
          PROVE  pc'[t] = pc[t]
      BY <1>1, <2>1, <3>1 DEF Call, Goto, IInv, TypeOK
    <3>2. Act(u) => pc'[t] = pc[t]
      BY <3>1 DEF Act, kernel_unlock, kernel_sleep, kernel_wait_wchan,
         kernel_signal, kernel_broadcast
    <3>3. kernel_lock(u) \/ Timeout(u) => pc'[t] = pc[t]
      BY <1>1, <2>1 DEF kernel_lock, Timeout, Goto, IInv, TypeOK
    <3>4. Step(u) => pc'[t] = pc[t]
      BY <1>1, <2>1 DEF Step, LockMutex, SemTest, Post, Enqueue, Release,
         sleep_releasing, Tidy, SignalLock, Pop, Wake, Mark, NoWaiter,
         SignalDone, Goto, IInv, TypeOK
    <3> QED  BY <2>1, <3>2, <3>3, <3>4
  <2>2. kernel_lock(t) \/ Act(t) \/ Step(t) \/ Timeout(t)
    BY <1>1, <2>1 DEF Next
  <2>3. ~ kernel_lock(t) /\ ~ Act(t)
    BY <1>1 DEF kernel_lock, Act, kernel_unlock, kernel_sleep,
       kernel_wait_wchan, kernel_signal, kernel_broadcast, Call
  <2>4. ~ Timeout(t)
    BY <1>1 DEF Timeout
  <2>5. ~ Pop(t) /\ ~ Wake(t)
    BY <1>1 DEF Pop, Wake, Goto, IInv, TypeOK
  <2>6. Step(t) => NoWaiter(t)
    BY <1>1, <2>5 DEF Step, LockMutex, SemTest, Post, Enqueue, Release,
       sleep_releasing, Tidy, SignalLock, Mark
  <2> QED  BY <2>2, <2>3, <2>4, <2>6 DEF NoWaiter
<1>2. IInv /\ [Next \/ Quiet]_vars =>
      [\A t \in Threads :
         pc[t] \in {"pop", "wake"} /\ pc'[t] \notin {"pop", "wake", "mark"} =>
            \A w \in Members(waitset[Signalled(t)]) : state[w] # "STOPPED"]_vars
  <2> SUFFICES ASSUME IInv, Next \/ Quiet, NEW t \in Threads, pc[t] \in {"pop", "wake"},
                      pc'[t] \notin {"pop", "wake", "mark"}
               PROVE  \A w \in Members(waitset[Signalled(t)]) : state[w] # "STOPPED"
    OBVIOUS
  <2>1. CASE Quiet
    BY <2>1 DEF Quiet
  <2>2. CASE Next
    <3>1. waitset[Signalled(t)] = <<>>
      BY <1>1, <2>2
    <3> QED  BY <3>1 DEF Members
  <2> QED  BY <2>1, <2>2
<1> QED  BY <1>2, InductiveInvariant, PTL DEF Spec, SignalReachesAWaiter


-----------------------------------------------------------------------------
(* The kernel semaphore implements a monitor.                              *)

\* The owner of the monitor is the thread that holds the semaphore.
LEMMA OwnerFacts ==
    ASSUME IInv, IInv'
    PROVE  /\ \A t \in Threads : Inside(t) => owner = t
           /\ (\A t \in Threads : ~ Inside(t)) => owner = Nobody
           /\ \A t \in Threads : Inside(t)' => owner' = t
           /\ (\A t \in Threads : ~ Inside(t)') => owner' = Nobody
<1>1. ASSUME NEW t \in Threads, Inside(t) PROVE owner = t
  <2>1. \A u \in Threads : Inside(u) => u = t
    BY <1>1 DEF IInv, SemInv, KernelExclusion
  <2> HIDE DEF Inside
  <2> QED  BY <1>1, <2>1 DEF owner
<1>2. (\A t \in Threads : ~ Inside(t)) => owner = Nobody
  BY DEF owner
<1>3. ASSUME NEW t \in Threads, Inside(t)' PROVE owner' = t
  <2>1. \A u \in Threads : Inside(u)' => u = t
    BY <1>3 DEF IInv, SemInv, KernelExclusion
  <2> QED  BY <1>3, <2>1 DEF owner
<1>4. (\A t \in Threads : ~ Inside(t)') => owner' = Nobody
  BY DEF owner
<1> QED  BY <1>1, <1>2, <1>3, <1>4

\* A step that moves no thread in or out is no step of the monitor.
LEMMA Stutters ==
    ASSUME IInv, IInv', \A u \in Threads : Place(u)' = Place(u)
    PROVE  UNCHANGED M!monitorVars
<1>1. \A u \in Threads : Inside(u)' <=> Inside(u)
  BY DEF Place
<1>2. owner' = owner
  <2>1. CASE \E u \in Threads : Inside(u)
    BY <1>1, <2>1, OwnerFacts
  <2>2. CASE \A u \in Threads : ~ Inside(u)
    BY <1>1, <2>2, OwnerFacts
  <2> QED  BY <2>1, <2>2
<1> QED  BY <1>2 DEF M!monitorVars

\* A step that changes nothing here changes nothing in Monitor.
LEMMA StutterMaps == ASSUME UNCHANGED vars PROVE UNCHANGED M!monitorVars
<1> USE DEF vars, lockVars, waitVars
<1>1. \A t \in Threads : Inside(t)' <=> Inside(t)
  BY DEF Inside
<1>2. \A t \in Threads : Place(t)' = Place(t)
  BY <1>1 DEF Place, Waiting
<1>3. owner' = owner
  BY DEF owner, Inside
<1> QED  BY <1>2, <1>3 DEF M!monitorVars

\* Entering, leaving, waking: what a change of one place amounts to.
LEMMA OneMoves ==
    ASSUME IInv, IInv', NEW t \in Threads,
           \A u \in Threads : u # t => Place(u)' = Place(u)
    PROVE  /\ Place(t) # "inside" /\ Place(t)' # "inside" => owner' = owner
           /\ [u \in Threads |-> Place(u)]' =
                 [[u \in Threads |-> Place(u)] EXCEPT ![t] = Place(t)']
<1>1. \A u \in Threads : u # t => (Inside(u)' <=> Inside(u))
  BY DEF Place
<1>2. ASSUME ~ Inside(t), ~ Inside(t)' PROVE owner' = owner
  <2>1. CASE \E u \in Threads : Inside(u)
    BY <1>1, <1>2, <2>1, OwnerFacts
  <2>2. CASE \A u \in Threads : ~ Inside(u)
    BY <1>1, <1>2, <2>2, OwnerFacts
  <2> QED  BY <2>1, <2>2
<1>3. /\ Inside(t) <=> Place(t) = "inside"
      /\ Inside(t)' <=> Place(t)' = "inside"
  BY DEF Place
<1> QED  BY <1>2, <1>3

\* Testing the semaphore is entering the monitor, or nothing.
LEMMA SemTestMaps ==
    ASSUME IInv, IInv', NEW t \in Threads, SemTest(t)
    PROVE  M!Enter(t) \/ UNCHANGED M!monitorVars
<1> USE DEF IInv, TypeOK, SemTest, Goto
<1>1. \A u \in Threads : u # t => Place(u)' = Place(u)
  BY DEF Place, Inside, Waiting, waitVars
<1>2. CASE kernel_sem <= 0
  <2>1. Place(t)' = Place(t)
    BY <1>2, CCAssumption DEF Place, Inside, Waiting
  <2> QED  BY <1>1, <2>1, Stutters
<1>3. CASE kernel_sem > 0
  <2>1. Inside(t)' /\ owner' = t
    BY <1>3, OwnerFacts DEF Inside
  <2>2. owner = Nobody
    BY <1>3, OwnerFacts, InsideFacts
  <2>3. Place(t) \in {"outside", "awake"} /\ Place(t)' = "inside"
    BY <2>1 DEF Place, Inside, Waiting
  <2> QED  BY <1>1, <2>1, <2>2, <2>3, OneMoves DEF M!Enter
<1> QED  BY <1>2, <1>3

\* Posting the semaphore is leaving the monitor.
LEMMA PostMaps == ASSUME IInv, IInv', NEW t \in Threads, Post(t) PROVE M!Exit(t)
<1> USE DEF IInv, TypeOK, Post, Goto
<1>1. \A u \in Threads : u # t => Place(u)' = Place(u)
  BY DEF Place, Inside, Waiting, waitVars
<1>2. Inside(t) /\ owner = t
  BY OwnerFacts DEF Inside
<1>3. \A u \in Threads : ~ Inside(u)'
  <2>1. ~ Inside(t)'
    BY ZenonT(40) DEF Inside, OpInv
  <2>2. \A u \in Threads : u # t => (Inside(u)' <=> Inside(u))
    BY DEF Inside
  <2>3. \A u \in Threads : Inside(u) => u = t
    BY <1>2, InsideFacts
  <2> HIDE DEF IInv, TypeOK, Post
  <2> QED  BY <2>1, <2>2, <2>3
<1>4. owner' = Nobody
  BY <1>3, OwnerFacts
<1>5. Place(t) = "inside" /\ Place(t)' \in {"outside", "waiting", "timedwaiting"}
  <2>1. /\ op[t] \in {"unlock", "exit", "wait", "timedwait"} /\ op' = op
        /\ op[t] \in {"wait", "timedwait"} => cv[t] \in CVs
        /\ pc'[t] = "signal" /\ cv' = cv
    BY DEF OpInv
  <2>2. ~ Inside(t)'
    BY <1>3
  <2>3. Place(t)' \in {"outside", "waiting", "timedwaiting"}
    BY <2>1, <2>2 DEF Place, Waiting
  <2> QED  BY <1>2, <2>3 DEF Place
<1> QED  BY <1>1, <1>2, <1>4, <1>5, OneMoves DEF M!Exit

\* A timeout makes a waiter ready.
LEMMA TimeoutMaps ==
    ASSUME IInv, IInv', NEW t \in Threads, Timeout(t)
    PROVE  M!TimedOut(t)
<1> USE DEF IInv, TypeOK, Timeout
<1>1. \A u \in Threads : u # t => Place(u)' = Place(u)
  BY DEF Place, Inside, Waiting
<1>2. Place(t) = "timedwaiting" /\ Place(t)' = "awake"
  BY DEF Place, Inside, Waiting, StopInv
<1> QED  BY <1>1, <1>2, OneMoves DEF M!TimedOut

\* Waking a thread is a signal of the monitor, or nothing.
LEMMA WakeMaps ==
    ASSUME IInv, IInv', NEW t \in Threads, Wake(t)
    PROVE  M!Signal(t) \/ UNCHANGED M!monitorVars
<1> DEFINE w == waiter[t]
<1> USE DEF IInv, TypeOK, Wake, Goto
<1>1. w \in Threads /\ pc[w] = "asleep" /\ cv[w] = Signalled(t) /\ w # t
  BY DEF WaiterInv
<1>2. Inside(t)' <=> Inside(t)
  BY DEF Inside
<1>3. Place(t)' = Place(t)
  BY <1>2 DEF Place, Waiting
<1>4. \A u \in Threads : u # t /\ u # w => Place(u)' = Place(u)
  BY DEF Place, Inside, Waiting
<1>5. CASE state[w] = "STOPPED" /\ cv[w] \in CVs
  <2>1. op[t] \in {"signal", "broadcast"}
    BY <1>1, <1>5, CCAssumption DEF Signalled
  <2>2. Inside(t) /\ owner = t /\ owner' = t
    BY <1>2, <2>1, OwnerFacts DEF Inside
  <2>3. Place(w) \in {"waiting", "timedwaiting"} /\ Place(w)' = "awake"
    BY <1>1, <1>5 DEF Place, Inside, Waiting, OpInv
  <2>4. \A u \in Threads : u # w => Place(u)' = Place(u)
    BY <1>3, <1>4
  <2>5. [u \in Threads |-> Place(u)]' = [[u \in Threads |-> Place(u)] EXCEPT ![w] = "awake"]
    BY <1>1, <2>3, <2>4, OneMoves
  <2> HIDE DEF w
  <2> QED  BY <1>1, <2>2, <2>3, <2>5 DEF M!Signal
<1>6. CASE state[w] # "STOPPED" \/ cv[w] \notin CVs
  <2>1. Place(w)' = Place(w)
    BY <1>1, <1>6 DEF Place, Inside, Waiting
  <2> QED  BY <1>3, <1>4, <2>1, Stutters
<1> QED  BY <1>5, <1>6

\* Marking a waiter signalled, or finding none, is not seen in the monitor.
LEMMA SignalDoneMaps ==
    ASSUME IInv, IInv', NEW t \in Threads, Mark(t) \/ NoWaiter(t)
    PROVE  UNCHANGED M!monitorVars
<1> USE DEF IInv, TypeOK
<1>1. \A u \in Threads : u # t => Place(u)' = Place(u)
  BY DEF Place, Inside, Waiting, Mark, NoWaiter, SignalDone, Goto, waitVars
<1>2. Inside(t)' <=> Inside(t)
  BY DEF Inside, Mark, NoWaiter, SignalDone, Goto, OpInv
<1>3. Place(t)' = Place(t)
  BY <1>2, CCAssumption DEF Place, Inside, Waiting, Mark, NoWaiter, SignalDone,
     Goto, waitVars, OpInv
<1> QED  BY <1>1, <1>3, Stutters

\* Steps inside, and steps on the way in or out.
LEMMA CallMaps ==
    ASSUME IInv, IInv', NEW t \in Threads, Act(t) \/ kernel_lock(t)
    PROVE  UNCHANGED M!monitorVars
<1> USE DEF IInv, TypeOK, Goto
<1>1. ASSUME NEW call, NEW c, NEW label, Call(t, call, c, label),
             \/ label = "post"
             \/ call \in {"signal", "broadcast"} /\ label = "signal"
      PROVE  UNCHANGED M!monitorVars
  <2>1. \A u \in Threads : u # t => Place(u)' = Place(u)
    BY <1>1 DEF Place, Inside, Waiting, Call, waitVars
  <2>2. Inside(t) /\ Inside(t)'
    BY <1>1 DEF Inside, Call
  <2>3. Place(t)' = Place(t)
    BY <2>2 DEF Place
  <2> QED  BY <2>1, <2>3, Stutters
<1>2. CASE Act(t)
  BY <1>1, <1>2 DEF Act, kernel_unlock, kernel_sleep, kernel_wait_wchan,
     kernel_signal, kernel_broadcast
<1>3. CASE kernel_lock(t)
  <2>1. \A u \in Threads : Place(u)' = Place(u)
    BY <1>3, CCAssumption DEF Place, Inside, Waiting, kernel_lock, waitVars,
       OpInv
  <2> QED  BY <2>1, Stutters
<1> QED  BY <1>2, <1>3

\* The steps within a wait or a signal are not seen in the monitor.
LEMMA WaitMaps ==
    ASSUME IInv, IInv', NEW t \in Threads,
           \/ LockMutex(t) \/ Enqueue(t) \/ Release(t) \/ sleep_releasing(t)
           \/ Tidy(t) \/ SignalLock(t) \/ Pop(t)
    PROVE  UNCHANGED M!monitorVars
<1> USE DEF IInv, TypeOK, Goto
<1>1. \A u \in Threads : Inside(u)' <=> Inside(u)
  BY SMTT(30) DEF Inside, LockMutex, Enqueue, Release, sleep_releasing, Tidy, SignalLock,
     Pop, waitVars
<1>2. \A u \in Threads : Waiting(u)' <=> Waiting(u)
  BY DEF Waiting, LockMutex, Enqueue, Release, sleep_releasing, Tidy,
     SignalLock, Pop, waitVars
<1>3. op' = op
  BY DEF LockMutex, Enqueue, Release, sleep_releasing, Tidy, SignalLock, Pop
<1>4. \A u \in Threads : Place(u)' = Place(u)
  BY <1>1, <1>2, <1>3 DEF Place
<1> QED  BY <1>4, Stutters

\* The semaphore with its condition variables is a monitor: kernel_lock() and
\* the end of kernel_wait() enter it one thread at a time, kernel_unlock() and
\* the start of kernel_wait() leave it, a signal from inside or the timer
\* makes a waiter a contender, and nothing else does.
THEOREM KernelIsMonitor == Spec => ImplementsMonitor
<1>1. Init => M!MonitorInit
  <2> SUFFICES ASSUME Init PROVE M!MonitorInit
    OBVIOUS
  <2>1. \A t \in Threads : ~ Inside(t) /\ Place(t) = "outside"
    BY DEF Init, Inside, Place, Waiting
  <2> QED  BY <2>1 DEF owner, M!MonitorInit
<1>2. ASSUME IInv, IInv', [Next \/ Quiet]_vars PROVE [M!MonitorNext]_(M!monitorVars)
  <2>1. CASE Quiet \/ UNCHANGED vars
    BY <2>1, StutterMaps DEF Quiet
  <2>2. ASSUME NEW t \in Threads, kernel_lock(t) \/ Act(t) \/ Step(t) \/ Timeout(t)
        PROVE  \/ M!Enter(t) \/ M!Exit(t) \/ M!Signal(t) \/ M!TimedOut(t)
               \/ UNCHANGED M!monitorVars
    BY <1>2, <2>2, SemTestMaps, PostMaps, TimeoutMaps, WakeMaps, SignalDoneMaps,
       CallMaps, WaitMaps DEF Step
  <2> QED  BY <1>2, <2>1, <2>2 DEF Next, M!MonitorNext
<1> QED  BY <1>1, <1>2, InductiveInvariant, PTL DEF Spec, ImplementsMonitor,
            M!MonitorSpec

-----------------------------------------------------------------------------
(* The lists of util.h, for any number of nodes: rings of pointers are the *)
(* sequences that the other modules take them for.                         *)

\* Whatever holds of 0, and of n + 1 if of n, holds of all natural numbers.
LEMMA AllNat ==
    ASSUME NEW T \in SUBSET Nat, 0 \in T, \A n \in T : n + 1 \in T
    PROVE  T = Nat
<1> SUFFICES ASSUME T # Nat PROVE FALSE
  OBVIOUS
<1>1. IsWellFoundedOn(OpToRel(<, Nat), Nat)
  BY NatLessThanWellFounded
<1>2. \A x, y \in Nat : <<y, x>> \in OpToRel(<, Nat) <=> y < x
  BY DEF OpToRel
<1>3. PICK R : IsWellFoundedOn(R, Nat) /\ \A x, y \in Nat : <<y, x>> \in R <=> y < x
  BY <1>1, <1>2
<1>4. PICK x \in Nat \ T : \A y \in Nat \ T : ~ (<<y, x>> \in R)
  <2>1. Nat \ T \subseteq Nat /\ Nat \ T # {}
    OBVIOUS
  <2> QED  BY ONLY <1>3, <2>1, WFMin
<1>5. x # 0 /\ x - 1 \in Nat
  BY <1>4
<1>6. x - 1 \in T
  <2>1. x \in Nat /\ x - 1 < x
    BY <1>5
  <2>2. <<x - 1, x>> \in R
    BY ONLY <1>3, <1>5, <2>1
  <2> QED  BY <1>4, <1>5, <2>2
<1> QED  BY <1>4, <1>5, <1>6

\* The first turns of a loop: f is the state after each of n turns, which are
\* what g says.
Turns(S, g, x, n) ==
    {f \in [0 .. n -> S] :
        f[0] = x /\ \A k \in Nat : k < n => f[k + 1] = g[k + 1][f[k]]}

\* A loop without end.
Loop(S, g, x, f) ==
    f \in [Nat -> S] /\ f[0] = x /\ \A n \in Nat : f[n + 1] = g[n + 1][f[n]]

\* The state of a loop after any number of turns.
LEMMA LoopExists ==
    ASSUME NEW S, NEW g, \A n \in Nat : g[n] \in [S -> S], NEW x \in S
    PROVE  \E f : Loop(S, g, x, f)
<1>1. ASSUME NEW n \in Nat PROVE Turns(S, g, x, n) # {}
  <2> DEFINE T == {m \in Nat : Turns(S, g, x, m) # {}}
  <2>1. 0 \in T
    <3>1. [k \in 0 .. 0 |-> x] \in Turns(S, g, x, 0)
      BY DEF Turns
    <3> QED  BY <3>1
  <2>2. ASSUME NEW m \in T PROVE m + 1 \in T
    <3>1. PICK f : f \in Turns(S, g, x, m)
      OBVIOUS
    <3>2. /\ f \in [0 .. m -> S] /\ f[0] = x
          /\ \A k \in Nat : k < m => f[k + 1] = g[k + 1][f[k]]
      BY <3>1 DEF Turns
    <3>3. PICK h : h = [k \in 0 .. m + 1 |-> IF k = m + 1 THEN g[m + 1][f[m]] ELSE f[k]]
      OBVIOUS
    <3>4. h \in [0 .. m + 1 -> S] /\ h[0] = x
      BY <3>2, <3>3
    <3>5. ASSUME NEW k \in Nat, k < m + 1 PROVE h[k + 1] = g[k + 1][h[k]]
      <4>1. k \in 0 .. m /\ k + 1 \in 0 .. m + 1 /\ k # m + 1 /\ (k + 1 = m + 1 <=> k = m)
            /\ (k # m => k < m)
        BY <3>5
      <4> QED  BY <3>2, <3>3, <4>1
    <3>6. h \in Turns(S, g, x, m + 1)
      BY <3>4, <3>5 DEF Turns
    <3> QED  BY <3>6
  <2> HIDE DEF T
  <2>3. T = Nat
    <3>1. T \in SUBSET Nat
      BY DEF T
    <3> QED  BY <2>1, <2>2, <3>1, AllNat
  <2> QED  BY <2>3 DEF T
<1>2. ASSUME NEW n \in Nat, NEW m \in Nat,
             NEW f \in Turns(S, g, x, n), NEW h \in Turns(S, g, x, m)
      PROVE  \A k \in Nat : k <= n /\ k <= m => f[k] = h[k]
  <2> DEFINE T == {k \in Nat : k <= n /\ k <= m => f[k] = h[k]}
  <2>1. 0 \in T
    BY DEF Turns
  <2>2. ASSUME NEW k \in T PROVE k + 1 \in T
    <3>1. \A i \in Nat : i < n => f[i + 1] = g[i + 1][f[i]]
      BY DEF Turns
    <3>2. \A i \in Nat : i < m => h[i + 1] = g[i + 1][h[i]]
      BY DEF Turns
    <3> QED  BY <3>1, <3>2
  <2> HIDE DEF T
  <2>3. T = Nat
    <3>1. T \in SUBSET Nat
      BY DEF T
    <3> QED  BY <2>1, <2>2, <3>1, AllNat
  <2> QED  BY <2>3 DEF T
<1>3. PICK c : c = [n \in Nat |-> CHOOSE f \in Turns(S, g, x, n) : TRUE]
  OBVIOUS
<1>4. \A n \in Nat : c[n] \in Turns(S, g, x, n)
  BY <1>1, <1>3
<1>5. PICK f : f = [n \in Nat |-> c[n][n]]
  OBVIOUS
<1>6. f \in [Nat -> S] /\ f[0] = x
  BY <1>4, <1>5 DEF Turns
<1>7. ASSUME NEW n \in Nat PROVE f[n + 1] = g[n + 1][f[n]]
  <2>1. c[n] \in Turns(S, g, x, n) /\ c[n + 1] \in Turns(S, g, x, n + 1)
    BY <1>4
  <2>2. c[n + 1][n] = c[n][n]
    BY <1>2, <2>1
  <2>3. c[n + 1][n + 1] = g[n + 1][c[n + 1][n]]
    BY <2>1 DEF Turns
  <2> QED  BY <1>5, <2>2, <2>3
<1> QED  BY <1>6, <1>7 DEF Loop

\* A loop along pointers.
Steps(S, f, x, w) == w \in [Nat -> S] /\ w[0] = x /\ \A n \in Nat : w[n + 1] = f[w[n]]

\* Walk(), the recursive function, is that loop.
LEMMA WalkSteps ==
    ASSUME NEW S, NEW f \in [S -> S], NEW x \in S
    PROVE  Steps(S, f, x, Walk(f, x))
<1>1. PICK h \in [Nat -> S] : h[0] = x /\ \A n \in Nat : h[n + 1] = f[h[n]]
  <2>1. PICK g : g = [n \in Nat |-> f]
    OBVIOUS
  <2>2. \E h : Loop(S, g, x, h)
    BY <2>1, LoopExists
  <2> QED  BY <2>1, <2>2 DEF Loop
<1>2. h = [k \in Nat |-> IF k = 0 THEN x ELSE f[h[k - 1]]]
  <2>1. \A k \in Nat : h[k] = IF k = 0 THEN x ELSE f[h[k - 1]]
    <3>1. ASSUME NEW k \in Nat, k # 0 PROVE h[k] = f[h[k - 1]]
      <4>1. k - 1 \in Nat /\ (k - 1) + 1 = k
        BY <3>1
      <4> QED  BY <1>1, <4>1
    <3> QED  BY <1>1, <3>1
  <2> QED  BY <2>1
<1>3. PICK w : w = Walk(f, x)
  OBVIOUS
<1>4. w = [k \in Nat |-> IF k = 0 THEN x ELSE f[w[k - 1]]]
  BY <1>2, <1>3 DEF Walk
<1>5. w[0] = x
  BY <1>4
<1>6. \A n \in Nat : w[n + 1] = f[w[n]]
  BY <1>4
<1> DEFINE T == {n \in Nat : w[n] \in S}
<1>7. T = Nat
  <2>1. T \in SUBSET Nat /\ 0 \in T /\ \A n \in T : n + 1 \in T
    BY <1>5, <1>6
  <2> HIDE DEF T
  <2> QED  BY <2>1, AllNat
<1>8. w \in [Nat -> S]
  BY <1>4, <1>7
<1> QED  BY <1>3, <1>5, <1>6, <1>8 DEF Steps

\* The elements of T among the first ones of a sequence, one more at a time.
LEMMA SiftedSteps ==
    ASSUME NEW S, NEW s \in Seq(S), NEW T
    PROVE  /\ Sifted(s, T)[0] = <<>>
           /\ \A n \in 0 .. Len(s) : Sifted(s, T)[n] \in Seq(S)
           /\ \A n \in Nat : n < Len(s) =>
                 Sifted(s, T)[n + 1] = IF s[n + 1] \in T THEN Append(Sifted(s, T)[n], s[n + 1])
                                                         ELSE Sifted(s, T)[n]
<1>1. Len(s) \in Nat /\ \A n \in 1 .. Len(s) : s[n] \in S
  OBVIOUS
<1>2. <<>> \in Seq(S) /\ \A n \in 1 .. Len(s), u \in Seq(S) : Append(u, s[n]) \in Seq(S)
  BY <1>1, EmptySeq, AppendProperties
<1>3. PICK g : g = [n \in Nat |-> [u \in Seq(S) |->
                       IF n \in 1 .. Len(s) /\ s[n] \in T THEN Append(u, s[n]) ELSE u]]
  OBVIOUS
<1>4. \A n \in Nat : g[n] \in [Seq(S) -> Seq(S)]
  BY <1>2, <1>3
<1>5. PICK f : Loop(Seq(S), g, <<>>, f)
  BY <1>2, <1>4, LoopExists
<1>6. f[0] = <<>> /\ \A n \in Nat : f[n] \in Seq(S) /\ f[n + 1] = g[n + 1][f[n]]
  BY <1>5 DEF Loop
<1>7. ASSUME NEW n \in 1 .. Len(s)
      PROVE  f[n] = IF s[n] \in T THEN Append(f[n - 1], s[n]) ELSE f[n - 1]
  <2>1. n - 1 \in Nat /\ (n - 1) + 1 = n /\ n \in Nat
    BY <1>1
  <2>2. f[n] = g[n][f[n - 1]] /\ f[n - 1] \in Seq(S)
    BY <1>6, <2>1
  <2> QED  BY <1>3, <2>1, <2>2
<1>8. PICK h : h = [n \in 0 .. Len(s) |-> f[n]]
  OBVIOUS
<1>9. \A n \in 1 .. Len(s) : n # 0 /\ n - 1 \in 0 .. Len(s) /\ n \in 0 .. Len(s)
  BY <1>1
<1>10. \A n \in 0 .. Len(s) : n \in Nat /\ (n # 0 => n \in 1 .. Len(s)) /\ 0 \in 0 .. Len(s)
  BY <1>1
<1>11. \A n \in 0 .. Len(s) :
          h[n] = IF n = 0 THEN <<>>
                 ELSE IF s[n] \in T THEN Append(h[n - 1], s[n]) ELSE h[n - 1]
  BY <1>6, <1>7, <1>8, <1>9, <1>10
<1>12. h = [n \in 0 .. Len(s) |-> IF n = 0 THEN <<>>
                                  ELSE IF s[n] \in T THEN Append(h[n - 1], s[n])
                                  ELSE h[n - 1]]
  BY <1>8, <1>11
<1>13. PICK w : w = Sifted(s, T)
  OBVIOUS
<1>14. w = [n \in 0 .. Len(s) |-> IF n = 0 THEN <<>>
                                  ELSE IF s[n] \in T THEN Append(w[n - 1], s[n])
                                  ELSE w[n - 1]]
  BY <1>12, <1>13 DEF Sifted
<1>15. \A n \in 0 .. Len(s) :
          w[n] = IF n = 0 THEN <<>>
                 ELSE IF s[n] \in T THEN Append(w[n - 1], s[n]) ELSE w[n - 1]
  BY <1>14
<1>16. w[0] = <<>>
  BY <1>10, <1>15
<1>17. ASSUME NEW n \in Nat, n < Len(s)
       PROVE  w[n + 1] = IF s[n + 1] \in T THEN Append(w[n], s[n + 1]) ELSE w[n]
  <2>1. n + 1 \in 0 .. Len(s) /\ n + 1 # 0 /\ (n + 1) - 1 = n
    BY <1>1, <1>17
  <2>2. w[n + 1] = IF s[n + 1] \in T THEN Append(w[(n + 1) - 1], s[n + 1]) ELSE w[(n + 1) - 1]
    BY <1>15, <2>1
  <2> QED  BY <2>1, <2>2
<1> DEFINE N == {n \in Nat : n <= Len(s) => w[n] \in Seq(S)}
<1>18. 0 \in N
  BY <1>2, <1>16
<1>19. ASSUME NEW n \in N PROVE n + 1 \in N
  <2>1. n + 1 <= Len(s) => n + 1 \in 1 .. Len(s) /\ n < Len(s) /\ n <= Len(s)
    BY <1>1
  <2>2. n + 1 <= Len(s) => w[n] \in Seq(S)
    BY <2>1
  <2>3. n \in Nat /\ (n + 1 <= Len(s) => w[n + 1] \in {w[n], Append(w[n], s[n + 1])})
    BY <1>17, <2>1
  <2>4. n + 1 <= Len(s) => Append(w[n], s[n + 1]) \in Seq(S)
    BY <1>2, <2>1, <2>2
  <2>5. n + 1 <= Len(s) => w[n + 1] \in Seq(S)
    BY <2>2, <2>3, <2>4
  <2> QED  BY <2>3, <2>5
<1> HIDE DEF N
<1>20. N = Nat
  <2>1. N \in SUBSET Nat
    BY DEF N
  <2> QED  BY <1>18, <1>19, <2>1, AllNat
<1>21. \A n \in 0 .. Len(s) : w[n] \in Seq(S)
  BY <1>1, <1>20 DEF N
<1> QED  BY <1>13, <1>16, <1>17, <1>21

\* They are those of the sequence that are in T, each once if it has each once.
LEMMA SiftedMembers ==
    ASSUME NEW S, NEW s \in Seq(S), NEW T, NEW n \in 0 .. Len(s)
    PROVE  /\ Members(Sifted(s, T)[n]) = {s[i] : i \in 1 .. n} \cap T
           /\ Distinct(s) => Distinct(Sifted(s, T)[n])
           /\ Len(Sifted(s, T)[n]) <= n
<1>1. PICK w : w = Sifted(s, T)
  OBVIOUS
<1>2. /\ w[0] = <<>> /\ Len(s) \in Nat
      /\ \A k \in 0 .. Len(s) : w[k] \in Seq(S)
      /\ \A k \in Nat : k < Len(s) =>
            w[k + 1] = IF s[k + 1] \in T THEN Append(w[k], s[k + 1]) ELSE w[k]
      /\ \A k \in 1 .. Len(s) : s[k] \in S
  BY <1>1, SiftedSteps
<1> DEFINE N == {k \in Nat : k <= Len(s) =>
                    /\ Members(w[k]) = {s[i] : i \in 1 .. k} \cap T
                    /\ Distinct(s) => Distinct(w[k])
                    /\ Len(w[k]) <= k}
<1>3. 0 \in N
  BY <1>2 DEF Members, Distinct
<1>4. ASSUME NEW k \in N PROVE k + 1 \in N
  <2> SUFFICES ASSUME k + 1 <= Len(s)
               PROVE  /\ Members(w[k + 1]) = {s[i] : i \in 1 .. k + 1} \cap T
                      /\ Distinct(s) => Distinct(w[k + 1])
                      /\ Len(w[k + 1]) <= k + 1
    OBVIOUS
  <2>1. /\ k \in Nat /\ Members(w[k]) = {s[i] : i \in 1 .. k} \cap T
        /\ Distinct(s) => Distinct(w[k])
        /\ Len(w[k]) <= k
    BY <1>2
  <2> HIDE DEF N
  <2>2. /\ k + 1 \in 1 .. Len(s) /\ s[k + 1] \in S /\ w[k] \in Seq(S)
        /\ w[k + 1] = IF s[k + 1] \in T THEN Append(w[k], s[k + 1]) ELSE w[k]
    BY <1>2, <2>1
  <2>3. {s[i] : i \in 1 .. k + 1} = {s[i] : i \in 1 .. k} \cup {s[k + 1]}
    BY <2>1
  <2>4. CASE s[k + 1] \in T
    <3>1. /\ Members(w[k + 1]) = Members(w[k]) \cup {s[k + 1]}
          /\ Distinct(w[k]) /\ s[k + 1] \notin Members(w[k]) => Distinct(w[k + 1])
      BY <2>2, <2>4, AppendMembers
    <3>2. Distinct(s) => s[k + 1] \notin {s[i] : i \in 1 .. k}
      BY <1>2, <2>1, <2>2 DEF Distinct
    <3>3. Len(w[k + 1]) = Len(w[k]) + 1 /\ Len(w[k]) \in Nat
      BY <2>2, <2>4
    <3> QED  BY <2>1, <2>3, <2>4, <3>1, <3>2, <3>3
  <2>5. CASE s[k + 1] \notin T
    BY <2>1, <2>2, <2>3, <2>5
  <2> QED  BY <2>4, <2>5
<1> HIDE DEF N
<1>5. N = Nat
  <2>1. N \in SUBSET Nat
    BY DEF N
  <2> QED  BY <1>3, <1>4, <2>1, AllNat
<1>6. n \in N /\ n <= Len(s)
  BY <1>2, <1>5
<1> QED  BY <1>1, <1>6 DEF N

\* If the first ones are all in T they stay as they are.
LEMMA SiftedAll ==
    ASSUME NEW S, NEW s \in Seq(S), NEW T, NEW n \in 0 .. Len(s),
           \A i \in 1 .. n : s[i] \in T
    PROVE  Len(Sifted(s, T)[n]) = n /\ \A i \in 1 .. n : Sifted(s, T)[n][i] = s[i]
<1>1. PICK w : w = Sifted(s, T)
  OBVIOUS
<1>2. /\ w[0] = <<>> /\ Len(s) \in Nat
      /\ \A k \in 0 .. Len(s) : w[k] \in Seq(S)
      /\ \A k \in Nat : k < Len(s) =>
            w[k + 1] = IF s[k + 1] \in T THEN Append(w[k], s[k + 1]) ELSE w[k]
  BY <1>1, SiftedSteps
<1> DEFINE N == {k \in Nat : k <= n => Len(w[k]) = k /\ \A i \in 1 .. k : w[k][i] = s[i]}
<1>3. 0 \in N
  BY <1>2
<1>4. ASSUME NEW k \in N PROVE k + 1 \in N
  <2> SUFFICES ASSUME k + 1 <= n
               PROVE  Len(w[k + 1]) = k + 1 /\ \A i \in 1 .. k + 1 : w[k + 1][i] = s[i]
    OBVIOUS
  <2>1. k \in Nat /\ Len(w[k]) = k /\ \A i \in 1 .. k : w[k][i] = s[i]
    BY <1>2
  <2>2. w[k] \in Seq(S) /\ w[k + 1] = Append(w[k], s[k + 1])
    <3>1. k < Len(s) /\ k \in 0 .. Len(s) /\ k + 1 \in 1 .. n
      BY <1>2, <2>1
    <3>2. s[k + 1] \in T
      BY <3>1
    <3> QED  BY <1>2, <2>1, <3>1, <3>2
  <2> QED  BY <2>1, <2>2
<1> HIDE DEF N
<1>5. N = Nat
  <2>1. N \in SUBSET Nat
    BY DEF N
  <2> QED  BY <1>3, <1>4, <2>1, AllNat
<1> QED  BY <1>1, <1>2, <1>5 DEF N

\* All but the j-th.
LEMMA SiftedButOne ==
    ASSUME NEW S, NEW s \in Seq(S), NEW T, NEW j \in 1 .. Len(s), s[j] \notin T,
           \A i \in 1 .. Len(s) : i # j => s[i] \in T
    PROVE  /\ Len(Only(s, T)) = Len(s) - 1
           /\ \A i \in 1 .. Len(s) - 1 : Only(s, T)[i] = IF i < j THEN s[i] ELSE s[i + 1]
<1>1. PICK w : w = Sifted(s, T)
  OBVIOUS
<1>2. /\ w[0] = <<>> /\ Len(s) \in Nat
      /\ \A k \in 0 .. Len(s) : w[k] \in Seq(S)
      /\ \A k \in Nat : k < Len(s) =>
            w[k + 1] = IF s[k + 1] \in T THEN Append(w[k], s[k + 1]) ELSE w[k]
  BY <1>1, SiftedSteps
<1>3. Len(w[j - 1]) = j - 1 /\ \A i \in 1 .. j - 1 : w[j - 1][i] = s[i]
  <2>1. j - 1 \in 0 .. Len(s) /\ \A i \in 1 .. j - 1 : s[i] \in T
    BY SMTT(40), <1>2
  <2> QED  BY <1>1, <2>1, SiftedAll
<1> DEFINE N == {k \in Nat : j <= k /\ k <= Len(s) =>
                    /\ Len(w[k]) = k - 1
                    /\ \A i \in 1 .. k - 1 : w[k][i] = IF i < j THEN s[i] ELSE s[i + 1]}
<1>4. 0 \in N
  BY <1>2
<1>5. ASSUME NEW k \in N PROVE k + 1 \in N
  <2> SUFFICES ASSUME j <= k + 1, k + 1 <= Len(s)
               PROVE  /\ Len(w[k + 1]) = k
                      /\ \A i \in 1 .. k : w[k + 1][i] = IF i < j THEN s[i] ELSE s[i + 1]
    <3>1. k \in Nat /\ k + 1 \in Nat /\ (k + 1) - 1 = k
      OBVIOUS
    <3> QED  BY SMTT(40), <3>1
  <2>1. CASE j = k + 1
    <3>1. w[k + 1] = w[k] /\ j - 1 = k
      <4>1. k < Len(s) /\ k \in Nat /\ s[k + 1] = s[j]
        BY <1>2, <2>1
      <4> QED  BY <1>2, <2>1, <4>1
    <3> QED  BY <1>3, <2>1, <3>1
  <2>2. CASE j <= k
    <3>1. k <= Len(s) /\ k \in Nat
      BY <1>2
    <3>2. /\ Len(w[k]) = k - 1
          /\ \A i \in 1 .. k - 1 : w[k][i] = IF i < j THEN s[i] ELSE s[i + 1]
      BY <2>2, <3>1
    <3>3. k < Len(s) /\ k \in 0 .. Len(s) /\ k + 1 \in 1 .. Len(s) /\ k + 1 # j
      BY <1>2, <2>2
    <3>4. s[k + 1] \in T
      BY <3>3
    <3>5. w[k] \in Seq(S) /\ w[k + 1] = Append(w[k], s[k + 1])
      BY <1>2, <3>1, <3>3, <3>4
    <3> QED  BY <2>2, <3>1, <3>2, <3>5
  <2> QED  BY <2>1, <2>2
<1> HIDE DEF N
<1>6. N = Nat
  <2>1. N \in SUBSET Nat
    BY DEF N
  <2> QED  BY <1>4, <1>5, <2>1, AllNat
<1>7. w[Len(s)] = Only(s, T)
  BY <1>1 DEF Only
<1>8. Len(s) \in N /\ j <= Len(s) /\ Len(s) <= Len(s)
  BY <1>2, <1>6
<1> QED  BY <1>7, <1>8 DEF N

-----------------------------------------------------------------------------
(* Rings of nodes.                                                         *)

Heaps == [next : [RNodes -> RNodes], prev : [RNodes -> RNodes]]

\* A head with nodes, none of them twice; and all of its nodes.
IsRing(h, s) == h \in RNodes /\ s \in Seq(RNodes) /\ Distinct(s) /\ h \notin Members(s)
Ring(h, s) == {h} \cup Members(s)

\* The i-th node of the ring from the head, which is before and behind them all.
Point(h, s, i) == IF i \in DOMAIN s THEN s[i] ELSE h

\* Points of a ring.
LEMMA Points ==
    ASSUME NEW h, NEW s, IsRing(h, s)
    PROVE  /\ Len(s) \in Nat /\ Point(h, s, 0) = h /\ Point(h, s, Len(s) + 1) = h
           /\ \A i \in 1 .. Len(s) : Point(h, s, i) = s[i] /\ s[i] # h
           /\ \A i, k \in 0 .. Len(s) : Point(h, s, i) = Point(h, s, k) => i = k
           /\ \A i, k \in 1 .. Len(s) + 1 : Point(h, s, i) = Point(h, s, k) => i = k
           /\ \A i \in 0 .. Len(s) + 1 : Point(h, s, i) \in Ring(h, s)
           /\ \A x \in Ring(h, s) : /\ \E i \in 0 .. Len(s) : x = Point(h, s, i)
                                    /\ \E i \in 1 .. Len(s) + 1 : x = Point(h, s, i)
           /\ Ring(h, s) \subseteq RNodes
<1>1. s \in Seq(RNodes) /\ h \in RNodes /\ DOMAIN s = 1 .. Len(s) /\ Len(s) \in Nat
  BY DEF IsRing
<1>2. \A i \in 1 .. Len(s) : s[i] \in RNodes /\ s[i] \in Members(s) /\ s[i] # h
  BY <1>1 DEF IsRing, Members
<1>3. /\ Point(h, s, 0) = h /\ Point(h, s, Len(s) + 1) = h
      /\ \A i \in 1 .. Len(s) : Point(h, s, i) = s[i]
  BY <1>1 DEF Point
<1>4. \A i, k \in 1 .. Len(s) : s[i] = s[k] => i = k
  BY DEF IsRing, Distinct
<1>5. \A i \in 0 .. Len(s) : i = 0 \/ i \in 1 .. Len(s)
  BY <1>1
<1>6. \A i \in 1 .. Len(s) + 1 : i = Len(s) + 1 \/ i \in 1 .. Len(s)
  BY <1>1
<1>7. \A i, k \in 0 .. Len(s) : Point(h, s, i) = Point(h, s, k) => i = k
  BY <1>2, <1>3, <1>4, <1>5
<1>8. \A i, k \in 1 .. Len(s) + 1 : Point(h, s, i) = Point(h, s, k) => i = k
  BY <1>2, <1>3, <1>4, <1>6
<1>9. \A i \in 0 .. Len(s) + 1 : Point(h, s, i) \in Ring(h, s)
  <2>1. \A i \in 0 .. Len(s) + 1 : i = 0 \/ i = Len(s) + 1 \/ i \in 1 .. Len(s)
    BY <1>1
  <2> QED  BY <1>2, <1>3, <2>1 DEF Ring
<1>10. \A x \in Ring(h, s) : /\ \E i \in 0 .. Len(s) : x = Point(h, s, i)
                             /\ \E i \in 1 .. Len(s) + 1 : x = Point(h, s, i)
  <2>1. \A x \in Members(s) : \E i \in 1 .. Len(s) : x = s[i]
    BY DEF Members
  <2>2. /\ \A i \in 1 .. Len(s) : i \in 0 .. Len(s) /\ i \in 1 .. Len(s) + 1
        /\ 0 \in 0 .. Len(s) /\ Len(s) + 1 \in 1 .. Len(s) + 1
    BY <1>1
  <2> QED  BY <1>3, <2>1, <2>2 DEF Ring
<1>11. Ring(h, s) \subseteq RNodes
  BY <1>1 DEF Ring, Members
<1> QED  BY <1>1, <1>2, <1>3, <1>7, <1>8, <1>9, <1>10, <1>11

\* The pointers of a ring, place by place.
LEMMA LinkedPoints ==
    ASSUME NEW r, NEW h, NEW s
    PROVE  Linked(r, h, s) <=>
              \A i \in 0 .. Len(s) : /\ r.next[Point(h, s, i)] = Point(h, s, i + 1)
                                     /\ r.prev[Point(h, s, i + 1)] = Point(h, s, i)
  BY DEF Linked, Point

\* A ring is closed.
LEMMA RingClosed ==
    ASSUME NEW r, NEW h, NEW s, IsRing(h, s), Linked(r, h, s), NEW x \in Ring(h, s)
    PROVE  /\ r.next[x] \in Ring(h, s) /\ r.prev[x] \in Ring(h, s)
           /\ r.prev[r.next[x]] = x /\ r.next[r.prev[x]] = x
<1>1. PICK i \in 0 .. Len(s) : x = Point(h, s, i)
  BY Points
<1>2. PICK k \in 1 .. Len(s) + 1 : x = Point(h, s, k)
  BY Points
<1>3. k - 1 \in 0 .. Len(s) /\ (k - 1) + 1 = k /\ k - 1 \in 0 .. Len(s) + 1
      /\ i + 1 \in 0 .. Len(s) + 1
  BY Points
<1>4. r.next[x] = Point(h, s, i + 1) /\ r.prev[Point(h, s, i + 1)] = x
  BY <1>1, LinkedPoints
<1>5. r.prev[x] = Point(h, s, k - 1) /\ r.next[Point(h, s, k - 1)] = x
  BY <1>2, <1>3, LinkedPoints
<1> QED  BY <1>3, <1>4, <1>5, Points

\* rlnode_swap(): f is left with what was in the other of x and y.
Swapped(f, p, x, y) ==
    /\ p \in [RNodes -> RNodes]
    /\ p[x] = f[y] /\ p[y] = f[x]
    /\ \A z \in RNodes : z # x /\ z # y => p[z] = f[z]

\* rlnode_swap() leaves all pointers but the two alone.
LEMMA SwapFields ==
    ASSUME NEW f \in [RNodes -> RNodes], NEW x \in RNodes, NEW y \in RNodes
    PROVE  Swapped(f, rlnode_swap(f, x, y), x, y)
  BY DEF rlnode_swap, Swapped

\* rl_splice()
Spliced(r, q, a, b) ==
    /\ r \in Heaps /\ q \in Heaps
    /\ r.next[a] \in RNodes /\ r.next[b] \in RNodes
    /\ Swapped(r.next, q.next, a, b) /\ Swapped(r.prev, q.prev, r.next[a], r.next[b])

\* rl_splice() swaps two next pointers and the two prev pointers opposite them.
LEMMA SpliceFields ==
    ASSUME NEW r \in Heaps, NEW a \in RNodes, NEW b \in RNodes
    PROVE  Spliced(r, rl_splice(r, a, b), a, b)
<1>1. /\ r.next \in [RNodes -> RNodes] /\ r.prev \in [RNodes -> RNodes]
      /\ r.next[a] \in RNodes /\ r.next[b] \in RNodes
  BY DEF Heaps
<1>2. PICK q : q = rl_splice(r, a, b)
  OBVIOUS
<1>3. q.next = rlnode_swap(r.next, a, b) /\ q.prev = rlnode_swap(r.prev, r.next[a], r.next[b])
      /\ q = [prev |-> q.prev, next |-> q.next]
  BY <1>2 DEF rl_splice
<1>4. Swapped(r.next, q.next, a, b)
  BY <1>1, <1>3, SwapFields
<1>5. Swapped(r.prev, q.prev, r.next[a], r.next[b])
  BY <1>1, <1>3, SwapFields
<1>6. q \in Heaps
  BY <1>3, <1>4, <1>5 DEF Heaps, Swapped
<1> QED  BY <1>1, <1>2, <1>4, <1>5, <1>6 DEF Spliced

\* A ring without the two nodes and the next ones stays as it is.
LEMMA OtherRings ==
    ASSUME NEW r, NEW q, NEW a \in RNodes, NEW b \in RNodes, Spliced(r, q, a, b),
           NEW h, NEW s, IsRing(h, s), Linked(r, h, s),
           a \notin Ring(h, s), b \notin Ring(h, s),
           r.next[a] \notin Ring(h, s), r.next[b] \notin Ring(h, s)
    PROVE  Linked(q, h, s)
<1>1. ASSUME NEW i \in 0 .. Len(s)
      PROVE  /\ q.next[Point(h, s, i)] = Point(h, s, i + 1)
             /\ q.prev[Point(h, s, i + 1)] = Point(h, s, i)
  <2>1. i \in 0 .. Len(s) + 1 /\ i + 1 \in 0 .. Len(s) + 1
    BY Points
  <2>2. /\ Point(h, s, i) \in Ring(h, s) /\ Point(h, s, i + 1) \in Ring(h, s)
        /\ Point(h, s, i) \in RNodes /\ Point(h, s, i + 1) \in RNodes
    BY <2>1, Points
  <2>3. /\ r.next[Point(h, s, i)] = Point(h, s, i + 1)
        /\ r.prev[Point(h, s, i + 1)] = Point(h, s, i)
    BY LinkedPoints
  <2> QED  BY <2>2, <2>3 DEF Spliced, Swapped
<1> QED  BY <1>1, LinkedPoints

\* What ring h is when ring g is put behind its j-th place.
Joined(u, s, j, t, g) ==
    /\ u \in Seq(RNodes) /\ Len(u) = Len(s) + Len(t) + 1
    /\ \A i \in 1 .. j : u[i] = s[i]
    /\ \A i \in 1 .. Len(t) : u[j + i] = t[i]
    /\ u[j + Len(t) + 1] = g
    /\ \A i \in j + 1 .. Len(s) : u[i + Len(t) + 1] = s[i]

\* Two rings become one.
LEMMA JoinRings ==
    ASSUME NEW r, NEW q, NEW h, NEW s, IsRing(h, s), Linked(r, h, s),
           NEW g, NEW t, IsRing(g, t), Linked(r, g, t), Ring(h, s) \cap Ring(g, t) = {},
           NEW j \in 0 .. Len(s), Spliced(r, q, Point(h, s, j), g),
           NEW u, Joined(u, s, j, t, g)
    PROVE  Linked(q, h, u) /\ IsRing(h, u) /\ Ring(h, u) = Ring(h, s) \cup Ring(g, t)
<1>1. /\ Len(s) \in Nat /\ Len(t) \in Nat /\ j \in Nat /\ j <= Len(s)
      /\ Len(u) = Len(s) + Len(t) + 1
      /\ s \in Seq(RNodes) /\ t \in Seq(RNodes) /\ u \in Seq(RNodes)
  BY Points DEF IsRing, Joined
<1>2. /\ \A i \in 0 .. j : Point(h, u, i) = Point(h, s, i)
      /\ \A i \in 1 .. Len(t) + 1 : Point(h, u, j + i) = Point(g, t, i)
      /\ \A i \in j + 1 .. Len(s) + 1 : Point(h, u, i + Len(t) + 1) = Point(h, s, i)
  <2>1. DOMAIN s = 1 .. Len(s) /\ DOMAIN t = 1 .. Len(t) /\ DOMAIN u = 1 .. Len(u)
    BY <1>1
  <2>2. ASSUME NEW i \in 0 .. j PROVE Point(h, u, i) = Point(h, s, i)
    <3>1. (i \in DOMAIN u <=> i \in 1 .. j) /\ (i \in DOMAIN s <=> i \in 1 .. j)
      BY <1>1, <2>1
    <3> QED  BY <3>1 DEF Point, Joined
  <2>3. ASSUME NEW i \in 1 .. Len(t) + 1 PROVE Point(h, u, j + i) = Point(g, t, i)
    <3>1. j + i \in DOMAIN u /\ (i \in 1 .. Len(t) \/ i = Len(t) + 1)
      BY <1>1, <2>1
    <3>2. CASE i \in 1 .. Len(t)
      BY <2>1, <3>1, <3>2 DEF Point, Joined
    <3>3. CASE i = Len(t) + 1
      <4>1. i \notin DOMAIN t /\ j + i = j + Len(t) + 1
        BY <1>1, <2>1, <3>3
      <4> QED  BY <3>1, <4>1 DEF Point, Joined
    <3> QED  BY <3>1, <3>2, <3>3
  <2>4. ASSUME NEW i \in j + 1 .. Len(s) + 1
        PROVE  Point(h, u, i + Len(t) + 1) = Point(h, s, i)
    <3>1. CASE i \in j + 1 .. Len(s)
      <4>1. i \in DOMAIN s /\ i + Len(t) + 1 \in DOMAIN u
        BY <1>1, <2>1, <3>1
      <4> QED  BY <3>1, <4>1 DEF Point, Joined
    <3>2. CASE i = Len(s) + 1
      <4>1. i \notin DOMAIN s /\ i + Len(t) + 1 \notin DOMAIN u
        BY <1>1, <2>1, <3>2
      <4> QED  BY <4>1 DEF Point
    <3> QED  BY <1>1, <3>1, <3>2
  <2> QED  BY <2>2, <2>3, <2>4
<1>3. /\ Point(h, s, j) \in Ring(h, s) /\ g \in Ring(g, t) /\ Point(h, s, j) # g
      /\ r.next[Point(h, s, j)] = Point(h, s, j + 1) /\ r.next[g] = Point(g, t, 1)
      /\ r.prev[Point(h, s, j + 1)] = Point(h, s, j) /\ r.prev[Point(g, t, 1)] = g
      /\ Point(h, s, j + 1) \in Ring(h, s) /\ Point(g, t, 1) \in Ring(g, t)
  <2>1. /\ j \in 0 .. Len(s) /\ j \in 0 .. Len(s) + 1 /\ j + 1 \in 0 .. Len(s) + 1
        /\ 0 \in 0 .. Len(t) /\ 1 \in 0 .. Len(t) + 1 /\ 0 + 1 = 1
    BY <1>1
  <2>2. Point(g, t, 0) = g /\ g \in Ring(g, t)
    BY Points DEF Ring
  <2> QED  BY SMTT(40), <2>1, <2>2, Points, LinkedPoints
<1>4. /\ q.next[Point(h, s, j)] = Point(g, t, 1) /\ q.next[g] = Point(h, s, j + 1)
      /\ q.prev[Point(h, s, j + 1)] = g /\ q.prev[Point(g, t, 1)] = Point(h, s, j)
      /\ \A x \in RNodes : x # Point(h, s, j) /\ x # g => q.next[x] = r.next[x]
      /\ \A x \in RNodes : x # Point(h, s, j + 1) /\ x # Point(g, t, 1) => q.prev[x] = r.prev[x]
  BY <1>3 DEF Spliced, Swapped
<1>5. ASSUME NEW i \in 0 .. Len(s), i # j
      PROVE  /\ q.next[Point(h, s, i)] = Point(h, s, i + 1)
             /\ q.prev[Point(h, s, i + 1)] = Point(h, s, i)
  <2>1. /\ i + 1 \in 1 .. Len(s) + 1 /\ j + 1 \in 1 .. Len(s) + 1 /\ i + 1 # j + 1
        /\ i \in 0 .. Len(s) + 1 /\ i + 1 \in 0 .. Len(s) + 1
    BY <1>1, <1>5
  <2>2. /\ Point(h, s, i) # Point(h, s, j) /\ Point(h, s, i + 1) # Point(h, s, j + 1)
        /\ Point(h, s, i) \in Ring(h, s) /\ Point(h, s, i + 1) \in Ring(h, s)
        /\ Point(h, s, i) \in RNodes /\ Point(h, s, i + 1) \in RNodes
    BY <1>5, <2>1, Points
  <2>3. r.next[Point(h, s, i)] = Point(h, s, i + 1) /\ r.prev[Point(h, s, i + 1)] = Point(h, s, i)
    BY LinkedPoints
  <2> QED  BY <1>3, <1>4, <2>2, <2>3
<1>6. ASSUME NEW i \in 1 .. Len(t)
      PROVE  /\ q.next[Point(g, t, i)] = Point(g, t, i + 1)
             /\ q.prev[Point(g, t, i + 1)] = Point(g, t, i)
  <2>1. /\ i + 1 \in 1 .. Len(t) + 1 /\ 1 \in 1 .. Len(t) + 1 /\ i + 1 # 1
        /\ i \in 0 .. Len(t) /\ i \in 0 .. Len(t) + 1 /\ i + 1 \in 0 .. Len(t) + 1
    BY <1>1
  <2>2. /\ Point(g, t, i) # g /\ Point(g, t, i + 1) # Point(g, t, 1)
        /\ Point(g, t, i) \in Ring(g, t) /\ Point(g, t, i + 1) \in Ring(g, t)
        /\ Point(g, t, i) \in RNodes /\ Point(g, t, i + 1) \in RNodes
    BY <2>1, Points
  <2>3. r.next[Point(g, t, i)] = Point(g, t, i + 1) /\ r.prev[Point(g, t, i + 1)] = Point(g, t, i)
    BY <2>1, LinkedPoints
  <2> QED  BY <1>3, <1>4, <2>2, <2>3
<1>7. ASSUME NEW i \in 0 .. Len(u)
      PROVE  /\ q.next[Point(h, u, i)] = Point(h, u, i + 1)
             /\ q.prev[Point(h, u, i + 1)] = Point(h, u, i)
  <2>1. CASE i < j
    <3>1. i \in 0 .. j /\ i + 1 \in 0 .. j /\ i \in 0 .. Len(s) /\ i # j
      BY <1>1, <2>1
    <3> QED  BY <1>2, <1>5, <3>1
  <2>2. CASE i = j
    <3>1. i \in 0 .. j /\ 1 \in 1 .. Len(t) + 1
      BY <1>1, <2>2
    <3> QED  BY <1>2, <1>4, <2>2, <3>1
  <2>3. CASE j < i /\ i <= j + Len(t)
    <3>1. PICK k : k = i - j
      OBVIOUS
    <3>2. /\ k \in 1 .. Len(t) /\ i = j + k /\ i + 1 = j + (k + 1)
          /\ k \in 1 .. Len(t) + 1 /\ k + 1 \in 1 .. Len(t) + 1
      BY <1>1, <2>3, <3>1
    <3> QED  BY <1>2, <1>6, <3>2
  <2>4. CASE i = j + Len(t) + 1
    <3>1. /\ Len(t) + 1 \in 1 .. Len(t) + 1 /\ i = j + (Len(t) + 1)
          /\ j + 1 \in j + 1 .. Len(s) + 1 /\ i + 1 = (j + 1) + Len(t) + 1
      BY <1>1, <2>4
    <3>2. Point(g, t, Len(t) + 1) = g
      BY Points
    <3> QED  BY <1>2, <1>4, <3>1, <3>2
  <2>5. CASE i > j + Len(t) + 1
    <3>1. PICK k : k = i - (Len(t) + 1)
      OBVIOUS
    <3>2. /\ k \in j + 1 .. Len(s) + 1 /\ k + 1 \in j + 1 .. Len(s) + 1
          /\ k \in 0 .. Len(s) /\ k # j
          /\ i = k + Len(t) + 1 /\ i + 1 = (k + 1) + Len(t) + 1
      BY <1>1, <2>5, <3>1
    <3> QED  BY SMTT(40), <1>2, <1>5, <3>2
  <2>6. i < j \/ i = j \/ (j < i /\ i <= j + Len(t)) \/ i = j + Len(t) + 1 \/ i > j + Len(t) + 1
    BY SMTT(40), <1>1
  <2> QED  BY ONLY <2>1, <2>2, <2>3, <2>4, <2>5, <2>6
<1>8. Linked(q, h, u)
  BY <1>7, LinkedPoints
<1>9. ASSUME NEW i \in 1 .. Len(u)
      PROVE  \/ \E k \in 1 .. Len(s) :
                   u[i] = s[k] /\ i = IF k <= j THEN k ELSE k + Len(t) + 1
             \/ \E k \in 1 .. Len(t) + 1 : u[i] = Point(g, t, k) /\ i = j + k
  <2>1. u[i] = Point(h, u, i) /\ \A k \in 1 .. Len(s) : Point(h, s, k) = s[k]
    BY <1>1 DEF Point
  <2>2. CASE i <= j
    <3>1. i \in 0 .. j /\ i \in 1 .. Len(s)
      BY <1>1, <2>2
    <3>2. Point(h, u, i) = Point(h, s, i) /\ Point(h, s, i) = s[i]
      BY ONLY <1>2, <2>1, <3>1
    <3> QED  BY <2>1, <2>2, <3>1, <3>2
  <2>3. CASE j < i /\ i <= j + Len(t) + 1
    <3>1. PICK k : k = i - j
      OBVIOUS
    <3>2. k \in 1 .. Len(t) + 1 /\ i = j + k
      BY <1>1, <2>3, <3>1
    <3> QED  BY <1>2, <2>1, <3>2
  <2>4. CASE i > j + Len(t) + 1
    <3>1. PICK k : k = i - (Len(t) + 1)
      OBVIOUS
    <3>2. k \in j + 1 .. Len(s) + 1 /\ k \in 1 .. Len(s) /\ k > j /\ i = k + Len(t) + 1
      BY <1>1, <2>4, <3>1
    <3> QED  BY <1>2, <2>1, <3>2
  <2> QED  BY <1>1, <2>2, <2>3, <2>4
<1>10. /\ \A k \in 1 .. Len(s) : s[k] \in Ring(h, s) /\ s[k] # h
       /\ \A k \in 1 .. Len(t) + 1 : Point(g, t, k) \in Ring(g, t)
       /\ \A k, m \in 1 .. Len(s) : s[k] = s[m] => k = m
       /\ \A k, m \in 1 .. Len(t) + 1 : Point(g, t, k) = Point(g, t, m) => k = m
       /\ h \in Ring(h, s)
  <2>1. /\ \A k \in 1 .. Len(s) : k \in 0 .. Len(s) + 1
        /\ \A k \in 1 .. Len(t) + 1 : k \in 0 .. Len(t) + 1
    BY <1>1
  <2>2. \A k, m \in 1 .. Len(s) : s[k] = s[m] => k = m
    BY DEF IsRing, Distinct
  <2>3. h \in Ring(h, s)
    BY DEF Ring
  <2>4. \A k \in 1 .. Len(t) + 1 : Point(g, t, k) \in Ring(g, t)
    BY <2>1, Points
  <2>5. \A k, m \in 1 .. Len(t) + 1 : Point(g, t, k) = Point(g, t, m) => k = m
    BY Points
  <2>6. \A k \in 1 .. Len(s) : s[k] \in Ring(h, s) /\ s[k] # h
    BY <2>1, Points
  <2> QED  BY <2>2, <2>3, <2>4, <2>5, <2>6
<1>11. Distinct(u)
  <2> SUFFICES ASSUME NEW i \in 1 .. Len(u), NEW m \in 1 .. Len(u), u[i] = u[m] PROVE i = m
    BY DEF Distinct
  <2>1. CASE \E k \in 1 .. Len(t) + 1 : u[i] = Point(g, t, k) /\ i = j + k
    BY <1>9, <1>10, <2>1
  <2>2. CASE \E k \in 1 .. Len(s) :
                u[i] = s[k] /\ i = IF k <= j THEN k ELSE k + Len(t) + 1
    <3>1. PICK k \in 1 .. Len(s) :
             u[i] = s[k] /\ i = IF k <= j THEN k ELSE k + Len(t) + 1
      BY <2>2
    <3>2. PICK n \in 1 .. Len(s) :
             u[m] = s[n] /\ m = IF n <= j THEN n ELSE n + Len(t) + 1
      <4>1. ~ \E n \in 1 .. Len(t) + 1 : u[m] = Point(g, t, n) /\ m = j + n
        BY <1>10, <3>1
      <4> QED  BY <1>9, <4>1
    <3>3. k = n
      BY <1>10, <3>1, <3>2
    <3> QED  BY <1>1, <3>1, <3>2, <3>3
  <2> QED  BY <1>9, <2>1, <2>2
<1>12. h \notin Members(u)
  BY <1>9, <1>10 DEF Members
<1>13. Ring(h, u) = Ring(h, s) \cup Ring(g, t)
  <2>1. \A x \in Members(u) : x \in Ring(h, s) \cup Ring(g, t)
    BY <1>9, <1>10 DEF Members
  <2>2. \A x \in Ring(h, s) : x \in Ring(h, u)
    <3>1. ASSUME NEW i \in 0 .. Len(s) PROVE Point(h, s, i) \in Ring(h, u)
      <4>1. \A k \in 0 .. Len(u) + 1 : Point(h, u, k) \in Ring(h, u)
        BY <1>1 DEF Point, Ring, Members
      <4>2. CASE i <= j
        <5>1. i \in 0 .. j /\ i \in 0 .. Len(u) + 1
          BY <1>1, <4>2
        <5> QED  BY <1>2, <4>1, <5>1
      <4>3. CASE i > j
        <5>1. i \in j + 1 .. Len(s) + 1 /\ i + Len(t) + 1 \in 0 .. Len(u) + 1
          BY <1>1, <4>3
        <5> QED  BY <1>2, <4>1, <5>1
      <4> QED  BY <1>1, <4>2, <4>3
    <3> QED  BY <3>1, Points
  <2>3. \A x \in Ring(g, t) : x \in Ring(h, u)
    <3>1. ASSUME NEW i \in 1 .. Len(t) + 1 PROVE Point(g, t, i) \in Ring(h, u)
      <4>1. \A k \in 0 .. Len(u) + 1 : Point(h, u, k) \in Ring(h, u)
        BY <1>1 DEF Point, Ring, Members
      <4>2. j + i \in 0 .. Len(u) + 1
        BY <1>1
      <4> QED  BY <1>2, <4>1, <4>2
    <3> QED  BY <3>1, Points
  <2>4. h \in Ring(h, s)
    BY <1>10
  <2> QED  BY <2>1, <2>2, <2>3, <2>4 DEF Ring
<1>14. IsRing(h, u)
  BY <1>1, <1>11, <1>12 DEF IsRing
<1> QED  BY <1>8, <1>13, <1>14

\* What a list is without its j-th node.
Without(u, s, j) ==
    /\ u \in Seq(RNodes) /\ Len(u) = Len(s) - 1
    /\ \A i \in 1 .. Len(s) - 1 : u[i] = IF i < j THEN s[i] ELSE s[i + 1]

\* Ring h has become u without node a, which is a ring by itself.
Parting(q, h, s, u, a) ==
    /\ Linked(q, h, u) /\ IsRing(h, u)
    /\ \A y : y \in Ring(h, u) <=> y \in Ring(h, s) /\ y # a
    /\ Linked(q, a, <<>>) /\ IsRing(a, <<>>)

\* A node leaves a ring.
LEMMA NodeLeaves ==
    ASSUME NEW r, NEW q, NEW h, NEW s, IsRing(h, s), Linked(r, h, s),
           NEW j \in 1 .. Len(s), NEW a, a = s[j], Spliced(r, q, a, r.prev[a]),
           NEW u, Without(u, s, j)
    PROVE  Parting(q, h, s, u, a)
<1>1. /\ Len(s) \in Nat /\ j \in Nat /\ 1 <= j /\ j <= Len(s) /\ Len(u) = Len(s) - 1
      /\ s \in Seq(RNodes) /\ u \in Seq(RNodes) /\ Len(u) \in Nat
      /\ DOMAIN s = 1 .. Len(s) /\ DOMAIN u = 1 .. Len(u)
  BY Points DEF IsRing, Without
<1>2. /\ \A i \in 0 .. j - 1 : Point(h, u, i) = Point(h, s, i)
      /\ \A i \in j .. Len(s) : Point(h, u, i) = Point(h, s, i + 1)
  <2>1. ASSUME NEW i \in 0 .. j - 1 PROVE Point(h, u, i) = Point(h, s, i)
    <3>1. (i \in DOMAIN u <=> i # 0) /\ (i \in DOMAIN s <=> i # 0)
          /\ (i # 0 => i \in 1 .. Len(s) - 1 /\ i < j)
      BY <1>1
    <3> QED  BY <3>1 DEF Point, Without
  <2>2. ASSUME NEW i \in j .. Len(s) PROVE Point(h, u, i) = Point(h, s, i + 1)
    <3>1. /\ i \in DOMAIN u <=> i # Len(s)
          /\ i + 1 \in DOMAIN s <=> i # Len(s)
          /\ i # Len(s) => i \in 1 .. Len(s) - 1 /\ ~ (i < j)
      BY <1>1
    <3> QED  BY <3>1 DEF Point, Without
  <2> QED  BY <2>1, <2>2
<1> DEFINE p == Point(h, s, j - 1)
           n == Point(h, s, j + 1)
<1>3. /\ a = Point(h, s, j) /\ r.next[a] = n /\ r.prev[a] = p /\ r.next[p] = a /\ r.prev[n] = a
      /\ a # p /\ a # n /\ a # h
      /\ a \in Ring(h, s) /\ p \in Ring(h, s) /\ n \in Ring(h, s)
      /\ a \in RNodes /\ p \in RNodes /\ n \in RNodes
  <2>1. /\ j \in 0 .. Len(s) /\ j \in 0 .. Len(s) + 1 /\ j + 1 \in 0 .. Len(s) + 1
        /\ j - 1 \in 0 .. Len(s) + 1 /\ j - 1 \in 0 .. Len(s) /\ (j - 1) + 1 = j
        /\ j \in 1 .. Len(s) + 1 /\ j + 1 \in 1 .. Len(s) + 1 /\ j # j + 1 /\ j - 1 # j
    BY <1>1
  <2>2. a = Point(h, s, j) /\ a # h
    BY Points
  <2>3. r.next[a] = n /\ r.prev[n] = a
    BY <2>1, <2>2, LinkedPoints
  <2>4. r.next[p] = a /\ r.prev[a] = p
    <3>1. r.next[Point(h, s, j - 1)] = Point(h, s, (j - 1) + 1)
          /\ r.prev[Point(h, s, (j - 1) + 1)] = Point(h, s, j - 1)
      BY <2>1, LinkedPoints
    <3> QED  BY <2>1, <2>2, <3>1
  <2>5. a # p /\ a # n
    BY <2>1, <2>2, Points
  <2>6. a \in Ring(h, s) /\ p \in Ring(h, s) /\ n \in Ring(h, s) /\ Ring(h, s) \subseteq RNodes
    BY <2>1, <2>2, Points
  <2> QED  BY <2>2, <2>3, <2>4, <2>5, <2>6
<1>4. /\ q.next[a] = a /\ q.prev[a] = a /\ q.next[p] = n /\ q.prev[n] = p
      /\ \A x \in RNodes : x # a /\ x # p => q.next[x] = r.next[x]
      /\ \A x \in RNodes : x # a /\ x # n => q.prev[x] = r.prev[x]
  BY <1>3 DEF Spliced, Swapped
<1> HIDE DEF p, n
<1>5. ASSUME NEW i \in 0 .. Len(s), i # j, i # j - 1
      PROVE  /\ q.next[Point(h, s, i)] = Point(h, s, i + 1)
             /\ q.prev[Point(h, s, i + 1)] = Point(h, s, i)
  <2>1. /\ i + 1 \in 1 .. Len(s) + 1 /\ j + 1 \in 1 .. Len(s) + 1 /\ i + 1 # j + 1
        /\ j \in 1 .. Len(s) + 1 /\ i + 1 # j /\ j \in 0 .. Len(s) /\ j - 1 \in 0 .. Len(s)
        /\ i \in 0 .. Len(s) + 1 /\ i + 1 \in 0 .. Len(s) + 1
    BY <1>1, <1>5
  <2>2. /\ Point(h, s, i) # Point(h, s, j) /\ Point(h, s, i) # Point(h, s, j - 1)
        /\ Point(h, s, i + 1) # Point(h, s, j) /\ Point(h, s, i + 1) # Point(h, s, j + 1)
    BY <1>5, <2>1, Points
  <2>3. /\ Point(h, s, i) \in Ring(h, s) /\ Point(h, s, i + 1) \in Ring(h, s)
        /\ Ring(h, s) \subseteq RNodes
    BY <2>1, Points
  <2>4. r.next[Point(h, s, i)] = Point(h, s, i + 1) /\ r.prev[Point(h, s, i + 1)] = Point(h, s, i)
    BY LinkedPoints
  <2> QED  BY <1>3, <1>4, <2>2, <2>3, <2>4 DEF p, n
<1>6. ASSUME NEW i \in 0 .. Len(u)
      PROVE  /\ q.next[Point(h, u, i)] = Point(h, u, i + 1)
             /\ q.prev[Point(h, u, i + 1)] = Point(h, u, i)
  <2>1. CASE i < j - 1
    <3>1. /\ i \in 0 .. j - 1 /\ i + 1 \in 0 .. j - 1 /\ i \in 0 .. Len(s)
          /\ i # j /\ i # j - 1
      BY <1>1, <2>1
    <3> QED  BY <1>2, <1>5, <3>1
  <2>2. CASE i = j - 1
    <3>1. i \in 0 .. j - 1 /\ i + 1 = j /\ j \in j .. Len(s)
      BY <1>1, <2>2
    <3>2. Point(h, u, i) = p /\ Point(h, u, i + 1) = n
      BY <1>2, <2>2, <3>1 DEF p, n
    <3> QED  BY <1>4, <3>2
  <2>3. CASE j <= i
    <3>1. /\ i \in j .. Len(s) /\ i + 1 \in j .. Len(s) /\ i + 1 \in 0 .. Len(s)
          /\ i + 1 # j /\ i + 1 # j - 1
      BY <1>1, <2>3
    <3> QED  BY <1>2, <1>5, <3>1
  <2> QED  BY <1>1, <2>1, <2>2, <2>3
<1>7. Linked(q, h, u)
  BY <1>6, LinkedPoints
<1>8. Linked(q, a, <<>>) /\ IsRing(a, <<>>)
  <2>1. /\ \A i : Point(a, <<>>, i) = a
        /\ Members(<<>>) = {} /\ Distinct(<<>>) /\ <<>> \in Seq(RNodes)
    BY DEF Point, Members, Distinct
  <2> QED  BY <1>3, <1>4, <2>1, LinkedPoints DEF IsRing
<1>9. ASSUME NEW i \in 1 .. Len(u)
      PROVE  \E k \in 1 .. Len(s) : u[i] = s[k] /\ k # j /\ i = IF k < j THEN k ELSE k - 1
  <2>1. i \in 1 .. Len(s) - 1 /\ (i < j => i \in 1 .. Len(s))
        /\ (~ (i < j) => i + 1 \in 1 .. Len(s) /\ i + 1 # j /\ ~ (i + 1 < j) /\ i = (i + 1) - 1)
    BY <1>1
  <2>2. u[i] = IF i < j THEN s[i] ELSE s[i + 1]
    BY <2>1 DEF Without
  <2> QED  BY <1>1, <2>1, <2>2
<1>10. ASSUME NEW k \in 1 .. Len(s), k # j
       PROVE  \E i \in 1 .. Len(u) : u[i] = s[k]
  <2>1. CASE k < j
    <3>1. k \in 1 .. Len(s) - 1 /\ k \in 1 .. Len(u)
      BY <1>1, <2>1
    <3> QED  BY <2>1, <3>1 DEF Without
  <2>2. CASE k > j
    <3>1. /\ k - 1 \in 1 .. Len(s) - 1 /\ k - 1 \in 1 .. Len(u) /\ (k - 1) + 1 = k
          /\ ~ (k - 1 < j)
      BY <1>1, <2>2
    <3> QED  BY <3>1 DEF Without
  <2> QED  BY <1>1, <1>10, <2>1, <2>2
<1>11. \A k, m \in 1 .. Len(s) : s[k] = s[m] => k = m
  BY DEF IsRing, Distinct
<1>12. Distinct(u)
  <2> SUFFICES ASSUME NEW i \in 1 .. Len(u), NEW m \in 1 .. Len(u), u[i] = u[m] PROVE i = m
    BY DEF Distinct
  <2> QED  BY <1>9, <1>11
<1>13. /\ Members(u) = Members(s) \ {a} /\ h \notin Members(s) /\ a \in Members(s)
  <2>1. Members(u) \subseteq Members(s) \ {a}
    BY <1>9, <1>11 DEF Members
  <2>2. Members(s) \ {a} \subseteq Members(u)
    BY <1>10 DEF Members
  <2> QED  BY <2>1, <2>2 DEF IsRing, Members
<1>14. IsRing(h, u)
  BY <1>1, <1>12, <1>13 DEF IsRing
<1>15. \A y : y \in Ring(h, u) <=> y \in Ring(h, s) /\ y # a
  BY <1>3, <1>13 DEF Ring
<1> QED  BY <1>7, <1>8, <1>14, <1>15 DEF Parting

-----------------------------------------------------------------------------
(* All rings of the heap: L gives the nodes in the ring of every head.     *)

\* Nodes come into a list, and one leaves.
Grown(u, s, t, g) == Members(u) = Members(s) \cup Members(t) \cup {g}
Shrunk(u, s, x) == Members(u) = Members(s) \ {x}

Parted(r, L) ==
    /\ r \in Heaps
    /\ \A h \in DOMAIN L : IsRing(h, L[h]) /\ Linked(r, h, L[h])
    /\ \A h, g \in DOMAIN L : h # g => Ring(h, L[h]) \cap Ring(g, L[g]) = {}

\* The ring of head g goes into that of h, behind its j-th node.
LEMMA PartedJoin ==
    ASSUME NEW r, NEW L, Parted(r, L), NEW h \in DOMAIN L, NEW g \in DOMAIN L, h # g,
           NEW j \in 0 .. Len(L[h]), NEW u, Joined(u, L[h], j, L[g], g),
           NEW D, DOMAIN D = DOMAIN L \ {g}, D[h] = u, \A k \in DOMAIN D : k # h => D[k] = L[k]
    PROVE  /\ Parted(rl_splice(r, Point(h, L[h], j), g), D)
           /\ Grown(u, L[h], L[g], g)
<1>1. PICK s, t : s = L[h] /\ t = L[g]
  OBVIOUS
<1>2. PICK a : a = Point(h, s, j)
  OBVIOUS
<1>3. PICK q : q = rl_splice(r, a, g)
  OBVIOUS
<1>4. /\ r \in Heaps /\ IsRing(h, s) /\ Linked(r, h, s) /\ IsRing(g, t) /\ Linked(r, g, t)
      /\ Ring(h, s) \cap Ring(g, t) = {}
  BY <1>1 DEF Parted
<1>5. a \in Ring(h, s) /\ g \in Ring(g, t) /\ a \in RNodes /\ g \in RNodes
  <2>1. j \in 0 .. Len(s) + 1 /\ Ring(h, s) \subseteq RNodes /\ Point(h, s, j) \in Ring(h, s)
    <3>1. Len(s) \in Nat
      BY <1>4, Points
    <3>2. j \in 0 .. Len(s) + 1
      BY <1>1, <3>1
    <3> QED  BY <1>4, <3>2, Points
  <2> QED  BY <1>2, <1>4, <2>1 DEF Ring, IsRing
<1>6. Spliced(r, q, a, g)
  BY <1>3, <1>4, <1>5, SpliceFields
<1>7. Linked(q, h, u) /\ IsRing(h, u) /\ Ring(h, u) = Ring(h, s) \cup Ring(g, t)
  <2>1. j \in 0 .. Len(s) /\ Joined(u, s, j, t, g) /\ Spliced(r, q, Point(h, s, j), g)
    BY <1>1, <1>2, <1>6
  <2> QED  BY <1>4, <2>1, JoinRings
<1>8. ASSUME NEW k \in DOMAIN D, k # h
      PROVE  /\ D[k] = L[k] /\ IsRing(k, D[k]) /\ Linked(q, k, D[k])
             /\ Ring(k, D[k]) \cap (Ring(h, s) \cup Ring(g, t)) = {}
  <2>1. /\ k \in DOMAIN L /\ D[k] = L[k] /\ k # g
        /\ IsRing(k, L[k]) /\ Linked(r, k, L[k])
    BY <1>8 DEF Parted
  <2>2. Ring(k, L[k]) \cap Ring(h, s) = {} /\ Ring(k, L[k]) \cap Ring(g, t) = {}
    BY <1>1, <1>8, <2>1 DEF Parted
  <2>3. r.next[a] \in Ring(h, s) /\ r.next[g] \in Ring(g, t)
    BY <1>4, <1>5, RingClosed
  <2>4. /\ a \notin Ring(k, L[k]) /\ g \notin Ring(k, L[k])
        /\ r.next[a] \notin Ring(k, L[k]) /\ r.next[g] \notin Ring(k, L[k])
    BY <1>5, <2>2, <2>3
  <2>5. Linked(q, k, L[k])
    BY <1>5, <1>6, <2>1, <2>4, OtherRings
  <2> QED  BY <2>1, <2>2, <2>5
<1>9. q \in Heaps
  BY <1>6 DEF Spliced
<1>10. ASSUME NEW k \in DOMAIN D, NEW m \in DOMAIN D, k # m
       PROVE  Ring(k, D[k]) \cap Ring(m, D[m]) = {}
  <2>1. CASE k = h
    BY <1>7, <1>8, <1>10, <2>1
  <2>2. CASE m = h
    BY <1>7, <1>8, <1>10, <2>2
  <2>3. CASE k # h /\ m # h
    BY <1>8, <1>10, <2>3 DEF Parted
  <2> QED  BY <2>1, <2>2, <2>3
<1>11. \A k \in DOMAIN D : IsRing(k, D[k]) /\ Linked(q, k, D[k])
  BY <1>7, <1>8
<1>12. Parted(q, D)
  BY <1>9, <1>10, <1>11 DEF Parted
<1>13. Grown(u, s, t, g)
  BY <1>4, <1>5, <1>7 DEF IsRing, Ring, Grown
<1> QED  BY <1>1, <1>2, <1>3, <1>12, <1>13

\* D is L when x, the j-th node in the ring of head h, has a ring by itself.
Split(L, D, h, j, x, u) ==
    /\ h \in DOMAIN L /\ j \in 1 .. Len(L[h]) /\ x = L[h][j] /\ Without(u, L[h], j)
    /\ DOMAIN D = DOMAIN L \cup {x} /\ D[h] = u /\ D[x] = <<>>
    /\ \A k \in DOMAIN L : k # h => D[k] = L[k]

\* The j-th node leaves the ring of head h.
LEMMA PartedLeave ==
    ASSUME NEW r, NEW L, Parted(r, L), NEW D, NEW h, NEW j, NEW x, NEW u,
           Split(L, D, h, j, x, u)
    PROVE  /\ Parted(rlist_remove(r, x), D)
           /\ r.prev[x] = Point(h, L[h], j - 1)
           /\ Shrunk(u, L[h], x)
<1>0. /\ h \in DOMAIN L /\ j \in 1 .. Len(L[h]) /\ x = L[h][j] /\ Without(u, L[h], j)
      /\ DOMAIN D = DOMAIN L \cup {x} /\ D[h] = u /\ D[x] = <<>>
      /\ \A k \in DOMAIN L : k # h => D[k] = L[k]
  BY DEF Split
<1>1. PICK s : s = L[h]
  OBVIOUS
<1>2. PICK p : p = r.prev[x]
  OBVIOUS
<1>3. PICK q : q = rl_splice(r, x, p)
  OBVIOUS
<1>4. r \in Heaps /\ IsRing(h, s) /\ Linked(r, h, s) /\ x = s[j] /\ j \in 1 .. Len(s)
  BY <1>0, <1>1 DEF Parted
<1>5. x \in Ring(h, s) /\ x # h /\ x \in RNodes
  <2>1. x \in Members(s)
    BY <1>4 DEF Members
  <2> QED  BY <1>4, <2>1, Points DEF IsRing, Ring
<1>6. p \in Ring(h, s) /\ p \in RNodes /\ r.next[x] \in Ring(h, s) /\ r.next[p] \in Ring(h, s)
  <2>1. /\ r.next[x] \in Ring(h, s) /\ r.prev[x] \in Ring(h, s)
        /\ r.next[r.prev[x]] = x
    BY <1>4, <1>5, RingClosed
  <2> QED  BY <1>2, <1>4, <1>5, <2>1, Points
<1>7. Spliced(r, q, x, p)
  BY <1>3, <1>4, <1>5, <1>6, SpliceFields
<1>8. /\ Linked(q, h, u) /\ IsRing(h, u) /\ Ring(h, u) = Ring(h, s) \ {x}
      /\ Linked(q, x, <<>>) /\ IsRing(x, <<>>) /\ Ring(x, <<>>) = {x}
  <2>1. Without(u, s, j) /\ Spliced(r, q, x, r.prev[x])
    BY <1>0, <1>1, <1>2, <1>4, <1>7
  <2>2. Parting(q, h, s, u, x)
    BY <1>4, <2>1, NodeLeaves
  <2>3. Ring(x, <<>>) = {x}
    BY DEF Ring, Members
  <2>4. Ring(h, u) = Ring(h, s) \ {x}
    BY <2>2 DEF Parting
  <2> QED  BY <2>2, <2>3, <2>4 DEF Parting
<1>9. x \notin DOMAIN L
  <2> SUFFICES ASSUME x \in DOMAIN L PROVE FALSE
    OBVIOUS
  <2>1. Ring(x, L[x]) \cap Ring(h, s) = {}
    BY <1>0, <1>1, <1>5 DEF Parted
  <2>2. x \in Ring(x, L[x])
    BY DEF Ring
  <2> QED  BY <1>5, <2>1, <2>2
<1>10. ASSUME NEW k \in DOMAIN L, k # h
       PROVE  /\ D[k] = L[k] /\ IsRing(k, D[k]) /\ Linked(q, k, D[k])
              /\ Ring(k, D[k]) \cap Ring(h, s) = {}
  <2>1. /\ D[k] = L[k] /\ IsRing(k, L[k]) /\ Linked(r, k, L[k])
        /\ Ring(k, L[k]) \cap Ring(h, s) = {}
    BY <1>0, <1>1, <1>10 DEF Parted
  <2>2. /\ x \notin Ring(k, L[k]) /\ p \notin Ring(k, L[k])
        /\ r.next[x] \notin Ring(k, L[k]) /\ r.next[p] \notin Ring(k, L[k])
    BY <1>5, <1>6, <2>1
  <2>3. Linked(q, k, L[k])
    BY <1>5, <1>6, <1>7, <2>1, <2>2, OtherRings
  <2> QED  BY <2>1, <2>3
<1>11. q \in Heaps
  BY <1>7 DEF Spliced
<1>12. ASSUME NEW k \in DOMAIN D, NEW m \in DOMAIN D, k # m
       PROVE  Ring(k, D[k]) \cap Ring(m, D[m]) = {}
  <2>1. \A i \in DOMAIN D : i # x => i \in DOMAIN L
    BY <1>0
  <2>2. /\ Ring(h, D[h]) \cap Ring(x, D[x]) = {}
        /\ \A i \in DOMAIN L : i # h =>
              /\ Ring(i, D[i]) \cap Ring(h, D[h]) = {}
              /\ Ring(i, D[i]) \cap Ring(x, D[x]) = {}
    BY <1>0, <1>5, <1>8, <1>10
  <2>3. \A i, n \in DOMAIN L : i # h /\ n # h /\ i # n => Ring(i, D[i]) \cap Ring(n, D[n]) = {}
    BY <1>10 DEF Parted
  <2>4. CASE k = x
    BY <1>12, <2>1, <2>2, <2>4
  <2>5. CASE m = x
    BY <1>12, <2>1, <2>2, <2>5
  <2>6. CASE k # x /\ m # x
    BY <1>12, <2>1, <2>2, <2>3, <2>6
  <2> QED  BY <2>4, <2>5, <2>6
<1>13. \A k \in DOMAIN D : IsRing(k, D[k]) /\ Linked(q, k, D[k])
  BY <1>0, <1>8, <1>10
<1>14. Parted(q, D)
  BY <1>11, <1>12, <1>13 DEF Parted
<1>15. p = Point(h, s, j - 1)
  <2>1. j - 1 \in 0 .. Len(s) /\ (j - 1) + 1 = j /\ Point(h, s, j) = x
    BY <1>4, Points
  <2>2. r.prev[Point(h, s, (j - 1) + 1)] = Point(h, s, j - 1)
    BY <1>4, <2>1, LinkedPoints
  <2> QED  BY <1>2, <2>1, <2>2
<1>16. Shrunk(u, s, x)
  <2>1. \A y : /\ y \in Members(u) <=> y \in Ring(h, u) /\ y # h
               /\ y \in Members(s) <=> y \in Ring(h, s) /\ y # h
    BY <1>4, <1>8 DEF IsRing, Ring
  <2> QED  BY <1>8, <2>1 DEF Shrunk
<1> QED  BY <1>1, <1>2, <1>3, <1>14, <1>15, <1>16 DEF rlist_remove

-----------------------------------------------------------------------------
(* The rings that the lists of the model are meant to be.                  *)

\* The nodes that are in no list.
Free(l) == {x \in Items : \A h \in Heads : x \notin Members(l[h])}

\* The ring of a head is its list, a node that is in no list is a ring by itself.
Owned(l) == [h \in Heads \cup Free(l) |-> IF h \in Heads THEN l[h] ELSE <<>>]

ListsHeld(r, l) == l \in [Heads -> Seq(Items)] /\ Parted(r, Owned(l))

\* Heads are not items.
LEMMA NodesApart ==
    /\ Heads \cap Items = {} /\ RNodes = Heads \cup Items
    /\ \A s \in Seq(Items) : s \in Seq(RNodes) /\ Members(s) \subseteq Items
<1>1. Heads \cap Items = {} /\ RNodes = Heads \cup Items
  BY RingsAssumption DEF Heads, Items, RNodes
<1>2. ASSUME NEW s \in Seq(Items) PROVE s \in Seq(RNodes) /\ Members(s) \subseteq Items
  <2>1. Len(s) \in Nat /\ s \in [1 .. Len(s) -> Items]
    OBVIOUS
  <2>2. s \in [1 .. Len(s) -> RNodes]
    BY <1>1, <2>1
  <2> QED  BY <2>1, <2>2 DEF Members
<1> QED  BY <1>1, <1>2

\* What the lists are owed, in parts.
LEMMA HeldParts ==
    ASSUME NEW r, NEW l, ListsHeld(r, l)
    PROVE  /\ r \in Heaps /\ l \in [Heads -> Seq(Items)] /\ DOMAIN Owned(l) = Heads \cup Free(l)
           /\ \A h \in Heads : /\ Owned(l)[h] = l[h] /\ l[h] \in Seq(Items)
                               /\ IsRing(h, l[h]) /\ Linked(r, h, l[h])
           /\ \A x \in Free(l) : x \in Items /\ x \notin Heads /\ Owned(l)[x] = <<>>
                                 /\ Linked(r, x, <<>>)
           /\ \A h, g \in Heads : h # g => Members(l[h]) \cap Members(l[g]) = {}
<1>1. \A x \in Free(l) : x \in Items /\ x \notin Heads
  BY NodesApart DEF Free
<1>2. /\ l \in [Heads -> Seq(Items)] /\ DOMAIN Owned(l) = Heads \cup Free(l)
      /\ \A h \in Heads : Owned(l)[h] = l[h] /\ l[h] \in Seq(Items)
      /\ \A x \in Free(l) : Owned(l)[x] = <<>>
  BY <1>1 DEF Owned, ListsHeld
<1>3. /\ r \in Heaps
      /\ \A h \in DOMAIN Owned(l) : IsRing(h, Owned(l)[h]) /\ Linked(r, h, Owned(l)[h])
      /\ \A h, g \in DOMAIN Owned(l) :
            h # g => Ring(h, Owned(l)[h]) \cap Ring(g, Owned(l)[g]) = {}
  BY DEF ListsHeld, Parted
<1>4. \A h \in Heads : IsRing(h, l[h]) /\ Linked(r, h, l[h])
  BY <1>2, <1>3
<1>5. \A x \in Free(l) : Linked(r, x, <<>>)
  BY <1>2, <1>3
<1>6. \A h, g \in Heads : h # g => Members(l[h]) \cap Members(l[g]) = {}
  <2>1. ASSUME NEW h \in Heads, NEW g \in Heads, h # g
        PROVE  Members(l[h]) \cap Members(l[g]) = {}
    <3>1. Ring(h, l[h]) \cap Ring(g, l[g]) = {}
      BY <1>2, <1>3, <2>1
    <3> QED  BY <3>1 DEF Ring
  <2> QED  BY <2>1
<1> QED  BY <1>1, <1>2, <1>3, <1>4, <1>5, <1>6

\* A node that is in no list goes behind the j-th node of list h.
LEMMA HeldInsert ==
    ASSUME NEW r, NEW l, ListsHeld(r, l), NEW h \in Heads, NEW x \in Free(l),
           NEW j \in 0 .. Len(l[h]), NEW u \in Seq(Items), Joined(u, l[h], j, <<>>, x)
    PROVE  ListsHeld(rl_splice(r, Point(h, l[h], j), x), [l EXCEPT ![h] = u])
<1>1. PICK m : m = [l EXCEPT ![h] = u]
  OBVIOUS
<1>2. /\ h \in DOMAIN Owned(l) /\ x \in DOMAIN Owned(l) /\ h # x
      /\ Owned(l)[h] = l[h] /\ Owned(l)[x] = <<>> /\ Parted(r, Owned(l))
      /\ l \in [Heads -> Seq(Items)]
  BY HeldParts DEF ListsHeld
<1>3. PICK D : D = [k \in DOMAIN Owned(l) \ {x} |-> IF k = h THEN u ELSE Owned(l)[k]]
  OBVIOUS
<1>4. /\ DOMAIN D = DOMAIN Owned(l) \ {x} /\ D[h] = u
      /\ \A k \in DOMAIN D : k # h => D[k] = Owned(l)[k]
  BY <1>2, <1>3
<1>5. j \in 0 .. Len(Owned(l)[h]) /\ Joined(u, Owned(l)[h], j, Owned(l)[x], x)
  BY <1>2
<1>6. /\ Parted(rl_splice(r, Point(h, Owned(l)[h], j), x), D)
      /\ Grown(u, Owned(l)[h], Owned(l)[x], x)
  BY <1>2, <1>4, <1>5, PartedJoin
<1>7. Members(u) = Members(l[h]) \cup {x}
  <2>1. Members(<<>>) = {}
    BY DEF Members
  <2> QED  BY <1>2, <1>6, <2>1 DEF Grown
<1>8. m \in [Heads -> Seq(Items)] /\ m[h] = u /\ \A k \in Heads : k # h => m[k] = l[k]
  BY <1>1, <1>2
<1>9. Free(m) = Free(l) \ {x}
  BY <1>7, <1>8 DEF Free
<1>10. Owned(m) = D
  <2>1. Heads \cup Free(m) = DOMAIN Owned(l) \ {x}
    <3>1. DOMAIN Owned(l) = Heads \cup Free(l) /\ x \notin Heads
      BY HeldParts
    <3> QED  BY ONLY <1>9, <3>1
  <2>2. \A k \in Heads : (IF k \in Heads THEN m[k] ELSE <<>>) = IF k = h THEN u ELSE Owned(l)[k]
    BY <1>8, HeldParts
  <2>3. \A k \in Free(m) : (IF k \in Heads THEN m[k] ELSE <<>>) = IF k = h THEN u ELSE Owned(l)[k]
    BY <1>9, HeldParts
  <2> QED  BY <1>3, <2>1, <2>2, <2>3 DEF Owned
<1> QED  BY <1>1, <1>2, <1>6, <1>8, <1>10 DEF ListsHeld

\* The j-th node of list h leaves it.
LEMMA HeldLeave ==
    ASSUME NEW r, NEW l, ListsHeld(r, l), NEW h \in Heads,
           NEW j \in 1 .. Len(l[h]), NEW x, x = l[h][j],
           NEW u \in Seq(Items), Without(u, l[h], j)
    PROVE  /\ ListsHeld(rlist_remove(r, x), [l EXCEPT ![h] = u])
           /\ x \in Free([l EXCEPT ![h] = u])
           /\ r.prev[x] = Point(h, l[h], j - 1)
<1>1. PICK m : m = [l EXCEPT ![h] = u]
  OBVIOUS
<1>2. /\ h \in DOMAIN Owned(l) /\ Owned(l)[h] = l[h] /\ Parted(r, Owned(l))
      /\ l \in [Heads -> Seq(Items)] /\ x \in Items /\ x \in Members(l[h]) /\ x \notin Heads
  <2>1. PICK s \in Seq(Items) : s = l[h]
    BY HeldParts
  <2>2. x \in Items /\ x \in Members(s)
    BY <2>1 DEF Members
  <2>3. h \in DOMAIN Owned(l) /\ Owned(l)[h] = l[h] /\ l \in [Heads -> Seq(Items)]
    BY HeldParts
  <2>4. x \notin Heads
    BY <2>2, NodesApart
  <2> QED  BY <2>1, <2>2, <2>3, <2>4 DEF ListsHeld
<1>3. PICK D : D = [k \in DOMAIN Owned(l) \cup {x} |->
                       IF k = h THEN u ELSE IF k = x THEN <<>> ELSE Owned(l)[k]]
  OBVIOUS
<1>4. /\ DOMAIN D = DOMAIN Owned(l) \cup {x} /\ D[h] = u /\ D[x] = <<>>
      /\ x \notin DOMAIN Owned(l) => \A k \in DOMAIN Owned(l) : k # h => D[k] = Owned(l)[k]
  BY <1>2, <1>3
<1>5. x \notin DOMAIN Owned(l)
  <2>1. DOMAIN Owned(l) = Heads \cup Free(l)
    BY HeldParts
  <2>2. x \notin Free(l)
    BY <1>2 DEF Free
  <2> QED  BY <1>2, <2>1, <2>2
<1>6. j \in 1 .. Len(Owned(l)[h]) /\ x = Owned(l)[h][j] /\ Without(u, Owned(l)[h], j)
  BY <1>2
<1>7. /\ Parted(rlist_remove(r, x), D) /\ r.prev[x] = Point(h, Owned(l)[h], j - 1)
      /\ Members(u) = Members(l[h]) \ {x}
  <2>1. \A k \in DOMAIN Owned(l) : k # h => D[k] = Owned(l)[k]
    BY <1>4, <1>5
  <2>2. Split(Owned(l), D, h, j, x, u)
    BY <1>2, <1>4, <1>6, <2>1 DEF Split
  <2>3. /\ Parted(rlist_remove(r, x), D) /\ r.prev[x] = Point(h, Owned(l)[h], j - 1)
        /\ Shrunk(u, Owned(l)[h], x)
    BY <1>2, <2>2, PartedLeave
  <2> QED  BY <1>2, <2>3 DEF Shrunk
<1>8. m \in [Heads -> Seq(Items)] /\ m[h] = u /\ \A k \in Heads : k # h => m[k] = l[k]
  BY <1>1, <1>2
<1>9. \A k \in Heads : x \notin Members(m[k])
  BY <1>2, <1>7, <1>8, HeldParts
<1>10. Free(m) = Free(l) \cup {x}
  <2>1. \A y \in Items : (\A k \in Heads : y \notin Members(m[k])) <=>
                            y = x \/ \A k \in Heads : y \notin Members(l[k])
    BY <1>7, <1>8, <1>9
  <2> QED  BY <1>2, <2>1 DEF Free
<1>11. Owned(m) = D
  <2>1. Heads \cup Free(m) = DOMAIN Owned(l) \cup {x}
    BY <1>10, HeldParts
  <2>2. \A k \in Heads : (IF k \in Heads THEN m[k] ELSE <<>>) =
                            IF k = h THEN u ELSE IF k = x THEN <<>> ELSE Owned(l)[k]
    BY <1>2, <1>8, HeldParts
  <2>3. \A k \in Free(m) : (IF k \in Heads THEN m[k] ELSE <<>>) =
                              IF k = h THEN u ELSE IF k = x THEN <<>> ELSE Owned(l)[k]
    BY ZenonT(60), <1>2, <1>10, HeldParts
  <2> QED  BY <1>3, <2>1, <2>2, <2>3 DEF Owned
<1> QED  BY <1>1, <1>2, <1>7, <1>8, <1>10, <1>11 DEF ListsHeld

\* List g goes into list h, behind its j-th node; its head comes with it and is
\* taken out again.
LEMMA HeldJoin ==
    ASSUME NEW r, NEW l, ListsHeld(r, l), NEW h \in Heads, NEW g \in Heads, h # g,
           NEW j \in 0 .. Len(l[h]), NEW u, Joined(u, l[h], j, l[g], g),
           NEW v \in Seq(Items), Without(v, u, j + Len(l[g]) + 1)
    PROVE  ListsHeld(rlist_remove(rl_splice(r, Point(h, l[h], j), g), g),
                     [l EXCEPT ![h] = v, ![g] = <<>>])
<1>1. PICK m : m = [l EXCEPT ![h] = v, ![g] = <<>>]
  OBVIOUS
<1>2. PICK q : q = rl_splice(r, Point(h, l[h], j), g)
  OBVIOUS
<1>3. /\ h \in DOMAIN Owned(l) /\ g \in DOMAIN Owned(l)
      /\ Owned(l)[h] = l[h] /\ Owned(l)[g] = l[g] /\ Parted(r, Owned(l))
      /\ l \in [Heads -> Seq(Items)]
      /\ Members(l[h]) \subseteq Items /\ Members(l[g]) \subseteq Items
      /\ h \notin Items /\ g \notin Items
  <2>1. /\ DOMAIN Owned(l) = Heads \cup Free(l) /\ l \in [Heads -> Seq(Items)]
        /\ Owned(l)[h] = l[h] /\ Owned(l)[g] = l[g]
    BY HeldParts
  <2>2. Members(l[h]) \subseteq Items /\ Members(l[g]) \subseteq Items
    <3>1. l[h] \in Seq(Items) /\ l[g] \in Seq(Items)
      BY HeldParts
    <3> QED  BY <3>1 DEF Members
  <2>3. Parted(r, Owned(l))
    BY DEF ListsHeld
  <2> QED  BY <2>1, <2>2, <2>3, NodesApart
<1>4. PICK D : D = [k \in DOMAIN Owned(l) \ {g} |-> IF k = h THEN u ELSE Owned(l)[k]]
  OBVIOUS
<1>5. /\ DOMAIN D = DOMAIN Owned(l) \ {g} /\ D[h] = u
      /\ \A k \in DOMAIN D : k # h => D[k] = Owned(l)[k]
  BY <1>3, <1>4
<1>6. j \in 0 .. Len(Owned(l)[h]) /\ Joined(u, Owned(l)[h], j, Owned(l)[g], g)
  BY <1>3
<1>7. Parted(q, D) /\ Members(u) = Members(l[h]) \cup Members(l[g]) \cup {g}
  <2>1. /\ Parted(rl_splice(r, Point(h, Owned(l)[h], j), g), D)
        /\ Grown(u, Owned(l)[h], Owned(l)[g], g)
    BY <1>3, <1>5, <1>6, PartedJoin
  <2> QED  BY <1>2, <1>3, <2>1 DEF Grown
<1>8. PICK N : N = [k \in DOMAIN D \cup {g} |->
                       IF k = h THEN v ELSE IF k = g THEN <<>> ELSE D[k]]
  OBVIOUS
<1>9. /\ DOMAIN N = DOMAIN D \cup {g} /\ N[h] = v /\ N[g] = <<>> /\ h \in DOMAIN D
      /\ \A k \in DOMAIN D : k # h => N[k] = D[k]
  BY <1>3, <1>5, <1>8
<1>10. PICK i : i = j + Len(l[g]) + 1
  OBVIOUS
<1>11. i \in 1 .. Len(u) /\ g = u[i] /\ Without(v, u, i)
  <2>1. Len(l[h]) \in Nat /\ Len(l[g]) \in Nat
    BY <1>3
  <2>2. Len(u) = Len(l[h]) + Len(l[g]) + 1 /\ u[j + Len(l[g]) + 1] = g
    BY DEF Joined
  <2>3. j \in Nat
    OBVIOUS
  <2>4. i \in 1 .. Len(u)
    <3>1. PICK a, b : a = Len(l[h]) /\ b = Len(l[g])
      OBVIOUS
    <3>2. j \in 0 .. a /\ a \in Nat /\ b \in Nat /\ Len(u) = a + b + 1 /\ i = j + b + 1
      BY <1>10, <2>1, <2>2, <3>1
    <3> QED  BY ONLY <3>2
  <2> QED  BY <1>10, <2>2, <2>4
<1>12. Parted(rlist_remove(q, g), N) /\ Members(v) = Members(u) \ {g}
  <2>1. i \in 1 .. Len(D[h]) /\ g = D[h][i] /\ Without(v, D[h], i)
    BY <1>5, <1>11
  <2>3. Split(D, N, h, i, g, v)
    BY <1>9, <2>1 DEF Split
  <2>2. Parted(rlist_remove(q, g), N) /\ Shrunk(v, D[h], g)
    BY <1>7, <2>3, PartedLeave
  <2> QED  BY <1>5, <2>2 DEF Shrunk
<1>13. /\ m \in [Heads -> Seq(Items)] /\ m[h] = v /\ m[g] = <<>>
       /\ \A k \in Heads : k # h /\ k # g => m[k] = l[k]
  <2>1. <<>> \in Seq(Items)
    OBVIOUS
  <2> QED  BY <1>1, <1>3, <2>1
<1>14. Members(v) = Members(l[h]) \cup Members(l[g]) /\ Members(m[g]) = {}
  <2>1. Members(<<>>) = {}
    BY DEF Members
  <2> QED  BY <1>3, <1>7, <1>12, <1>13, <2>1
<1>15. Free(m) = Free(l)
  <2>1. \A x \in Items : (\A k \in Heads : x \notin Members(m[k])) <=>
                            \A k \in Heads : x \notin Members(l[k])
    BY <1>13, <1>14
  <2> QED  BY <2>1 DEF Free
<1>16. Owned(m) = N
  <2>1. Heads \cup Free(m) = DOMAIN D \cup {g}
    BY <1>3, <1>5, <1>15, HeldParts
  <2>2. \A k \in Heads : (IF k \in Heads THEN m[k] ELSE <<>>) =
                            IF k = h THEN v ELSE IF k = g THEN <<>> ELSE D[k]
    <3>1. ASSUME NEW k \in Heads, k # h, k # g PROVE m[k] = D[k]
      <4>1. k \in DOMAIN Owned(l) \ {g} /\ Owned(l)[k] = l[k]
        <5>1. Owned(l)[k] = l[k] /\ DOMAIN Owned(l) = Heads \cup Free(l)
          BY HeldParts
        <5> QED  BY ONLY <3>1, <5>1
      <4> QED  BY <1>4, <1>13, <3>1, <4>1
    <3> QED  BY <1>13, <3>1
  <2>3. \A k \in Free(m) : (IF k \in Heads THEN m[k] ELSE <<>>) =
                              IF k = h THEN v ELSE IF k = g THEN <<>> ELSE D[k]
    BY <1>4, <1>15, HeldParts
  <2> QED  BY <1>8, <2>1, <2>2, <2>3 DEF Owned
<1> QED  BY <1>1, <1>2, <1>12, <1>13, <1>16 DEF ListsHeld

-----------------------------------------------------------------------------
(* What the operations make of the lists.                                  *)

\* Two lists behind each other, node by node.
LEMMA ConcatNodes ==
    ASSUME NEW S, NEW s \in Seq(S), NEW t \in Seq(S)
    PROVE  /\ s \o t \in Seq(S) /\ Len(s \o t) = Len(s) + Len(t)
           /\ Len(s) \in Nat /\ Len(t) \in Nat
           /\ \A i \in 1 .. Len(s) : (s \o t)[i] = s[i]
           /\ \A i \in 1 .. Len(t) : (s \o t)[Len(s) + i] = t[i]
<1>1. /\ s \o t \in Seq(S) /\ Len(s \o t) = Len(s) + Len(t)
      /\ \A i \in 1 .. Len(s) + Len(t) :
            (s \o t)[i] = IF i <= Len(s) THEN s[i] ELSE t[i - Len(s)]
  BY ConcatProperties, Zenon
<1>2. Len(s) \in Nat /\ Len(t) \in Nat
  OBVIOUS
<1>3. ASSUME NEW i \in 1 .. Len(s) PROVE (s \o t)[i] = s[i]
  <2>1. i \in 1 .. Len(s) + Len(t) /\ i <= Len(s)
    BY <1>2
  <2> QED  BY <1>1, <2>1
<1>4. ASSUME NEW i \in 1 .. Len(t) PROVE (s \o t)[Len(s) + i] = t[i]
  <2>1. /\ Len(s) + i \in 1 .. Len(s) + Len(t) /\ ~ (Len(s) + i <= Len(s))
        /\ (Len(s) + i) - Len(s) = i
    BY <1>2
  <2> QED  BY <1>1, <2>1
<1> QED  BY <1>1, <1>2, <1>3, <1>4

\* A node at the back, at the front, or before the i-th.
LEMMA InsertShapes ==
    ASSUME NEW s \in Seq(Items), NEW x \in Items
    PROVE  /\ Append(s, x) \in Seq(Items) /\ Joined(Append(s, x), s, Len(s), <<>>, x)
           /\ <<x>> \o s \in Seq(Items) /\ Joined(<<x>> \o s, s, 0, <<>>, x)
           /\ \A i \in 1 .. Len(s) : /\ InsertAt(s, i, x) \in Seq(Items)
                                     /\ Joined(InsertAt(s, i, x), s, i - 1, <<>>, x)
<1>1. Len(s) \in Nat /\ \A i \in 1 .. Len(s) : s[i] \in Items
  OBVIOUS
<1>2. \A u \in Seq(Items) : u \in Seq(RNodes)
  BY NodesApart
<1>3. Append(s, x) \in Seq(Items) /\ Joined(Append(s, x), s, Len(s), <<>>, x)
  <2>1. PICK u : u = Append(s, x)
    OBVIOUS
  <2>2. u \in Seq(Items) /\ Len(u) = Len(s) + 1 /\ u[Len(s) + 1] = x
        /\ \A i \in 1 .. Len(s) : u[i] = s[i]
    BY <2>1
  <2>3. u \in Seq(RNodes) /\ Len(u) = Len(s) + Len(<<>>) + 1 /\ u[Len(s) + Len(<<>>) + 1] = x
    BY <1>1, <1>2, <2>2
  <2>4. /\ \A i \in 1 .. Len(<<>>) : FALSE
        /\ \A i \in Len(s) + 1 .. Len(s) : FALSE
    BY <1>1
  <2> QED  BY <2>1, <2>2, <2>3, <2>4 DEF Joined
<1>4. <<x>> \o s \in Seq(Items) /\ Joined(<<x>> \o s, s, 0, <<>>, x)
  <2>1. PICK u : u = <<x>> \o s
    OBVIOUS
  <2>2. <<x>> \in Seq(Items) /\ Len(<<x>>) = 1 /\ <<x>>[1] = x
    OBVIOUS
  <2>3. /\ u \in Seq(Items) /\ Len(u) = 1 + Len(s) /\ u[1] = x
        /\ \A i \in 1 .. Len(s) : u[1 + i] = s[i]
    <3>1. /\ u \in Seq(Items) /\ Len(u) = Len(<<x>>) + Len(s)
          /\ \A i \in 1 .. Len(<<x>>) : u[i] = <<x>>[i]
          /\ \A i \in 1 .. Len(s) : u[Len(<<x>>) + i] = s[i]
      BY <2>1, <2>2, ConcatNodes
    <3>2. 1 \in 1 .. 1
      OBVIOUS
    <3> QED  BY <2>2, <3>1, <3>2
  <2>4. /\ u \in Seq(RNodes) /\ Len(u) = Len(s) + Len(<<>>) + 1 /\ u[0 + Len(<<>>) + 1] = x
        /\ \A i \in 1 .. 0 : FALSE
        /\ \A i \in 1 .. Len(<<>>) : FALSE
    BY <1>1, <1>2, <2>3
  <2>5. ASSUME NEW i \in 0 + 1 .. Len(s) PROVE u[i + Len(<<>>) + 1] = s[i]
    <3>1. i \in 1 .. Len(s) /\ i + Len(<<>>) + 1 = 1 + i
      BY <1>1
    <3> QED  BY <2>3, <3>1
  <2> QED  BY <2>1, <2>3, <2>4, <2>5 DEF Joined
<1>5. ASSUME NEW i \in 1 .. Len(s)
      PROVE  InsertAt(s, i, x) \in Seq(Items) /\ Joined(InsertAt(s, i, x), s, i - 1, <<>>, x)
  <2>1. PICK a, b, c, u : /\ a = SubSeq(s, 1, i - 1) /\ b = a \o <<x>> /\ c = SubSeq(s, i, Len(s))
                          /\ u = b \o c
    OBVIOUS
  <2>2. /\ a \in Seq(Items) /\ Len(a) = i - 1
        /\ \A k \in 1 .. i - 1 : a[k] = s[k]
        /\ c \in Seq(Items) /\ Len(c) = Len(s) - (i - 1)
        /\ \A k \in 1 .. Len(s) - (i - 1) : c[k] = s[(i - 1) + k]
    <3>1. i \in Nat /\ i - 1 \in Nat /\ Len(s) - (i - 1) \in Nat /\ 1 <= i /\ i <= Len(s)
      BY <1>1
    <3>2. /\ a = [k \in 1 .. i - 1 |-> s[k]]
          /\ c = [k \in 1 .. Len(s) - (i - 1) |-> s[(i - 1) + k]]
      <4>1. /\ a = [k \in 1 .. (1 + (i - 1)) - 1 |-> s[(1 + k) - 1]]
            /\ c = [k \in 1 .. (1 + Len(s)) - i |-> s[(i + k) - 1]]
        BY <2>1, <3>1
      <4> QED  BY <1>1, <3>1, <4>1
    <3>3. /\ \A k \in 1 .. i - 1 : k \in 1 .. Len(s)
          /\ \A k \in 1 .. Len(s) - (i - 1) : (i - 1) + k \in 1 .. Len(s)
      BY <1>1, <3>1
    <3>4. /\ a \in [1 .. i - 1 -> Items] /\ c \in [1 .. Len(s) - (i - 1) -> Items]
      BY <1>1, <3>2, <3>3
    <3> QED  BY <3>1, <3>2, <3>4
  <2>3. <<x>> \in Seq(Items) /\ Len(<<x>>) = 1 /\ <<x>>[1] = x /\ 1 \in 1 .. 1
    OBVIOUS
  <2>4. /\ b \in Seq(Items) /\ Len(b) = i
        /\ \A k \in 1 .. i - 1 : b[k] = s[k]
        /\ b[i] = x
    <3>1. /\ b \in Seq(Items) /\ Len(b) = Len(a) + Len(<<x>>)
          /\ \A k \in 1 .. Len(a) : b[k] = a[k]
          /\ \A k \in 1 .. Len(<<x>>) : b[Len(a) + k] = <<x>>[k]
      BY <2>1, <2>2, <2>3, ConcatNodes
    <3>2. b[Len(a) + 1] = x
      BY <2>3, <3>1
    <3> QED  BY <1>1, <2>2, <2>3, <3>1, <3>2
  <2>5. /\ u \in Seq(Items) /\ Len(u) = Len(b) + Len(c)
        /\ \A k \in 1 .. Len(b) : u[k] = b[k]
        /\ \A k \in 1 .. Len(c) : u[Len(b) + k] = c[k]
    BY <2>1, <2>2, <2>4, ConcatNodes
  <2>6. /\ u \in Seq(RNodes) /\ Len(u) = Len(s) + Len(<<>>) + 1
        /\ u[(i - 1) + Len(<<>>) + 1] = x
        /\ \A k \in 1 .. i - 1 : u[k] = s[k]
        /\ \A k \in 1 .. Len(<<>>) : FALSE
    BY <1>1, <1>2, <2>2, <2>4, <2>5
  <2>7. ASSUME NEW k \in (i - 1) + 1 .. Len(s) PROVE u[k + Len(<<>>) + 1] = s[k]
    <3>1. PICK n : n = k - (i - 1)
      OBVIOUS
    <3>2. /\ n \in 1 .. Len(s) - (i - 1) /\ k + Len(<<>>) + 1 = i + n /\ (i - 1) + n = k
      BY <1>1, <3>1
    <3>3. n \in 1 .. Len(c) /\ k + Len(<<>>) + 1 = Len(b) + n
      BY <2>2, <2>4, <3>2
    <3>4. u[Len(b) + n] = c[n]
      BY <2>5, <3>3
    <3>5. c[n] = s[(i - 1) + n]
      BY <2>2, <3>2
    <3> QED  BY <3>2, <3>3, <3>4, <3>5
  <2> QED  BY <2>1, <2>5, <2>6, <2>7 DEF Joined, InsertAt
<1> QED  BY <1>3, <1>4, <1>5

\* The list that goes in behind another, or before it, with its head and without.
LEMMA JoinShapes ==
    ASSUME NEW s \in Seq(Items), NEW t \in Seq(Items), NEW g \in RNodes
    PROVE  /\ s \o t \in Seq(Items)
           /\ \E u : /\ Joined(u, s, Len(s), t, g)
                     /\ Without(s \o t, u, Len(s) + Len(t) + 1)
           /\ t \o s \in Seq(Items)
           /\ \E u : Joined(u, s, 0, t, g) /\ Without(t \o s, u, 0 + Len(t) + 1)
<1>1. /\ s \in Seq(RNodes) /\ t \in Seq(RNodes)
      /\ s \o t \in Seq(Items) /\ t \o s \in Seq(Items)
      /\ s \o t \in Seq(RNodes) /\ t \o s \in Seq(RNodes)
  BY NodesApart, ConcatNodes
<1>2. /\ Len(s) \in Nat /\ Len(t) \in Nat
      /\ <<g>> \in Seq(RNodes) /\ Len(<<g>>) = 1 /\ <<g>>[1] = g /\ 1 \in 1 .. 1
  OBVIOUS
<1>3. \E u : Joined(u, s, Len(s), t, g) /\ Without(s \o t, u, Len(s) + Len(t) + 1)
  <2>1. PICK v, u : v = s \o t /\ u = v \o <<g>>
    OBVIOUS
  <2>2. /\ v \in Seq(RNodes) /\ Len(v) = Len(s) + Len(t)
        /\ \A i \in 1 .. Len(s) : v[i] = s[i]
        /\ \A i \in 1 .. Len(t) : v[Len(s) + i] = t[i]
    BY <1>1, <2>1, ConcatNodes
  <2>3. /\ u \in Seq(RNodes) /\ Len(u) = Len(v) + 1
        /\ \A i \in 1 .. Len(v) : u[i] = v[i]
        /\ u[Len(v) + 1] = g
    <3>1. /\ u \in Seq(RNodes) /\ Len(u) = Len(v) + Len(<<g>>)
          /\ \A i \in 1 .. Len(v) : u[i] = v[i]
          /\ \A i \in 1 .. Len(<<g>>) : u[Len(v) + i] = <<g>>[i]
      BY <1>2, <2>1, <2>2, ConcatNodes
    <3>2. u[Len(v) + 1] = g
      BY <1>2, <3>1
    <3> QED  BY <1>2, <3>1, <3>2
  <2>4. Joined(u, s, Len(s), t, g)
    <3>1. /\ Len(u) = Len(s) + Len(t) + 1 /\ u[Len(s) + Len(t) + 1] = g
          /\ \A i \in Len(s) + 1 .. Len(s) : FALSE
      BY <1>2, <2>2, <2>3
    <3>2. \A i \in 1 .. Len(s) : u[i] = s[i]
      <4>1. \A i \in 1 .. Len(s) : i \in 1 .. Len(v)
        BY <1>2, <2>2
      <4> QED  BY <2>2, <2>3, <4>1
    <3>3. \A i \in 1 .. Len(t) : u[Len(s) + i] = t[i]
      <4>1. \A i \in 1 .. Len(t) : Len(s) + i \in 1 .. Len(v)
        BY <1>2, <2>2
      <4> QED  BY <2>2, <2>3, <4>1
    <3> QED  BY <2>3, <3>1, <3>2, <3>3 DEF Joined
  <2>5. Without(v, u, Len(s) + Len(t) + 1)
    <3>1. /\ Len(v) = Len(u) - 1
          /\ \A i \in 1 .. Len(u) - 1 : i \in 1 .. Len(v) /\ i < Len(s) + Len(t) + 1
      BY <1>2, <2>2, <2>3
    <3> QED  BY <2>2, <2>3, <3>1 DEF Without
  <2> QED  BY <2>1, <2>4, <2>5
<1>4. \E u : Joined(u, s, 0, t, g) /\ Without(t \o s, u, 0 + Len(t) + 1)
  <2>1. PICK v, w, u : v = t \o s /\ w = t \o <<g>> /\ u = w \o s
    OBVIOUS
  <2>2. /\ v \in Seq(RNodes) /\ Len(v) = Len(t) + Len(s)
        /\ \A i \in 1 .. Len(t) : v[i] = t[i]
        /\ \A i \in 1 .. Len(s) : v[Len(t) + i] = s[i]
    BY <1>1, <2>1, ConcatNodes
  <2>3. /\ w \in Seq(RNodes) /\ Len(w) = Len(t) + 1
        /\ \A i \in 1 .. Len(t) : w[i] = t[i]
        /\ w[Len(t) + 1] = g
    <3>1. /\ w \in Seq(RNodes) /\ Len(w) = Len(t) + Len(<<g>>)
          /\ \A i \in 1 .. Len(t) : w[i] = t[i]
          /\ \A i \in 1 .. Len(<<g>>) : w[Len(t) + i] = <<g>>[i]
      BY <1>1, <1>2, <2>1, ConcatNodes
    <3>2. w[Len(t) + 1] = g
      BY <1>2, <3>1
    <3> QED  BY <1>2, <3>1, <3>2
  <2>4. /\ u \in Seq(RNodes) /\ Len(u) = Len(w) + Len(s)
        /\ \A i \in 1 .. Len(w) : u[i] = w[i]
        /\ \A i \in 1 .. Len(s) : u[Len(w) + i] = s[i]
    BY <1>1, <2>1, <2>3, ConcatNodes
  <2>5. /\ \A i \in 1 .. Len(t) : u[i] = t[i]
        /\ u[Len(t) + 1] = g
        /\ \A i \in 1 .. Len(s) : u[(Len(t) + 1) + i] = s[i]
    <3>1. /\ \A i \in 1 .. Len(t) : i \in 1 .. Len(w)
          /\ Len(t) + 1 \in 1 .. Len(w)
      BY <1>2, <2>3
    <3> QED  BY <2>3, <2>4, <3>1
  <2>6. Joined(u, s, 0, t, g)
    <3>1. /\ Len(u) = Len(s) + Len(t) + 1 /\ u[0 + Len(t) + 1] = g
          /\ \A i \in 1 .. 0 : FALSE
      BY <1>2, <2>3, <2>4, <2>5
    <3>2. \A i \in 1 .. Len(t) : u[0 + i] = t[i]
      BY <2>5
    <3>3. ASSUME NEW i \in 0 + 1 .. Len(s) PROVE u[i + Len(t) + 1] = s[i]
      <4>1. i \in 1 .. Len(s) /\ i + Len(t) + 1 = (Len(t) + 1) + i
        BY <1>2
      <4> QED  BY <2>5, <4>1
    <3> QED  BY <2>4, <3>1, <3>2, <3>3 DEF Joined
  <2>7. Without(v, u, 0 + Len(t) + 1)
    <3>1. Len(v) = Len(u) - 1
      BY <1>2, <2>2, <2>3, <2>4
    <3>2. ASSUME NEW i \in 1 .. Len(u) - 1
          PROVE  v[i] = IF i < 0 + Len(t) + 1 THEN u[i] ELSE u[i + 1]
      <4>1. CASE i <= Len(t)
        <5>1. i \in 1 .. Len(t) /\ i < 0 + Len(t) + 1
          BY <1>2, <4>1
        <5> QED  BY <2>2, <2>5, <5>1
      <4>2. CASE i > Len(t)
        <5>1. PICK k : k = i - Len(t)
          OBVIOUS
        <5>2. /\ k \in 1 .. Len(s) /\ i = Len(t) + k /\ i + 1 = (Len(t) + 1) + k
              /\ ~ (i < 0 + Len(t) + 1)
          BY <1>2, <2>2, <3>1, <4>2, <5>1
        <5> QED  BY <2>2, <2>5, <5>2
      <4> QED  BY <1>2, <4>1, <4>2
    <3> QED  BY <2>2, <3>1, <3>2 DEF Without
  <2> QED  BY <2>1, <2>6, <2>7
<1> QED  BY <1>1, <1>3, <1>4

\* Without the first node.
LEMMA TailShape ==
    ASSUME NEW s \in Seq(Items), s # <<>>
    PROVE  Tail(s) \in Seq(Items) /\ Without(Tail(s), s, 1) /\ 1 \in 1 .. Len(s)
<1>1. PICK u : u = Tail(s)
  OBVIOUS
<1>2. /\ u \in Seq(Items) /\ Len(u) = Len(s) - 1 /\ Len(s) \in Nat /\ Len(s) # 0
      /\ \A i \in 1 .. Len(s) - 1 : u[i] = s[i + 1]
  BY <1>1
<1>3. \A i \in 1 .. Len(s) - 1 : ~ (i < 1)
  BY <1>2
<1> QED  BY <1>1, <1>2, <1>3, NodesApart DEF Without

\* Without the node x, if it is the j-th; and if it is in another list.
LEMMA OnlyShape ==
    ASSUME NEW s \in Seq(Items), Distinct(s), NEW x \in Items
    PROVE  /\ Only(s, Items \ {x}) \in Seq(Items)
           /\ \A j \in 1 .. Len(s) : s[j] = x => Without(Only(s, Items \ {x}), s, j)
           /\ x \notin Members(s) => Only(s, Items \ {x}) = s
<1>1. Len(s) \in Nat /\ Len(s) \in 0 .. Len(s) /\ \A i \in 1 .. Len(s) : s[i] \in Items
  OBVIOUS
<1>2. PICK T : T = Items \ {x}
  OBVIOUS
<1>3. Only(s, T) \in Seq(Items)
  BY <1>1, SiftedSteps DEF Only
<1>4. ASSUME NEW j \in 1 .. Len(s), s[j] = x PROVE Without(Only(s, T), s, j)
  <2>1. s[j] \notin T /\ \A i \in 1 .. Len(s) : i # j => s[i] \in T
    BY <1>1, <1>2, <1>4 DEF Distinct
  <2>2. /\ Len(Only(s, T)) = Len(s) - 1
        /\ \A i \in 1 .. Len(s) - 1 : Only(s, T)[i] = IF i < j THEN s[i] ELSE s[i + 1]
    BY <2>1, SiftedButOne
  <2> QED  BY <1>3, <2>2, NodesApart DEF Without
<1>5. ASSUME x \notin Members(s) PROVE Only(s, T) = s
  <2>1. \A i \in 1 .. Len(s) : s[i] \in T
    BY <1>1, <1>2, <1>5 DEF Members
  <2>2. PICK w : w = Only(s, T)
    OBVIOUS
  <2>3. Len(w) = Len(s) /\ \A i \in 1 .. Len(s) : w[i] = s[i]
    BY <1>1, <2>1, <2>2, SiftedAll DEF Only
  <2>4. w \in Seq(Items)
    BY <1>3, <2>2
  <2>5. w = s
    BY <2>3, <2>4
  <2> QED  BY <2>2, <2>5
<1> QED  BY <1>2, <1>3, <1>4, <1>5

-----------------------------------------------------------------------------
(* The calls, on all lists.                                                *)

\* rl_splice() does not care which node is named first, and does nothing to one.
LEMMA SpliceTurned ==
    ASSUME NEW r \in Heaps, NEW a \in RNodes, NEW b \in RNodes
    PROVE  rl_splice(r, a, b) = rl_splice(r, b, a) /\ rl_splice(r, a, a) = r
<1>1. /\ r.next \in [RNodes -> RNodes] /\ r.prev \in [RNodes -> RNodes]
      /\ r.next[a] \in RNodes /\ r.next[b] \in RNodes
      /\ r = [next |-> r.next, prev |-> r.prev]
  BY DEF Heaps
<1>2. ASSUME NEW f \in [RNodes -> RNodes], NEW x \in RNodes, NEW y \in RNodes
      PROVE  rlnode_swap(f, x, y) = rlnode_swap(f, y, x) /\ rlnode_swap(f, x, x) = f
  BY <1>2 DEF rlnode_swap
<1>3. /\ rlnode_swap(r.next, a, b) = rlnode_swap(r.next, b, a)
      /\ rlnode_swap(r.next, a, a) = r.next
  BY <1>1, <1>2
<1>4. /\ rlnode_swap(r.prev, r.next[a], r.next[b]) = rlnode_swap(r.prev, r.next[b], r.next[a])
      /\ rlnode_swap(r.prev, r.next[a], r.next[a]) = r.prev
  BY <1>1, <1>2
<1> QED  BY <1>1, <1>3, <1>4 DEF rl_splice

\* The pointers of a list, and those of a node that is in none.
LEMMA HeldPointers ==
    ASSUME NEW r, NEW l, ListsHeld(r, l)
    PROVE  /\ \A h \in Heads :
                 /\ h \in RNodes /\ Len(l[h]) \in Nat
                 /\ r.prev[h] = Point(h, l[h], Len(l[h])) /\ Point(h, l[h], 0) = h
                 /\ r.next[h] = IF l[h] = <<>> THEN h ELSE l[h][1]
                 /\ \A i \in 1 .. Len(l[h]) : r.prev[l[h][i]] = Point(h, l[h], i - 1)
           /\ \A x \in Free(l) : x \in RNodes /\ r.next[x] = x /\ r.prev[x] = x
<1>1. ASSUME NEW h \in Heads
      PROVE  /\ h \in RNodes /\ Len(l[h]) \in Nat
             /\ r.prev[h] = Point(h, l[h], Len(l[h])) /\ Point(h, l[h], 0) = h
             /\ r.next[h] = IF l[h] = <<>> THEN h ELSE l[h][1]
             /\ \A i \in 1 .. Len(l[h]) : r.prev[l[h][i]] = Point(h, l[h], i - 1)
  <2>1. PICK s \in Seq(Items) : s = l[h] /\ IsRing(h, s) /\ Linked(r, h, s)
    BY HeldParts
  <2>2. /\ h \in RNodes /\ Len(s) \in Nat /\ Point(h, s, 0) = h /\ Point(h, s, Len(s) + 1) = h
        /\ \A i \in 1 .. Len(s) : Point(h, s, i) = s[i]
    BY <2>1, Points DEF IsRing
  <2>3. \A i \in 0 .. Len(s) : /\ r.next[Point(h, s, i)] = Point(h, s, i + 1)
                               /\ r.prev[Point(h, s, i + 1)] = Point(h, s, i)
    BY <2>1, LinkedPoints
  <2>4. r.prev[h] = Point(h, s, Len(s)) /\ r.next[h] = Point(h, s, 1)
    <3>1. Len(s) \in 0 .. Len(s) /\ 0 \in 0 .. Len(s) /\ 0 + 1 = 1
      BY <2>2
    <3> QED  BY <2>2, <2>3, <3>1
  <2>5. Point(h, s, 1) = IF s = <<>> THEN h ELSE s[1]
    <3>1. CASE s = <<>>
      <4>1. Len(s) + 1 = 1
        BY <3>1
      <4> QED  BY <2>2, <3>1, <4>1
    <3>2. CASE s # <<>>
      <4>1. 1 \in 1 .. Len(s)
        BY <3>2
      <4> QED  BY <2>2, <3>2, <4>1
    <3> QED  BY <3>1, <3>2
  <2>6. ASSUME NEW i \in 1 .. Len(s) PROVE r.prev[s[i]] = Point(h, s, i - 1)
    <3>1. i - 1 \in 0 .. Len(s) /\ (i - 1) + 1 = i
      BY <2>2
    <3>2. r.prev[Point(h, s, (i - 1) + 1)] = Point(h, s, i - 1)
      BY <2>3, <3>1
    <3> QED  BY <2>2, <3>1, <3>2
  <2> QED  BY <2>1, <2>2, <2>4, <2>5, <2>6
<1>2. ASSUME NEW x \in Free(l) PROVE x \in RNodes /\ r.next[x] = x /\ r.prev[x] = x
  <2>1. x \in RNodes /\ Linked(r, x, <<>>)
    BY HeldParts, NodesApart
  <2>2. 0 \in 0 .. Len(<<>>) /\ \A i : Point(x, <<>>, i) = x
    BY DEF Point
  <2> QED  BY <2>1, <2>2, LinkedPoints
<1> QED  BY <1>1, <1>2

\* rlist_push_front() and rlist_push_back()
LEMMA HeldPush ==
    ASSUME NEW r, NEW l, ListsHeld(r, l), NEW h \in Heads, NEW x \in Free(l)
    PROVE  /\ ListsHeld(rlist_push_front(r, h, x), [l EXCEPT ![h] = <<x>> \o @])
           /\ ListsHeld(rlist_push_back(r, h, x), [l EXCEPT ![h] = Append(@, x)])
<1>1. PICK s \in Seq(Items) : s = l[h]
  BY HeldParts
<1>2. x \in Items /\ Len(s) \in Nat /\ Point(h, s, 0) = h /\ r.prev[h] = Point(h, s, Len(s))
  <2>1. Point(h, l[h], 0) = h /\ r.prev[h] = Point(h, l[h], Len(l[h]))
    BY HeldPointers
  <2>2. x \in Items
    BY HeldParts
  <2> QED  BY <1>1, <2>1, <2>2
<1>3. 0 \in 0 .. Len(l[h]) /\ Len(l[h]) \in 0 .. Len(l[h]) /\ Len(l[h]) = Len(s)
  BY <1>1, <1>2
<1>4. /\ Append(s, x) \in Seq(Items) /\ Joined(Append(s, x), l[h], Len(l[h]), <<>>, x)
      /\ <<x>> \o s \in Seq(Items) /\ Joined(<<x>> \o s, l[h], 0, <<>>, x)
  BY <1>1, <1>2, InsertShapes
<1>5. ListsHeld(rl_splice(r, Point(h, l[h], Len(l[h])), x), [l EXCEPT ![h] = Append(s, x)])
  BY <1>3, <1>4, HeldInsert
<1>6. ListsHeld(rl_splice(r, Point(h, l[h], 0), x), [l EXCEPT ![h] = <<x>> \o s])
  BY <1>3, <1>4, HeldInsert
<1>7. l \in [Heads -> Seq(Items)]
  BY HeldParts
<1> QED  BY <1>1, <1>2, <1>3, <1>5, <1>6, <1>7 DEF rlist_push_front, rlist_push_back

\* sched_register_timeout()
LEMMA HeldInsertAt ==
    ASSUME NEW r, NEW l, ListsHeld(r, l), NEW h \in Heads, NEW x \in Free(l),
           NEW i \in 1 .. Len(l[h])
    PROVE  ListsHeld(rl_splice(r, r.prev[l[h][i]], x), [l EXCEPT ![h] = InsertAt(@, i, x)])
<1>1. PICK s \in Seq(Items) : s = l[h]
  BY HeldParts
<1>2. x \in Items /\ Len(s) \in Nat /\ r.prev[l[h][i]] = Point(h, l[h], i - 1)
  <2>1. r.prev[l[h][i]] = Point(h, l[h], i - 1)
    BY HeldPointers
  <2>2. x \in Items
    BY HeldParts
  <2> QED  BY <1>1, <2>1, <2>2
<1>3. i - 1 \in 0 .. Len(l[h])
  BY <1>1, <1>2
<1>4. InsertAt(s, i, x) \in Seq(Items) /\ Joined(InsertAt(s, i, x), l[h], i - 1, <<>>, x)
  BY <1>1, <1>2, InsertShapes
<1>5. ListsHeld(rl_splice(r, Point(h, l[h], i - 1), x), [l EXCEPT ![h] = InsertAt(s, i, x)])
  BY <1>3, <1>4, HeldInsert
<1>6. l \in [Heads -> Seq(Items)]
  BY HeldParts
<1> QED  BY <1>1, <1>2, <1>5, <1>6

\* rlist_remove() of a node, wherever it is.
LEMMA HeldUnlink ==
    ASSUME NEW r, NEW l, ListsHeld(r, l), NEW x \in Items
    PROVE  /\ ListsHeld(rlist_remove(r, x), [h \in Heads |-> Only(l[h], Items \ {x})])
           /\ x \in Free([h \in Heads |-> Only(l[h], Items \ {x})])
<1>1. PICK m : m = [h \in Heads |-> Only(l[h], Items \ {x})]
  OBVIOUS
<1>2. l \in [Heads -> Seq(Items)] /\ r \in Heaps /\ \A h \in Heads : Distinct(l[h])
  BY HeldParts DEF IsRing
<1>3. \A h \in Heads : x \notin Members(l[h]) => m[h] = l[h]
  <2>1. ASSUME NEW h \in Heads, x \notin Members(l[h]) PROVE Only(l[h], Items \ {x}) = l[h]
    <3>1. l[h] \in Seq(Items) /\ Distinct(l[h])
      BY <1>2
    <3> QED  BY <2>1, <3>1, OnlyShape
  <2> QED  BY <1>1, <2>1
<1>4. CASE x \in Free(l)
  <2>1. m = l
    BY <1>1, <1>2, <1>3, <1>4 DEF Free
  <2>2. x \in RNodes /\ r.prev[x] = x
    BY <1>4, HeldPointers
  <2>3. rlist_remove(r, x) = r
    BY <1>2, <2>2, SpliceTurned DEF rlist_remove
  <2> QED  BY <1>1, <1>4, <2>1, <2>3
<1>5. CASE x \notin Free(l)
  <2>1. PICK h \in Heads : x \in Members(l[h])
    BY <1>5 DEF Free
  <2>2. PICK j \in 1 .. Len(l[h]) : x = l[h][j]
    BY <2>1 DEF Members
  <2>3. PICK u : u = Only(l[h], Items \ {x})
    OBVIOUS
  <2>4. u \in Seq(Items) /\ Without(u, l[h], j)
    <3>1. l[h] \in Seq(Items) /\ Distinct(l[h])
      BY <1>2
    <3> QED  BY <2>2, <2>3, <3>1, OnlyShape
  <2>5. /\ ListsHeld(rlist_remove(r, x), [l EXCEPT ![h] = u])
        /\ x \in Free([l EXCEPT ![h] = u])
    BY <2>2, <2>4, HeldLeave
  <2>6. \A k \in Heads : k # h => m[k] = l[k]
    <3>1. \A k \in Heads : k # h => x \notin Members(l[k])
      BY <2>1, HeldParts
    <3> QED  BY <1>3, <3>1
  <2>7. m = [l EXCEPT ![h] = u]
    BY <1>1, <1>2, <2>3, <2>6
  <2> QED  BY <1>1, <2>5, <2>7
<1> QED  BY <1>4, <1>5

\* rlist_pop_front()
LEMMA HeldPop ==
    ASSUME NEW r, NEW l, ListsHeld(r, l), NEW h \in Heads
    PROVE  ListsHeld(rlist_pop_front(r, h), [l EXCEPT ![h] = IF @ = <<>> THEN @ ELSE Tail(@)])
<1>1. PICK s \in Seq(Items) : s = l[h]
  BY HeldParts
<1>2. /\ r \in Heaps /\ h \in RNodes /\ l \in [Heads -> Seq(Items)]
      /\ r.next[h] = IF s = <<>> THEN h ELSE s[1]
  <2>1. h \in RNodes /\ r.next[h] = IF l[h] = <<>> THEN h ELSE l[h][1]
    BY HeldPointers
  <2>2. r \in Heaps /\ l \in [Heads -> Seq(Items)]
    BY HeldParts
  <2> QED  BY <1>1, <2>1, <2>2
<1>3. CASE s = <<>>
  <2>1. rlist_pop_front(r, h) = r
    BY <1>2, <1>3, SpliceTurned DEF rlist_pop_front
  <2>2. [l EXCEPT ![h] = IF @ = <<>> THEN @ ELSE Tail(@)] = l
    BY <1>1, <1>2, <1>3
  <2> QED  BY <2>1, <2>2
<1>4. CASE s # <<>>
  <2>1. PICK x : x = s[1]
    OBVIOUS
  <2>2. PICK u : u = Tail(s)
    OBVIOUS
  <2>3. 1 \in 1 .. Len(l[h]) /\ x = l[h][1] /\ u \in Seq(Items) /\ Without(u, l[h], 1)
    BY <1>1, <1>4, <2>1, <2>2, TailShape
  <2>4. ListsHeld(rlist_remove(r, x), [l EXCEPT ![h] = u]) /\ r.prev[x] = Point(h, l[h], 1 - 1)
    BY <2>3, HeldLeave
  <2>5. r.prev[x] = h
    <3>1. 1 - 1 = 0 /\ Point(h, l[h], 0) = h
      BY HeldPointers
    <3> QED  BY <2>4, <3>1
  <2>6. x \in RNodes
    <3>1. x \in Items
      BY <1>1, <2>1, <2>3
    <3> QED  BY <3>1, NodesApart
  <2>7. rlist_pop_front(r, h) = rlist_remove(r, x)
    <3>1. rlist_pop_front(r, h) = rl_splice(r, h, x) /\ rlist_remove(r, x) = rl_splice(r, x, h)
      BY <1>2, <1>4, <2>1, <2>5 DEF rlist_pop_front, rlist_remove
    <3> QED  BY <1>2, <2>6, <3>1, SpliceTurned
  <2>8. [l EXCEPT ![h] = IF @ = <<>> THEN @ ELSE Tail(@)] = [l EXCEPT ![h] = u]
    BY <1>1, <1>2, <1>4, <2>2
  <2> QED  BY <2>4, <2>7, <2>8
<1> QED  BY <1>3, <1>4

\* rlist_append() and rlist_prepend()
LEMMA HeldAppend ==
    ASSUME NEW r, NEW l, ListsHeld(r, l), NEW d \in Heads, NEW s \in Heads, d # s
    PROVE  /\ ListsHeld(rlist_append(r, d, s), [l EXCEPT ![d] = @ \o l[s], ![s] = <<>>])
           /\ ListsHeld(rlist_prepend(r, d, s), [l EXCEPT ![d] = l[s] \o @, ![s] = <<>>])
<1>1. PICK a, b \in Seq(Items) : a = l[d] /\ b = l[s]
  BY HeldParts
<1>2. /\ l \in [Heads -> Seq(Items)] /\ s \in RNodes /\ Len(a) \in Nat
      /\ r.prev[d] = Point(d, l[d], Len(l[d])) /\ Point(d, l[d], 0) = d
      /\ 0 \in 0 .. Len(l[d]) /\ Len(l[d]) \in 0 .. Len(l[d])
  <2>1. /\ s \in RNodes /\ Len(l[d]) \in Nat
        /\ r.prev[d] = Point(d, l[d], Len(l[d])) /\ Point(d, l[d], 0) = d
    BY HeldPointers
  <2>2. l \in [Heads -> Seq(Items)]
    BY HeldParts
  <2> QED  BY <1>1, <2>1, <2>2
<1>3. ListsHeld(rlist_append(r, d, s), [l EXCEPT ![d] = a \o b, ![s] = <<>>])
  <2>1. PICK u : Joined(u, a, Len(a), b, s) /\ Without(a \o b, u, Len(a) + Len(b) + 1)
    BY <1>2, JoinShapes
  <2>2. /\ Joined(u, l[d], Len(l[d]), l[s], s) /\ a \o b \in Seq(Items)
        /\ Without(a \o b, u, Len(l[d]) + Len(l[s]) + 1)
    BY <1>1, <1>2, <2>1, JoinShapes
  <2>3. ListsHeld(rlist_remove(rl_splice(r, Point(d, l[d], Len(l[d])), s), s),
                  [l EXCEPT ![d] = a \o b, ![s] = <<>>])
    BY <1>2, <2>2, HeldJoin
  <2> QED  BY <1>2, <2>3 DEF rlist_append, rlist_push_back
<1>4. ListsHeld(rlist_prepend(r, d, s), [l EXCEPT ![d] = b \o a, ![s] = <<>>])
  <2>1. PICK u : Joined(u, a, 0, b, s) /\ Without(b \o a, u, 0 + Len(b) + 1)
    BY <1>2, JoinShapes
  <2>2. /\ Joined(u, l[d], 0, l[s], s) /\ b \o a \in Seq(Items)
        /\ Without(b \o a, u, 0 + Len(l[s]) + 1)
    BY <1>1, <1>2, <2>1, JoinShapes
  <2>3. ListsHeld(rlist_remove(rl_splice(r, Point(d, l[d], 0), s), s),
                  [l EXCEPT ![d] = b \o a, ![s] = <<>>])
    BY <1>2, <2>2, HeldJoin
  <2> QED  BY <1>2, <2>3 DEF rlist_prepend, rlist_push_front
<1> QED  BY <1>1, <1>2, <1>3, <1>4

\* A list is no longer than there are nodes.
LEMMA LengthBound ==
    ASSUME NEW S, IsFiniteSet(S), NEW s \in Seq(S), Distinct(s)
    PROVE  Len(s) \in 0 .. Cardinality(S)
<1>1. Len(s) \in Nat /\ s \in [1 .. Len(s) -> S] /\ Cardinality(S) \in Nat
  BY FS_CardinalityType
<1>2. s \in Injection(1 .. Len(s), S)
  BY <1>1 DEF Distinct, Injection, IsInjective
<1>3. Cardinality(1 .. Len(s)) <= Cardinality(S)
  BY <1>2, FS_Injection
<1>4. Cardinality(1 .. Len(s)) = Len(s)
  <2>1. 1 \in Int /\ Len(s) \in Int /\ (1 > Len(s) <=> Len(s) = 0) /\ Len(s) - 1 + 1 = Len(s)
    BY <1>1
  <2>2. Cardinality(1 .. Len(s)) = IF 1 > Len(s) THEN 0 ELSE Len(s) - 1 + 1
    BY <2>1, FS_Interval
  <2> QED  BY <2>1, <2>2
<1> QED  BY <1>1, <1>3, <1>4

\* Heads and items are finitely many.
LEMMA NodesFinite ==
    /\ IsFiniteSet(RNodes) /\ Cardinality(RNodes) \in Nat
    /\ IsFiniteSet(Items) /\ Cardinality(Items) \in Nat
<1>1. NHeads \in Nat /\ NItems \in Nat
  BY RingsAssumption
<1>2. IsFiniteSet(Items) /\ IsFiniteSet(Heads)
  BY <1>1, FS_Interval DEF Items, Heads
<1>3. IsFiniteSet(RNodes)
  BY <1>2, FS_Union DEF RNodes
<1> QED  BY <1>2, <1>3, FS_CardinalityType

\* A loop that starts at the head comes to the nodes of the ring one after the
\* other, in either direction.
LEMMA WalkRound ==
    ASSUME NEW r \in Heaps, NEW h, NEW s, IsRing(h, s), Linked(r, h, s)
    PROVE  /\ \A k \in 0 .. Len(s) + 1 : Walk(r.next, h)[k] = Point(h, s, k)
           /\ \A k \in 0 .. Len(s) + 1 : Walk(r.prev, h)[k] = Point(h, s, Len(s) + 1 - k)
           /\ \A k \in Nat : Walk(r.prev, h)[k] \in Ring(h, s)
<1>1. /\ r.next \in [RNodes -> RNodes] /\ r.prev \in [RNodes -> RNodes]
      /\ h \in RNodes /\ Len(s) \in Nat
      /\ Point(h, s, 0) = h /\ Point(h, s, Len(s) + 1) = h /\ h \in Ring(h, s)
  BY Points DEF Heaps, IsRing, Ring
<1>2. PICK f, b, next, prev : f = Walk(next, h) /\ b = Walk(prev, h) /\ next = r.next /\ prev = r.prev
  OBVIOUS
<1>3. f[0] = h /\ \A n \in Nat : f[n + 1] = r.next[f[n]]
  <2>1. next \in [RNodes -> RNodes]
    BY <1>1, <1>2
  <2>2. Steps(RNodes, next, h, f)
    BY <1>1, <1>2, <2>1, WalkSteps
  <2> QED  BY <1>2, <2>2 DEF Steps
<1>4. b[0] = h /\ \A n \in Nat : b[n + 1] = r.prev[b[n]]
  <2>1. prev \in [RNodes -> RNodes]
    BY <1>1, <1>2
  <2>2. Steps(RNodes, prev, h, b)
    BY <1>1, <1>2, <2>1, WalkSteps
  <2> QED  BY <1>2, <2>2 DEF Steps
<1>5. \A i \in 0 .. Len(s) : /\ r.next[Point(h, s, i)] = Point(h, s, i + 1)
                             /\ r.prev[Point(h, s, i + 1)] = Point(h, s, i)
  BY LinkedPoints
<1>6. \A k \in 0 .. Len(s) + 1 : f[k] = Point(h, s, k)
  <2> DEFINE T == {n \in Nat : n <= Len(s) + 1 => f[n] = Point(h, s, n)}
  <2>1. 0 \in T
    BY <1>1, <1>3
  <2>2. ASSUME NEW n \in T PROVE n + 1 \in T
    <3>1. n + 1 <= Len(s) + 1 => n \in 0 .. Len(s) /\ f[n] = Point(h, s, n)
      BY <1>1
    <3>2. n \in Nat /\ f[n + 1] = r.next[f[n]]
      BY <1>3
    <3>3. n + 1 <= Len(s) + 1 => f[n + 1] = Point(h, s, n + 1)
      BY <1>5, <3>1, <3>2
    <3> QED  BY <3>2, <3>3
  <2> HIDE DEF T
  <2>3. T = Nat
    <3>1. T \in SUBSET Nat
      BY DEF T
    <3> QED  BY <2>1, <2>2, <3>1, AllNat
  <2> QED  BY <1>1, <2>3 DEF T
<1>7. \A k \in 0 .. Len(s) + 1 : b[k] = Point(h, s, Len(s) + 1 - k)
  <2> DEFINE T == {n \in Nat : n <= Len(s) + 1 => b[n] = Point(h, s, Len(s) + 1 - n)}
  <2>1. 0 \in T
    <3>1. Len(s) + 1 - 0 = Len(s) + 1
      BY <1>1
    <3> QED  BY <1>1, <1>4, <3>1
  <2>2. ASSUME NEW n \in T PROVE n + 1 \in T
    <3> SUFFICES ASSUME n + 1 <= Len(s) + 1
                 PROVE  b[n + 1] = Point(h, s, Len(s) + 1 - (n + 1))
      OBVIOUS
    <3>1. PICK i : i = Len(s) - n
      OBVIOUS
    <3>2. /\ i \in 0 .. Len(s) /\ Len(s) + 1 - n = i + 1 /\ Len(s) + 1 - (n + 1) = i
          /\ b[n] = Point(h, s, Len(s) + 1 - n) /\ n \in Nat
      BY <1>1, <3>1
    <3> QED  BY ZenonT(60), <1>4, <1>5, <3>2
  <2> HIDE DEF T
  <2>3. T = Nat
    <3>1. T \in SUBSET Nat
      BY DEF T
    <3> QED  BY <2>1, <2>2, <3>1, AllNat
  <2> QED  BY <1>1, <2>3 DEF T
<1>8. \A k \in Nat : b[k] \in Ring(h, s)
  <2> DEFINE T == {n \in Nat : b[n] \in Ring(h, s)}
  <2>1. 0 \in T
    BY <1>1, <1>4
  <2>2. ASSUME NEW n \in T PROVE n + 1 \in T
    <3>1. n \in Nat /\ b[n] \in Ring(h, s)
      OBVIOUS
    <3>2. r.prev[b[n]] \in Ring(h, s)
      BY <3>1, RingClosed
    <3> QED  BY <1>4, <3>1, <3>2
  <2> HIDE DEF T
  <2>3. T = Nat
    <3>1. T \in SUBSET Nat
      BY DEF T
    <3> QED  BY <2>1, <2>2, <3>1, AllNat
  <2> QED  BY <2>3 DEF T
<1> QED  BY <1>2, <1>6, <1>7, <1>8

\* A list turned round.
LEMMA ReverseShape ==
    ASSUME NEW h, NEW s, IsRing(h, s)
    PROVE  /\ \A i \in 0 .. Len(s) + 1 : Point(h, Reverse(s), i) = Point(h, s, Len(s) + 1 - i)
           /\ IsRing(h, Reverse(s)) /\ Members(Reverse(s)) = Members(s)
           /\ Len(Reverse(s)) = Len(s)
<1>1. PICK u : u = Reverse(s)
  OBVIOUS
<1>2. s \in Seq(RNodes) /\ Len(s) \in Nat /\ \A i \in 1 .. Len(s) : s[i] \in RNodes
  BY DEF IsRing
<1>3. \A i \in 1 .. Len(s) : (Len(s) - i) + 1 \in 1 .. Len(s)
  BY <1>2
<1>4. u \in [1 .. Len(s) -> RNodes] /\ \A i \in 1 .. Len(s) : u[i] = s[(Len(s) - i) + 1]
  BY <1>1, <1>2, <1>3 DEF Reverse
<1>5. u \in Seq(RNodes) /\ Len(u) = Len(s) /\ DOMAIN u = 1 .. Len(s) /\ DOMAIN s = 1 .. Len(s)
  BY <1>2, <1>4
<1>6. ASSUME NEW i \in 0 .. Len(s) + 1 PROVE Point(h, u, i) = Point(h, s, Len(s) + 1 - i)
  <2>1. CASE i \in 1 .. Len(s)
    <3>1. Len(s) + 1 - i = (Len(s) - i) + 1 /\ Len(s) + 1 - i \in DOMAIN s
      BY <1>2, <1>5, <2>1
    <3> QED  BY <1>4, <1>5, <2>1, <3>1 DEF Point
  <2>2. CASE i \notin 1 .. Len(s)
    <3>1. Len(s) + 1 - i \notin DOMAIN s
      BY <1>2, <1>5, <2>2
    <3> QED  BY <1>5, <2>2, <3>1 DEF Point
  <2> QED  BY <2>1, <2>2
<1>7. Members(u) = Members(s)
  <2>1. \A i \in 1 .. Len(s) : s[i] \in Members(u)
    <3>1. ASSUME NEW i \in 1 .. Len(s) PROVE s[i] \in Members(u)
      <4>1. PICK k : k = (Len(s) - i) + 1
        OBVIOUS
      <4>2. k \in 1 .. Len(s) /\ (Len(s) - k) + 1 = i
        BY <1>2, <4>1
      <4>3. u[k] = s[i]
        BY <1>4, <4>2
      <4> QED  BY <1>5, <4>2, <4>3 DEF Members
    <3> QED  BY <3>1
  <2>2. \A i \in 1 .. Len(u) : u[i] \in Members(s)
    BY <1>3, <1>4, <1>5 DEF Members
  <2> QED  BY <2>1, <2>2 DEF Members
<1>8. Distinct(u)
  <2> SUFFICES ASSUME NEW i \in 1 .. Len(s), NEW k \in 1 .. Len(s), u[i] = u[k] PROVE i = k
    BY <1>5 DEF Distinct
  <2>1. \A m, n \in 1 .. Len(s) : s[m] = s[n] => m = n
    BY DEF IsRing, Distinct
  <2>2. (Len(s) - i) + 1 = (Len(s) - k) + 1
    BY <1>3, <1>4, <2>1
  <2> QED  BY <1>2, <2>2
<1>9. IsRing(h, u)
  BY <1>5, <1>7, <1>8 DEF IsRing
<1> QED  BY <1>1, <1>5, <1>6, <1>7, <1>9

\* rlist_reverse()
LEMMA HeldReverse ==
    ASSUME NEW r, NEW l, ListsHeld(r, l), NEW h \in Heads
    PROVE  ListsHeld(rlist_reverse(r, h), [l EXCEPT ![h] = Reverse(@)])
<1>1. PICK s \in Seq(Items) : s = l[h] /\ IsRing(h, s) /\ Linked(r, h, s)
  BY HeldParts
<1>2. PICK u : u = Reverse(s)
  OBVIOUS
<1>3. /\ r \in Heaps /\ r.next \in [RNodes -> RNodes] /\ r.prev \in [RNodes -> RNodes]
      /\ l \in [Heads -> Seq(Items)] /\ Parted(r, Owned(l))
  <2>1. r \in Heaps
    BY HeldParts
  <2> QED  BY <2>1 DEF Heaps, ListsHeld
<1>4. /\ \A i \in 0 .. Len(s) + 1 : Point(h, u, i) = Point(h, s, Len(s) + 1 - i)
      /\ IsRing(h, u) /\ Members(u) = Members(s) /\ Len(u) = Len(s) /\ Len(s) \in Nat
  BY <1>1, <1>2, ReverseShape
<1>5. {Walk(r.prev, h)[k] : k \in 0 .. Cardinality(RNodes)} = Ring(h, s)
  <2>1. Cardinality(RNodes) \in Nat /\ Len(s) \in 0 .. Cardinality(RNodes)
    <3>1. s \in Seq(RNodes) /\ Distinct(s)
      BY <1>1 DEF IsRing
    <3> QED  BY <3>1, NodesFinite, LengthBound
  <2>2. \A k \in Nat : Walk(r.prev, h)[k] \in Ring(h, s)
    BY <1>1, <1>3, WalkRound
  <2>3. ASSUME NEW x \in Ring(h, s)
        PROVE  \E k \in 0 .. Cardinality(RNodes) : Walk(r.prev, h)[k] = x
    <3>1. PICK i \in 1 .. Len(s) + 1 : x = Point(h, s, i)
      BY <1>1, Points
    <3>2. PICK k : k = Len(s) + 1 - i
      OBVIOUS
    <3>3. k \in 0 .. Cardinality(RNodes) /\ k \in 0 .. Len(s) + 1 /\ Len(s) + 1 - k = i
      BY <1>4, <2>1, <3>2
    <3>4. Walk(r.prev, h)[k] = Point(h, s, Len(s) + 1 - k)
      BY <1>1, <1>3, <3>3, WalkRound
    <3> QED  BY <3>1, <3>3, <3>4
  <2>4. \A k \in 0 .. Cardinality(RNodes) : k \in Nat
    BY <2>1
  <2> QED  BY <2>2, <2>3, <2>4
<1>6. PICK q : q = rlist_reverse(r, h)
  OBVIOUS
<1>7. q = [next |-> [x \in RNodes |-> IF x \in Ring(h, s) THEN r.prev[x] ELSE r.next[x]],
           prev |-> [x \in RNodes |-> IF x \in Ring(h, s) THEN r.next[x] ELSE r.prev[x]]]
  BY <1>5, <1>6 DEF rlist_reverse
<1>8. /\ q \in Heaps
      /\ \A x \in RNodes : IF x \in Ring(h, s)
                           THEN q.next[x] = r.prev[x] /\ q.prev[x] = r.next[x]
                           ELSE q.next[x] = r.next[x] /\ q.prev[x] = r.prev[x]
  BY <1>3, <1>7 DEF Heaps
<1>9. Linked(q, h, u)
  <2>1. ASSUME NEW i \in 0 .. Len(u)
        PROVE  /\ q.next[Point(h, u, i)] = Point(h, u, i + 1)
               /\ q.prev[Point(h, u, i + 1)] = Point(h, u, i)
    <3>1. PICK k : k = Len(s) - i
      OBVIOUS
    <3>2. /\ k \in 0 .. Len(s) /\ Len(s) + 1 - i = k + 1 /\ Len(s) + 1 - (i + 1) = k
          /\ i \in 0 .. Len(s) + 1 /\ i + 1 \in 0 .. Len(s) + 1
          /\ k \in 0 .. Len(s) + 1 /\ k + 1 \in 0 .. Len(s) + 1
      BY <1>4, <3>1
    <3>3. Point(h, u, i) = Point(h, s, k + 1) /\ Point(h, u, i + 1) = Point(h, s, k)
      BY <1>4, <3>2
    <3>4. r.next[Point(h, s, k)] = Point(h, s, k + 1) /\ r.prev[Point(h, s, k + 1)] = Point(h, s, k)
      BY <1>1, <3>2, LinkedPoints
    <3>5. /\ Point(h, s, k) \in Ring(h, s) /\ Point(h, s, k + 1) \in Ring(h, s)
          /\ Ring(h, s) \subseteq RNodes
      BY <1>1, <3>2, Points
    <3> QED  BY <1>8, <3>3, <3>4, <3>5
  <2> QED  BY <2>1, LinkedPoints
<1>10. PICK m : m = [l EXCEPT ![h] = u]
  OBVIOUS
<1>11. /\ m \in [Heads -> Seq(Items)] /\ m[h] = u /\ \A k \in Heads : k # h => m[k] = l[k]
  <2>1. u \in Seq(Items)
    <3>1. u \in Seq(RNodes) /\ Members(u) \subseteq Items
      BY <1>1, <1>4, NodesApart DEF IsRing
    <3>2. \A i \in 1 .. Len(u) : u[i] \in Items
      BY <3>1 DEF Members
    <3> QED  BY <3>1, <3>2
  <2> QED  BY <1>3, <1>10, <2>1
<1>12. Free(m) = Free(l)
  BY <1>1, <1>4, <1>11 DEF Free
<1>13. /\ DOMAIN Owned(m) = DOMAIN Owned(l) /\ h \in DOMAIN Owned(l)
       /\ Owned(m)[h] = u /\ Owned(l)[h] = s
       /\ \A k \in DOMAIN Owned(l) : k # h => Owned(m)[k] = Owned(l)[k]
  BY <1>1, <1>11, <1>12 DEF Owned
<1>14. Ring(h, u) = Ring(h, s)
  BY <1>4 DEF Ring
<1>15. ASSUME NEW k \in DOMAIN Owned(l), k # h
       PROVE  IsRing(k, Owned(l)[k]) /\ Linked(q, k, Owned(l)[k])
  <2>1. PICK t : t = Owned(l)[k]
    OBVIOUS
  <2>2. IsRing(k, t) /\ Linked(r, k, t) /\ Ring(k, t) \cap Ring(h, s) = {}
    BY <1>3, <1>13, <1>15, <2>1 DEF Parted
  <2>3. ASSUME NEW i \in 0 .. Len(t)
        PROVE  /\ q.next[Point(k, t, i)] = Point(k, t, i + 1)
               /\ q.prev[Point(k, t, i + 1)] = Point(k, t, i)
    <3>1. i \in 0 .. Len(t) + 1 /\ i + 1 \in 0 .. Len(t) + 1
      BY <2>2, Points
    <3>2. /\ Point(k, t, i) \in Ring(k, t) /\ Point(k, t, i + 1) \in Ring(k, t)
          /\ Ring(k, t) \subseteq RNodes
      BY <2>2, <3>1, Points
    <3>3. r.next[Point(k, t, i)] = Point(k, t, i + 1) /\ r.prev[Point(k, t, i + 1)] = Point(k, t, i)
      BY <2>2, LinkedPoints
    <3> QED  BY <1>8, <2>2, <3>2, <3>3
  <2> QED  BY <2>1, <2>2, <2>3, LinkedPoints
<1>16. Parted(q, Owned(m))
  <2>1. \A k \in DOMAIN Owned(m) : IsRing(k, Owned(m)[k]) /\ Linked(q, k, Owned(m)[k])
    BY <1>4, <1>9, <1>13, <1>15
  <2>2. \A k \in DOMAIN Owned(l) : Ring(k, Owned(m)[k]) = Ring(k, Owned(l)[k])
    BY <1>13, <1>14
  <2>3. \A k, n \in DOMAIN Owned(m) :
           k # n => Ring(k, Owned(m)[k]) \cap Ring(n, Owned(m)[n]) = {}
    BY <1>3, <1>13, <2>2 DEF Parted
  <2> QED  BY <1>8, <2>1, <2>3 DEF Parted
<1>17. [l EXCEPT ![h] = Reverse(@)] = m
  BY <1>1, <1>2, <1>3, <1>10
<1> QED  BY <1>6, <1>11, <1>16, <1>17 DEF ListsHeld

-----------------------------------------------------------------------------
(* rlist_select(), turn by turn.                                           *)

\* A node behind the second of two lists.
LEMMA ConcatAppend ==
    ASSUME NEW S, NEW s \in Seq(S), NEW t \in Seq(S), NEW x \in S
    PROVE  s \o Append(t, x) = Append(s \o t, x)
<1>1. /\ Append(t, x) \in Seq(S) /\ Len(Append(t, x)) = Len(t) + 1
      /\ Len(s) \in Nat /\ Len(t) \in Nat
      /\ \A i \in 1 .. Len(t) : Append(t, x)[i] = t[i]
      /\ Append(t, x)[Len(t) + 1] = x
  OBVIOUS
<1>2. PICK u, v, w : u = s \o t /\ v = Append(t, x) /\ w = s \o v
  OBVIOUS
<1>3. /\ u \in Seq(S) /\ Len(u) = Len(s) + Len(t)
      /\ \A i \in 1 .. Len(s) : u[i] = s[i]
      /\ \A i \in 1 .. Len(t) : u[Len(s) + i] = t[i]
  BY <1>2, ConcatNodes
<1>4. /\ w \in Seq(S) /\ Len(w) = Len(s) + Len(v)
      /\ \A i \in 1 .. Len(s) : w[i] = s[i]
      /\ \A i \in 1 .. Len(v) : w[Len(s) + i] = v[i]
  BY <1>1, <1>2, ConcatNodes
<1>5. Len(w) = Len(u) + 1
  BY <1>1, <1>2, <1>3, <1>4
<1>6. ASSUME NEW i \in 1 .. Len(u) PROVE w[i] = u[i]
  <2>1. CASE i <= Len(s)
    <3>1. i \in 1 .. Len(s)
      BY <2>1
    <3> QED  BY <1>3, <1>4, <3>1
  <2>2. CASE i > Len(s)
    <3>1. PICK k : k = i - Len(s)
      OBVIOUS
    <3>2. k \in 1 .. Len(t) /\ i = Len(s) + k /\ k \in 1 .. Len(v)
      BY <1>1, <1>2, <1>3, <2>2, <3>1
    <3> QED  BY <1>1, <1>2, <1>3, <1>4, <3>2
  <2> QED  BY <1>1, <2>1, <2>2
<1>7. w[Len(u) + 1] = x
  <2>1. Len(u) + 1 = Len(s) + (Len(t) + 1) /\ Len(t) + 1 \in 1 .. Len(v)
    BY <1>1, <1>2, <1>3
  <2> QED  BY <1>1, <1>2, <1>4, <2>1
<1>8. w = Append(u, x)
  BY <1>3, <1>4, <1>5, <1>6, <1>7
<1> QED  BY <1>2, <1>8

\* A list without its j-th node.
LEMMA WithoutExists ==
    ASSUME NEW s \in Seq(Items), NEW j \in 1 .. Len(s)
    PROVE  \E u \in Seq(Items) : Without(u, s, j)
<1>1. PICK u : u = [i \in 1 .. Len(s) - 1 |-> IF i < j THEN s[i] ELSE s[i + 1]]
  OBVIOUS
<1>2. /\ Len(s) \in Nat /\ Len(s) - 1 \in Nat
      /\ \A i \in 1 .. Len(s) - 1 : s[i] \in Items /\ s[i + 1] \in Items
  OBVIOUS
<1>3. u \in [1 .. Len(s) - 1 -> Items]
  BY <1>1, <1>2
<1>4. u \in Seq(Items) /\ Len(u) = Len(s) - 1
  BY SMTT(40), <1>2, <1>3
<1> QED  BY <1>1, <1>4, NodesApart DEF Without

\* The states of the loop.
Turning == [r : Heaps, i : RNodes]

\* One turn after the other; each yields a state of the loop.
SelectRun(f, r, lsrc, ldest) ==
    /\ f \in [Nat -> Turning] /\ f[0] = [r |-> r, i |-> lsrc]
    /\ \A n \in Nat : f[n + 1] = SelectTurn(f[n], lsrc, ldest)
    /\ rlist_select(r, lsrc, ldest) = f[Cardinality(Items)].r

\* The loop of rlist_select() goes from state to state as its turns say.
LEMMA SelectSteps ==
    ASSUME NEW r \in Heaps, NEW lsrc \in RNodes, NEW ldest \in RNodes
    PROVE  \E f : SelectRun(f, r, lsrc, ldest)
<1>1. ASSUME NEW z \in Turning PROVE SelectTurn(z, lsrc, ldest) \in Turning
  <2>1. PICK x : x = z.r.next[z.i]
    OBVIOUS
  <2>2. z.r \in Heaps /\ z.i \in RNodes /\ x \in RNodes
    BY <2>1 DEF Turning, Heaps
  <2>3. \A y \in Heaps, a, b \in RNodes : rl_splice(y, a, b) \in Heaps
    BY SpliceFields DEF Spliced
  <2>4. PICK y : y = rlist_remove(z.r, x)
    OBVIOUS
  <2>5. y \in Heaps
    <3>1. z.r.prev[x] \in RNodes
      BY <2>2 DEF Heaps
    <3> QED  BY <2>2, <2>3, <2>4, <3>1 DEF rlist_remove
  <2>6. rlist_push_back(y, ldest, x) \in Heaps
    <3>1. y.prev[ldest] \in RNodes
      BY <2>5 DEF Heaps
    <3> QED  BY <2>2, <2>3, <2>5, <3>1 DEF rlist_push_back
  <2>7. /\ [z EXCEPT !.r = rlist_push_back(rlist_remove(@, x), ldest, x)] \in Turning
        /\ [z EXCEPT !.i = x] \in Turning
    BY <2>2, <2>4, <2>6 DEF Turning
  <2> QED  BY <2>1, <2>7 DEF SelectTurn
<1>2. PICK z0 : z0 = [r |-> r, i |-> lsrc] /\ z0 \in Turning
  <2>1. [r |-> r, i |-> lsrc] \in Turning
    BY DEF Turning
  <2> QED  BY <2>1
<1>3. PICK f : /\ f \in [Nat -> Turning] /\ f[0] = z0
               /\ \A n \in Nat : f[n + 1] = SelectTurn(f[n], lsrc, ldest)
  <2>1. PICK g : g = [n \in Nat |-> [z \in Turning |-> SelectTurn(z, lsrc, ldest)]]
    OBVIOUS
  <2>2. \A n \in Nat : g[n] \in [Turning -> Turning]
    BY <1>1, <2>1
  <2>3. PICK f : Loop(Turning, g, z0, f)
    BY <1>2, <2>2, LoopExists
  <2>4. /\ f \in [Nat -> Turning] /\ f[0] = z0
        /\ \A n \in Nat : f[n + 1] = g[n + 1][f[n]]
    BY <2>3 DEF Loop
  <2>5. ASSUME NEW n \in Nat PROVE f[n + 1] = SelectTurn(f[n], lsrc, ldest)
    <3>1. n + 1 \in Nat /\ f[n] \in Turning /\ f[n + 1] = g[n + 1][f[n]]
      BY <2>4
    <3> QED  BY <2>1, <3>1
  <2> QED  BY <2>4, <2>5
<1>4. f = [k \in Nat |-> IF k = 0 THEN z0 ELSE SelectTurn(f[k - 1], lsrc, ldest)]
  <2>1. ASSUME NEW k \in Nat, k # 0 PROVE f[k] = SelectTurn(f[k - 1], lsrc, ldest)
    <3>1. k - 1 \in Nat /\ (k - 1) + 1 = k
      BY <2>1
    <3> QED  BY <1>3, <3>1
  <2>2. \A k \in Nat : f[k] = IF k = 0 THEN z0 ELSE SelectTurn(f[k - 1], lsrc, ldest)
    BY <1>3, <2>1
  <2> QED  BY <1>3, <2>2
<1>5. PICK w : /\ w = CHOOSE t : t = [k \in Nat |->
                         IF k = 0 THEN z0 ELSE SelectTurn(t[k - 1], lsrc, ldest)]
               /\ rlist_select(r, lsrc, ldest) = w[Cardinality(Items)].r
  BY <1>2 DEF rlist_select
<1>6. w = [k \in Nat |-> IF k = 0 THEN z0 ELSE SelectTurn(w[k - 1], lsrc, ldest)]
  BY <1>4, <1>5
<1>7. w[0] = z0 /\ \A n \in Nat : w[n + 1] = SelectTurn(w[n], lsrc, ldest)
  <2>1. w[0] = z0
    BY <1>6
  <2>2. ASSUME NEW n \in Nat PROVE w[n + 1] = SelectTurn(w[n], lsrc, ldest)
    <3>1. n + 1 \in Nat /\ n + 1 # 0 /\ (n + 1) - 1 = n
      OBVIOUS
    <3>2. w[n + 1] = SelectTurn(w[(n + 1) - 1], lsrc, ldest)
      BY <1>6, <3>1
    <3> QED  BY <3>1, <3>2
  <2> QED  BY <2>1, <2>2
<1>8. \A n \in Nat : w[n] \in Turning
  <2> DEFINE T == {n \in Nat : w[n] \in Turning}
  <2>1. 0 \in T
    BY <1>2, <1>7
  <2>2. \A n \in T : n + 1 \in T
    BY <1>1, <1>7
  <2> HIDE DEF T
  <2>3. T = Nat
    <3>1. T \in SUBSET Nat
      BY DEF T
    <3> QED  BY <2>1, <2>2, <3>1, AllNat
  <2> QED  BY <2>3 DEF T
<1>9. w \in [Nat -> Turning]
  BY <1>6, <1>8
<1> QED  BY <1>2, <1>5, <1>7, <1>9 DEF SelectRun

\* c is p and what is in a behind the m-th node.
Rest(c, p, a, m) ==
    /\ c \in Seq(Items) /\ Len(c) = Len(p) + (Len(a) - m)
    /\ \A i \in 1 .. Len(p) : c[i] = p[i]
    /\ \A i \in 1 .. Len(a) - m : c[Len(p) + i] = a[m + i]

\* The loop has looked at m nodes: those of them that are chosen are in list d,
\* and the cursor is at the last one of the others.
Turned(z, l, d, s, m) ==
    \E c \in Seq(Items) :
        /\ Rest(c, Sifted(l[s], Items \ Chosen)[m], l[s], m)
        /\ ListsHeld(z.r, [l EXCEPT ![d] = l[d] \o Sifted(l[s], Chosen)[m], ![s] = c])
        /\ z.i = Point(s, c, Len(Sifted(l[s], Items \ Chosen)[m]))

\* No turn yet.
LEMMA TurnedNone ==
    ASSUME NEW r, NEW l, ListsHeld(r, l), NEW d \in Heads, NEW s \in Heads, d # s
    PROVE  Turned([r |-> r, i |-> s], l, d, s, 0)
<1>1. PICK a, b \in Seq(Items) : a = l[s] /\ b = l[d]
  BY HeldParts
<1>2. l \in [Heads -> Seq(Items)] /\ Len(a) \in Nat
  <2>1. l \in [Heads -> Seq(Items)]
    BY HeldParts
  <2> QED  BY <2>1
<1>3. Sifted(a, Chosen)[0] = <<>> /\ Sifted(a, Items \ Chosen)[0] = <<>>
  BY SiftedSteps
<1>4. Rest(a, <<>>, a, 0)
  <2>1. Len(a) = Len(<<>>) + (Len(a) - 0) /\ \A i \in 1 .. Len(<<>>) : FALSE
    BY <1>2
  <2>2. \A i \in 1 .. Len(a) - 0 : a[Len(<<>>) + i] = a[0 + i]
    <3>1. \A i \in 1 .. Len(a) - 0 : Len(<<>>) + i = 0 + i
      BY <1>2
    <3> QED  BY <3>1
  <2> QED  BY <2>1, <2>2 DEF Rest
<1>5. b \o <<>> = b
  OBVIOUS
<1>6. [l EXCEPT ![d] = b \o <<>>, ![s] = a] = l
  BY <1>1, <1>2, <1>5
<1>7. Point(s, a, Len(<<>>)) = s
  <2>1. Len(<<>>) = 0 /\ Point(s, l[s], 0) = s
    BY HeldPointers
  <2> QED  BY <1>1, <2>1
<1>8. [r |-> r, i |-> s].r = r /\ [r |-> r, i |-> s].i = s
  OBVIOUS
<1> QED  BY <1>1, <1>3, <1>4, <1>6, <1>7, <1>8 DEF Turned

\* The next node is the one behind the cursor.
LEMMA NextTurn ==
    ASSUME NEW z, NEW l, NEW s \in Heads, ListsHeld(z.r, l),
           NEW k \in 0 .. Len(l[s]), z.i = Point(s, l[s], k)
    PROVE  z.r.next[z.i] = Point(s, l[s], k + 1)
<1>1. PICK r, c : r = z.r /\ c = l[s]
  OBVIOUS
<1>2. Linked(r, s, l[s])
  BY <1>1, HeldParts
<1>3. r.next[Point(s, c, k)] = Point(s, c, k + 1)
  BY <1>1, <1>2, LinkedPoints
<1> QED  BY <1>1, <1>3

\* The loop looks at one more node.
LEMMA TurnedOn ==
    ASSUME NEW l \in [Heads -> Seq(Items)], NEW d \in Heads, NEW s \in Heads, d # s,
           NEW m \in Nat, m < Len(l[s]), NEW z \in Turning, Turned(z, l, d, s, m)
    PROVE  Turned(SelectTurn(z, s, d), l, d, s, m + 1)
<1>1. PICK a, b \in Seq(Items) : a = l[s] /\ b = l[d]
  OBVIOUS
<1>2. PICK o, p, o1, p1 : /\ o = Sifted(a, Chosen)[m] /\ p = Sifted(a, Items \ Chosen)[m]
                          /\ o1 = Sifted(a, Chosen)[m + 1] /\ p1 = Sifted(a, Items \ Chosen)[m + 1]
  OBVIOUS
<1>3. PICK c \in Seq(Items) : /\ Rest(c, p, a, m) /\ z.i = Point(s, c, Len(p))
                              /\ ListsHeld(z.r, [l EXCEPT ![d] = b \o o, ![s] = c])
  BY <1>1, <1>2 DEF Turned
<1>4. PICK x : x = a[m + 1]
  OBVIOUS
<1>5. /\ o \in Seq(Items) /\ p \in Seq(Items) /\ x \in Items /\ x \in RNodes /\ x # s
      /\ o1 = IF x \in Chosen THEN Append(o, x) ELSE o
      /\ p1 = IF x \in Items \ Chosen THEN Append(p, x) ELSE p
      /\ Len(p) \in Nat /\ Len(a) \in Nat /\ m < Len(a)
  <2>1. m \in 0 .. Len(a) /\ m < Len(a) /\ Len(a) \in Nat
    BY <1>1
  <2>2. /\ o \in Seq(Items) /\ o1 = IF a[m + 1] \in Chosen THEN Append(o, a[m + 1]) ELSE o
    BY <1>2, <2>1, SiftedSteps
  <2>3. /\ p \in Seq(Items) /\ p1 = IF a[m + 1] \in Items \ Chosen THEN Append(p, a[m + 1]) ELSE p
    BY <1>2, <2>1, SiftedSteps
  <2>4. x \in Items
    BY <1>4, <2>1
  <2> QED  BY <1>4, <2>1, <2>2, <2>3, <2>4, NodesApart
<1>6. PICK k : k = [l EXCEPT ![d] = b \o o, ![s] = c]
  OBVIOUS
<1>7. ListsHeld(z.r, k) /\ k[s] = c /\ k[d] = b \o o /\ k \in [Heads -> Seq(Items)]
  <2>1. b \o o \in Seq(Items)
    BY <1>5
  <2> QED  BY <1>3, <1>6, <2>1
<1>8. /\ Len(p) + 1 \in 1 .. Len(c) /\ Len(p) \in 0 .. Len(c) /\ c[Len(p) + 1] = x
      /\ Len(c) = Len(p) + (Len(a) - m)
      /\ \A i \in 1 .. Len(p) : c[i] = p[i]
      /\ \A i \in 1 .. Len(a) - m : c[Len(p) + i] = a[m + i]
  <2>1. /\ Len(c) = Len(p) + (Len(a) - m)
        /\ \A i \in 1 .. Len(p) : c[i] = p[i]
        /\ \A i \in 1 .. Len(a) - m : c[Len(p) + i] = a[m + i]
    BY <1>3 DEF Rest
  <2>2. 1 \in 1 .. Len(a) - m /\ Len(p) + 1 \in 1 .. Len(c) /\ Len(p) \in 0 .. Len(c)
    BY <1>5, <2>1
  <2> QED  BY <1>4, <2>1, <2>2
<1>9. z.r.next[z.i] = x
  <2>1. z.r.next[z.i] = Point(s, k[s], Len(p) + 1)
    <3>1. Len(p) \in 0 .. Len(k[s]) /\ z.i = Point(s, k[s], Len(p))
      BY <1>3, <1>7, <1>8
    <3> QED  BY ZenonT(60), <1>7, <3>1, NextTurn
  <2>2. Len(p) + 1 \in DOMAIN c
    BY <1>8
  <2> QED  BY <1>7, <1>8, <2>1, <2>2 DEF Point
<1>10. CASE x \in Chosen
  <2>1. PICK u \in Seq(Items) : Without(u, c, Len(p) + 1)
    BY <1>8, WithoutExists
  <2>2. PICK y : y = rlist_remove(z.r, x)
    OBVIOUS
  <2>3. PICK n : n = [k EXCEPT ![s] = u]
    OBVIOUS
  <2>4. ListsHeld(y, n) /\ x \in Free(n)
    <3>1. /\ Len(p) + 1 \in 1 .. Len(k[s]) /\ x = k[s][Len(p) + 1]
          /\ Without(u, k[s], Len(p) + 1)
      BY <1>7, <1>8, <2>1
    <3> QED  BY <1>7, <2>2, <2>3, <3>1, HeldLeave
  <2>5. ListsHeld(rlist_push_back(y, d, x), [n EXCEPT ![d] = Append(@, x)])
    BY <2>4, HeldPush
  <2>6. [n EXCEPT ![d] = Append(@, x)] = [l EXCEPT ![d] = b \o o1, ![s] = u]
    <3>1. Append(b \o o, x) = b \o o1
      <4>1. b \o Append(o, x) = Append(b \o o, x) /\ o1 = Append(o, x)
        BY SMTT(40), <1>5, <1>10, ConcatAppend
      <4> QED  BY <4>1
    <3> QED  BY <1>6, <1>7, <2>3, <3>1
  <2>7. PICK z1 : z1 = SelectTurn(z, s, d)
    OBVIOUS
  <2>8. z1.r = rlist_push_back(y, d, x) /\ z1.i = z.i
    <3>1. z1 = [z EXCEPT !.r = rlist_push_back(rlist_remove(@, x), d, x)]
      BY <1>5, <1>9, <1>10, <2>7 DEF SelectTurn
    <3> QED  BY <2>2, <3>1 DEF Turning
  <2>9. p1 = p
    BY <1>5, <1>10
  <2>10. /\ Len(u) = Len(c) - 1
         /\ \A i \in 1 .. Len(c) - 1 : u[i] = IF i < Len(p) + 1 THEN c[i] ELSE c[i + 1]
    BY <2>1 DEF Without
  <2>11. \A i \in 1 .. Len(p) : u[i] = c[i]
    <3>1. \A i \in 1 .. Len(p) : i \in 1 .. Len(c) - 1 /\ i < Len(p) + 1
      BY SMTT(40), <1>5, <1>8
    <3> QED  BY <2>10, <3>1
  <2>12. Rest(u, p1, a, m + 1)
    <3>1. Len(u) = Len(p) + (Len(a) - (m + 1))
      BY <1>5, <1>8, <2>10
    <3>2. ASSUME NEW i \in 1 .. Len(a) - (m + 1) PROVE u[Len(p) + i] = a[(m + 1) + i]
      <4>1. PICK j : j = Len(p) + i
        OBVIOUS
      <4>2. /\ j \in 1 .. Len(c) - 1 /\ ~ (j < Len(p) + 1)
            /\ j + 1 = Len(p) + (i + 1) /\ i + 1 \in 1 .. Len(a) - m /\ (m + 1) + i = m + (i + 1)
        <5>1. PICK e, g, v : e = Len(p) /\ g = Len(a) /\ v = Len(c)
          OBVIOUS
        <5>2. /\ e \in Nat /\ g \in Nat /\ m \in Nat /\ m < g /\ v = e + (g - m)
              /\ i \in 1 .. g - (m + 1) /\ j = e + i
          BY <1>5, <1>8, <4>1, <5>1
        <5>3. /\ j \in 1 .. v - 1 /\ ~ (j < e + 1)
              /\ j + 1 = e + (i + 1) /\ i + 1 \in 1 .. g - m /\ (m + 1) + i = m + (i + 1)
          BY ONLY <5>2
        <5> QED  BY <5>1, <5>3
      <4>3. u[j] = c[j + 1]
        BY <2>10, <4>2
      <4>4. c[Len(p) + (i + 1)] = a[m + (i + 1)]
        BY <1>8, <4>2
      <4> QED  BY <4>1, <4>2, <4>3, <4>4
    <3> QED  BY <1>8, <2>9, <2>11, <3>1, <3>2 DEF Rest
  <2>13. z1.i = Point(s, u, Len(p1))
    <3>1. Len(p) \in DOMAIN u <=> Len(p) \in DOMAIN c
      BY SMTT(40), <1>5, <1>8, <2>10
    <3>2. Len(p) \in DOMAIN c => Len(p) \in 1 .. Len(p)
      BY <1>5
    <3> QED  BY <1>3, <2>8, <2>9, <2>11, <3>1, <3>2 DEF Point
  <2> QED  BY <1>1, <1>2, <2>5, <2>6, <2>7, <2>8, <2>12, <2>13 DEF Turned
<1>11. CASE x \notin Chosen
  <2>1. PICK z1 : z1 = SelectTurn(z, s, d)
    OBVIOUS
  <2>2. z1.r = z.r /\ z1.i = x
    <3>1. z1 = [z EXCEPT !.i = x]
      BY <1>5, <1>9, <1>11, <2>1 DEF SelectTurn
    <3> QED  BY <3>1 DEF Turning
  <2>3. o1 = o /\ p1 = Append(p, x)
    BY <1>5, <1>11
  <2>4. /\ Len(p1) = Len(p) + 1 /\ p1[Len(p) + 1] = x
        /\ \A i \in 1 .. Len(p) : p1[i] = p[i]
    BY <1>5, <2>3
  <2>5. Rest(c, p1, a, m + 1)
    <3>1. Len(c) = Len(p1) + (Len(a) - (m + 1))
      BY <1>5, <1>8, <2>4
    <3>2. ASSUME NEW i \in 1 .. Len(p1) PROVE c[i] = p1[i]
      <4>1. i \in 1 .. Len(p) \/ i = Len(p) + 1
        BY <1>5, <2>4
      <4> QED  BY <1>8, <2>4, <4>1
    <3>3. ASSUME NEW i \in 1 .. Len(a) - (m + 1) PROVE c[Len(p1) + i] = a[(m + 1) + i]
      <4>1. /\ i + 1 \in 1 .. Len(a) - m /\ Len(p1) + i = Len(p) + (i + 1)
            /\ (m + 1) + i = m + (i + 1)
        BY <1>5, <2>4
      <4> QED  BY <1>8, <4>1
    <3> QED  BY <3>1, <3>2, <3>3 DEF Rest
  <2>6. z1.i = Point(s, c, Len(p1))
    <3>1. Len(p1) \in DOMAIN c
      BY <1>8, <2>4
    <3> QED  BY <1>8, <2>2, <2>4, <3>1 DEF Point
  <2> QED  BY <1>1, <1>2, <1>3, <2>1, <2>2, <2>3, <2>5, <2>6 DEF Turned
<1> QED  BY <1>10, <1>11

\* What rlist_select() does to the lists.
Selected(l, d, s) ==
    [l EXCEPT ![d] = @ \o Only(l[s], Chosen), ![s] = Only(@, Items \ Chosen)]

\* When rlist_select() has looked at every node, the lists are what they should
\* be, and its loop has come to its end.
LEMMA TurnedAll ==
    ASSUME NEW l \in [Heads -> Seq(Items)], NEW d \in Heads, NEW s \in Heads, d # s,
           NEW z, Turned(z, l, d, s, Len(l[s]))
    PROVE  SelectTurn(z, s, d) = z /\ ListsHeld(z.r, Selected(l, d, s))
<1>1. PICK a, b \in Seq(Items) : a = l[s] /\ b = l[d]
  OBVIOUS
<1>2. PICK o, p : o = Only(a, Chosen) /\ p = Only(a, Items \ Chosen)
  OBVIOUS
<1>3. o \in Seq(Items) /\ p \in Seq(Items) /\ Len(a) \in Nat /\ Len(p) \in Nat
  <2>1. Len(a) \in 0 .. Len(a)
    OBVIOUS
  <2>2. Sifted(a, Chosen)[Len(a)] \in Seq(Items) /\ Sifted(a, Items \ Chosen)[Len(a)] \in Seq(Items)
    BY <2>1, SiftedSteps
  <2> QED  BY <1>2, <2>2 DEF Only
<1>4. PICK c \in Seq(Items) : /\ Rest(c, p, a, Len(a)) /\ z.i = Point(s, c, Len(p))
                              /\ ListsHeld(z.r, [l EXCEPT ![d] = b \o o, ![s] = c])
  BY <1>1, <1>2 DEF Turned, Only
<1>5. c = p
  <2>1. Len(c) = Len(p) /\ \A i \in 1 .. Len(p) : c[i] = p[i]
    BY <1>3, <1>4 DEF Rest
  <2>2. c \in Seq(Items) /\ p \in Seq(Items)
    BY <1>3
  <2> QED  BY ONLY <2>1, <2>2
<1>6. PICK k : k = [l EXCEPT ![d] = b \o o, ![s] = c]
  OBVIOUS
<1>7. ListsHeld(z.r, k) /\ k[s] = p
  BY <1>4, <1>5, <1>6
<1>8. z.r.next[z.i] = Point(s, k[s], Len(p) + 1)
  <2>1. Len(p) \in 0 .. Len(k[s]) /\ z.i = Point(s, k[s], Len(p))
    BY <1>3, <1>4, <1>5, <1>7
  <2>2. PICK i : i = Len(p)
    OBVIOUS
  <2>3. z.r.next[z.i] = Point(s, k[s], i + 1)
    BY ZenonT(60), <1>7, <2>1, <2>2, NextTurn
  <2> QED  BY <2>2, <2>3
<1>9. Point(s, k[s], Len(p) + 1) = s
  <2>1. Len(p) + 1 \notin DOMAIN p
    BY <1>3
  <2> QED  BY <1>7, <2>1 DEF Point
<1>10. SelectTurn(z, s, d) = z
  BY <1>8, <1>9 DEF SelectTurn
<1>11. k = Selected(l, d, s)
  BY <1>1, <1>2, <1>5, <1>6 DEF Selected
<1> QED  BY <1>7, <1>10, <1>11

\* rlist_select()
LEMMA HeldSelect ==
    ASSUME NEW r, NEW l, ListsHeld(r, l), NEW d \in Heads, NEW s \in Heads, d # s
    PROVE  ListsHeld(rlist_select(r, s, d), [l EXCEPT ![d] = @ \o Only(l[s], Chosen),
                                                      ![s] = Only(@, Items \ Chosen)])
<1>1. /\ l \in [Heads -> Seq(Items)] /\ r \in Heaps /\ d \in RNodes /\ s \in RNodes
      /\ Len(l[s]) \in Nat
  <2>1. l \in [Heads -> Seq(Items)] /\ r \in Heaps
    BY HeldParts
  <2> QED  BY <2>1, HeldPointers
<1>2. PICK f : /\ f \in [Nat -> Turning] /\ f[0] = [r |-> r, i |-> s]
               /\ \A n \in Nat : f[n + 1] = SelectTurn(f[n], s, d)
               /\ rlist_select(r, s, d) = f[Cardinality(Items)].r
  <2>1. PICK f : SelectRun(f, r, s, d)
    BY <1>1, SelectSteps
  <2> QED  BY <2>1 DEF SelectRun
<1> DEFINE T == {n \in Nat : Turned(f[n], l, d, s, IF n < Len(l[s]) THEN n ELSE Len(l[s]))}
<1>3. 0 \in T
  <2>1. Turned(f[0], l, d, s, 0)
    BY <1>2, TurnedNone
  <2>2. 0 = IF 0 < Len(l[s]) THEN 0 ELSE Len(l[s])
    BY <1>1
  <2> QED  BY <2>1, <2>2
<1>4. ASSUME NEW n \in T PROVE n + 1 \in T
  <2>1. n \in Nat /\ n + 1 \in Nat /\ f[n] \in Turning /\ f[n + 1] = SelectTurn(f[n], s, d)
    BY <1>2
  <2>2. CASE n < Len(l[s])
    <3>1. Turned(f[n], l, d, s, n)
      BY <2>2
    <3>2. Turned(f[n + 1], l, d, s, n + 1)
      BY <1>1, <2>1, <2>2, <3>1, TurnedOn
    <3>3. n + 1 = IF n + 1 < Len(l[s]) THEN n + 1 ELSE Len(l[s])
      BY <1>1, <2>1, <2>2
    <3> QED  BY <2>1, <3>2, <3>3
  <2>3. CASE ~ (n < Len(l[s]))
    <3>1. Turned(f[n], l, d, s, Len(l[s]))
      BY <2>3
    <3>2. f[n + 1] = f[n]
      <4>1. PICK z : z = f[n]
        OBVIOUS
      <4>2. SelectTurn(z, s, d) = z
        BY <1>1, <3>1, <4>1, TurnedAll
      <4> QED  BY <2>1, <4>1, <4>2
    <3>3. ~ (n + 1 < Len(l[s]))
      BY <1>1, <2>1, <2>3
    <3> QED  BY <2>1, <3>1, <3>2, <3>3
  <2> QED  BY <2>2, <2>3
<1> HIDE DEF T
<1>5. T = Nat
  <2>1. T \in SUBSET Nat
    BY DEF T
  <2> QED  BY <1>3, <1>4, <2>1, AllNat
<1>6. Cardinality(Items) \in Nat /\ ~ (Cardinality(Items) < Len(l[s]))
  <2>1. l[s] \in Seq(Items) /\ Distinct(l[s])
    BY HeldParts DEF IsRing
  <2> QED  BY <2>1, NodesFinite, LengthBound
<1>7. Turned(f[Cardinality(Items)], l, d, s, Len(l[s]))
  BY <1>5, <1>6 DEF T
<1>8. PICK z : z = f[Cardinality(Items)]
  OBVIOUS
<1>9. ListsHeld(z.r, Selected(l, d, s))
  BY <1>1, <1>7, <1>8, TurnedAll
<1> QED  BY <1>2, <1>8, <1>9 DEF Selected

-----------------------------------------------------------------------------
(* The functions that walk along a list.                                   *)

\* A node is in no list, said of the ranges of the lists and of their members.
LEMMA NotInList ==
    ASSUME lists \in [Heads -> Seq(Items)], NEW x \in Items
    PROVE  ~ InList(x) <=> x \in Free(lists)
<1>1. ASSUME NEW h \in Heads PROVE Range(lists[h]) = Members(lists[h])
  <2>1. DOMAIN lists[h] = 1 .. Len(lists[h])
    OBVIOUS
  <2> QED  BY <2>1 DEF Range, Members
<1> QED  BY <1>1 DEF InList, Free

\* A number that there is has a least one.
LEMMA LeastNat ==
    ASSUME NEW T \in SUBSET Nat, T # {}
    PROVE  \E k \in T : \A j \in T : k <= j
<1> SUFFICES ASSUME \A k \in T : \E j \in T : ~ (k <= j)
             PROVE  FALSE
  OBVIOUS
<1> DEFINE N == {n \in Nat : \A j \in T : n <= j}
<1>1. 0 \in N
  OBVIOUS
<1>2. ASSUME NEW n \in N PROVE n + 1 \in N
  <2>1. n \in Nat /\ n \notin T
    OBVIOUS
  <2>2. ASSUME NEW j \in T PROVE n + 1 <= j
    <3>1. n <= j /\ n # j /\ j \in Nat
      BY <2>1
    <3> QED  BY <2>1, <3>1
  <2> QED  BY <2>1, <2>2
<1>3. N = Nat
  <2>1. N \in SUBSET Nat
    OBVIOUS
  <2> HIDE DEF N
  <2> QED  BY <1>1, <1>2, <2>1, AllNat
<1>4. PICK k \in T : TRUE
  OBVIOUS
<1>5. k + 1 \in N /\ k \in Nat
  BY <1>3
<1>6. k + 1 <= k
  BY <1>5
<1> QED  BY <1>5, <1>6

\* The first of the nodes that are in T.
LEMMA SiftedFirst ==
    ASSUME NEW S, NEW s \in Seq(S), NEW T
    PROVE  /\ (\A i \in 1 .. Len(s) : s[i] \notin T) => Only(s, T) = <<>>
           /\ \A k \in 1 .. Len(s) :
                 s[k] \in T /\ (\A i \in 1 .. Len(s) : s[i] \in T => k <= i)
                    => Only(s, T) \in Seq(S) /\ Only(s, T) # <<>> /\ Only(s, T)[1] = s[k]
<1>1. PICK w : w = Sifted(s, T)
  OBVIOUS
<1>2. /\ w[0] = <<>> /\ Len(s) \in Nat
      /\ \A n \in 0 .. Len(s) : w[n] \in Seq(S)
      /\ \A n \in Nat : n < Len(s) =>
            w[n + 1] = IF s[n + 1] \in T THEN Append(w[n], s[n + 1]) ELSE w[n]
      /\ \A n \in 1 .. Len(s) : s[n] \in S
  BY <1>1, SiftedSteps
<1>3. Only(s, T) = w[Len(s)]
  BY <1>1 DEF Only
<1>4. ASSUME NEW k \in Nat, \A i \in 1 .. Len(s) : s[i] \in T => k <= i
      PROVE  \A n \in Nat : n < k /\ n <= Len(s) => w[n] = <<>>
  <2> DEFINE N == {n \in Nat : n < k /\ n <= Len(s) => w[n] = <<>>}
  <2>1. 0 \in N
    BY <1>2
  <2>2. ASSUME NEW n \in N PROVE n + 1 \in N
    <3> SUFFICES ASSUME n + 1 < k, n + 1 <= Len(s) PROVE w[n + 1] = <<>>
      OBVIOUS
    <3>1. n \in Nat /\ n < Len(s) /\ n + 1 \in 1 .. Len(s) /\ ~ (k <= n + 1) /\ w[n] = <<>>
      BY <1>2
    <3>2. s[n + 1] \notin T
      BY <1>4, <3>1
    <3> QED  BY <1>2, <3>1, <3>2
  <2> HIDE DEF N
  <2>3. N = Nat
    <3>1. N \in SUBSET Nat
      BY DEF N
    <3> QED  BY <2>1, <2>2, <3>1, AllNat
  <2> QED  BY <2>3 DEF N
<1>5. ASSUME \A i \in 1 .. Len(s) : s[i] \notin T PROVE Only(s, T) = <<>>
  <2>1. Len(s) + 1 \in Nat /\ Len(s) < Len(s) + 1 /\ Len(s) <= Len(s)
    BY <1>2
  <2> QED  BY <1>2, <1>3, <1>4, <1>5, <2>1
<1>6. ASSUME NEW k \in 1 .. Len(s), s[k] \in T, \A i \in 1 .. Len(s) : s[i] \in T => k <= i
      PROVE  Only(s, T) \in Seq(S) /\ Only(s, T) # <<>> /\ Only(s, T)[1] = s[k]
  <2>1. PICK m \in Nat : k = m + 1
    <3>1. k - 1 \in Nat /\ k = (k - 1) + 1
      BY <1>2
    <3> QED  BY <3>1
  <2>2. m < Len(s) /\ m < k /\ m <= Len(s) /\ k \in Nat /\ s[k] \in S
    BY <1>2, <2>1
  <2>3. w[k] = <<s[k]>>
    <3>1. w[m] = <<>>
      BY <1>4, <1>6, <2>2
    <3>2. w[m + 1] = Append(w[m], s[m + 1])
      BY <1>2, <1>6, <2>1, <2>2
    <3> QED  BY <2>1, <2>2, <3>1, <3>2
  <2> DEFINE N == {n \in Nat : k <= n /\ n <= Len(s) => Len(w[n]) >= 1 /\ w[n][1] = s[k]}
  <2>4. 0 \in N
    BY <2>1
  <2>5. ASSUME NEW n \in N PROVE n + 1 \in N
    <3> SUFFICES ASSUME k <= n + 1, n + 1 <= Len(s)
                 PROVE  Len(w[n + 1]) >= 1 /\ w[n + 1][1] = s[k]
      OBVIOUS
    <3>1. CASE n + 1 = k
      BY <2>3, <3>1
    <3>2. CASE n + 1 # k
      <4>1. n \in Nat /\ k <= n /\ n <= Len(s) /\ n < Len(s) /\ n + 1 \in 1 .. Len(s)
        BY <1>2, <2>2, <3>2
      <4>2. Len(w[n]) >= 1 /\ w[n][1] = s[k] /\ w[n] \in Seq(S) /\ s[n + 1] \in S
        BY <1>2, <4>1
      <4>3. w[n + 1] = w[n] \/ w[n + 1] = Append(w[n], s[n + 1])
        BY <1>2, <4>1
      <4> QED  BY <4>2, <4>3
    <3> QED  BY <3>1, <3>2
  <2> HIDE DEF N
  <2>6. N = Nat
    <3>1. N \in SUBSET Nat
      BY DEF N
    <3> QED  BY <2>4, <2>5, <3>1, AllNat
  <2>7. Len(w[Len(s)]) >= 1 /\ w[Len(s)][1] = s[k] /\ w[Len(s)] \in Seq(S)
    <3>1. Len(s) \in N /\ k <= Len(s) /\ Len(s) <= Len(s) /\ Len(s) \in 0 .. Len(s)
      BY <1>2, <2>6
    <3> QED  BY <1>2, <3>1 DEF N
  <2> QED  BY <1>3, <2>7
<1> QED  BY <1>5, <1>6

\* rlist_len() and the nodes that a loop along a list comes to.
LEMMA LenIsLength ==
    ASSUME NEW r, NEW l, ListsHeld(r, l), NEW h \in Heads
    PROVE  rlist_len(r, h) = Len(l[h]) /\ \A k \in 1 .. Len(l[h]) : Nth(r, h, k) = l[h][k]
<1>1. PICK s : s = l[h] /\ s \in Seq(Items) /\ IsRing(h, s) /\ Linked(r, h, s)
  BY HeldParts
<1>2. r \in Heaps /\ Len(s) \in Nat
  <2>1. r \in Heaps
    BY HeldParts
  <2> QED  BY <1>1, <2>1
<1>3. \A k \in 0 .. Len(s) + 1 : Nth(r, h, k) = Point(h, s, k)
  BY <1>1, <1>2, WalkRound DEF Nth
<1>4. /\ \A k \in 1 .. Len(s) : Point(h, s, k) = s[k] /\ s[k] # h
      /\ Point(h, s, Len(s) + 1) = h
  BY <1>1, Points
<1>5. \A k \in 1 .. Len(s) : Nth(r, h, k) = s[k] /\ s[k] # h
  <2>1. \A k \in 1 .. Len(s) : k \in 0 .. Len(s) + 1
    BY <1>2
  <2> QED  BY <1>3, <1>4, <2>1
<1>6. Nth(r, h, Len(s) + 1) = h
  <2>1. Len(s) + 1 \in 0 .. Len(s) + 1
    BY <1>2
  <2> QED  BY <1>3, <1>4, <2>1
<1> DEFINE IsLen(n) == Nth(r, h, n + 1) = h /\ \A k \in 1 .. n : Nth(r, h, k) # h
<1>7. Len(s) \in 0 .. Cardinality(RNodes) /\ Cardinality(RNodes) \in Nat
  <2>1. s \in Seq(RNodes) /\ Distinct(s)
    BY <1>1 DEF IsRing
  <2> QED  BY <2>1, NodesFinite, LengthBound
<1>8. IsLen(Len(s))
  BY <1>5, <1>6
<1>9. ASSUME NEW n \in 0 .. Cardinality(RNodes), IsLen(n) PROVE n = Len(s)
  <2>1. CASE n < Len(s)
    <3>1. n + 1 \in 1 .. Len(s)
      BY <1>2, <1>7, <2>1
    <3> QED  BY <1>5, <1>9, <3>1
  <2>2. CASE n > Len(s)
    <3>1. Len(s) + 1 \in 1 .. n
      BY <1>2, <1>7, <2>2
    <3> QED  BY <1>6, <1>9, <3>1
  <2> QED  BY <1>2, <1>7, <2>1, <2>2
<1>10. rlist_len(r, h) = CHOOSE n \in 0 .. Cardinality(RNodes) : IsLen(n)
  BY DEF rlist_len
<1> HIDE DEF IsLen
<1>11. rlist_len(r, h) = Len(s)
  BY <1>7, <1>8, <1>9, <1>10
<1> QED  BY <1>1, <1>5, <1>11

\* The nodes rlist_find() looks for.
KeyedBy(key) == {x \in Items : Key(x) = key}

\* rlist_find() finds the first node of the list that has the key.
LEMMA FindIsFirst ==
    ASSUME NEW r, NEW l, ListsHeld(r, l), NEW h \in Heads, NEW key
    PROVE  rlist_find(r, h, key, h) = Head(Only(l[h], KeyedBy(key)) \o <<h>>)
<1>0. PICK T : T = KeyedBy(key) /\ T = {x \in Items : Key(x) = key}
  BY DEF KeyedBy
<1>1. PICK s : s = l[h] /\ s \in Seq(Items)
  BY HeldParts
<1>2. Len(s) \in Nat /\ \A k \in 1 .. Len(s) : s[k] \in Items
  BY <1>1
<1>3. rlist_len(r, h) = Len(s) /\ \A k \in 1 .. Len(s) : Nth(r, h, k) = s[k]
  BY <1>1, LenIsLength
<1> DEFINE found == {k \in 1 .. rlist_len(r, h) : Key(Nth(r, h, k)) = key}
<1>4. found = {k \in 1 .. Len(s) : s[k] \in T}
  BY <1>0, <1>2, <1>3
<1>5. rlist_find(r, h, key, h) =
         IF found = {} THEN h
         ELSE Nth(r, h, CHOOSE k \in found : \A j \in found : k <= j)
  BY DEF rlist_find
<1> HIDE DEF found
<1>6. found \in SUBSET Nat
  BY <1>2, <1>4
<1>7. CASE found = {}
  <2>1. Only(s, T) = <<>>
    BY <1>1, <1>4, <1>7, SiftedFirst
  <2>2. Head(<<>> \o <<h>>) = h
    OBVIOUS
  <2> QED  BY <1>0, <1>1, <1>5, <1>7, <2>1, <2>2
<1>8. CASE found # {}
  <2>1. PICK k : k = CHOOSE i \in found : \A j \in found : i <= j
    OBVIOUS
  <2>2. k \in found /\ \A j \in found : k <= j
    <3>1. \E i \in found : \A j \in found : i <= j
      BY <1>6, <1>8, LeastNat
    <3> QED  BY <2>1, <3>1
  <2>3. k \in 1 .. Len(s) /\ s[k] \in T /\ \A i \in 1 .. Len(s) : s[i] \in T => k <= i
    BY <1>4, <2>2
  <2>4. PICK w : w = Only(s, T)
    OBVIOUS
  <2>5. w \in Seq(Items) /\ w # <<>> /\ w[1] = s[k]
    BY <1>1, <2>3, <2>4, SiftedFirst
  <2>6. Head(w \o <<h>>) = w[1]
    <3>1. w \in Seq(RNodes) /\ <<h>> \in Seq(RNodes) /\ 1 \in 1 .. Len(w)
      <4>1. h \in RNodes /\ w \in Seq(RNodes)
        BY <2>5, NodesApart
      <4> QED  BY <2>5, <4>1
    <3>2. PICK v : v = w \o <<h>>
      OBVIOUS
    <3>3. v \in Seq(RNodes) /\ Len(v) = Len(w) + Len(<<h>>) /\ v[1] = w[1]
      BY <3>1, <3>2, ConcatNodes
    <3>4. Head(v) = v[1]
      BY <3>1, <3>3
    <3> QED  BY <3>2, <3>3, <3>4
  <2>7. rlist_find(r, h, key, h) = s[k]
    BY <1>3, <1>5, <1>8, <2>1, <2>3
  <2> QED  BY <1>0, <1>1, <2>4, <2>5, <2>6, <2>7
<1> QED  BY <1>7, <1>8

\* rlist_equal()
LEMMA EqualIsSame ==
    ASSUME NEW r, NEW l, ListsHeld(r, l), NEW g \in Heads, NEW h \in Heads
    PROVE  rlist_equal(r, g, h) <=>
              /\ Len(l[g]) = Len(l[h])
              /\ \A i \in DOMAIN l[g] : Key(l[g][i]) = Key(l[h][i])
<1>1. PICK s, t : s = l[g] /\ t = l[h] /\ s \in Seq(Items) /\ t \in Seq(Items)
  BY HeldParts
<1>2. rlist_len(r, g) = Len(s) /\ \A k \in 1 .. Len(s) : Nth(r, g, k) = s[k]
  BY <1>1, LenIsLength
<1>3. rlist_len(r, h) = Len(t) /\ \A k \in 1 .. Len(t) : Nth(r, h, k) = t[k]
  BY <1>1, LenIsLength
<1>4. DOMAIN s = 1 .. Len(s)
  BY <1>1
<1> QED  BY <1>1, <1>2, <1>3, <1>4 DEF rlist_equal

-----------------------------------------------------------------------------
(* The lists, whatever calls are made.                                     *)

\* The calls that the lists are sound after are those that keep them held.
LEMMA HeldIsSound ==
    ASSUME ListsHeld(heap, lists)
    PROVE  RingsSound
<1>1. ASSUME NEW h \in Heads PROVE Linked(heap, h, lists[h])
  BY HeldParts
<1>2. ASSUME NEW h \in Heads PROVE is_rlist_empty(heap, h) <=> lists[h] = <<>>
  <2>1. PICK s : s = lists[h] /\ s \in Seq(Items)
    BY HeldParts
  <2>2. heap.next[h] = IF s = <<>> THEN h ELSE s[1]
    BY <2>1, HeldPointers
  <2>3. s # <<>> => s[1] \in Items
    BY <2>1
  <2>4. h \notin Items
    BY NodesApart
  <2> QED  BY <2>1, <2>2, <2>3, <2>4 DEF is_rlist_empty
<1>3. ASSUME NEW h \in Heads PROVE rlist_len(heap, h) = Len(lists[h])
  BY LenIsLength
<1>4. ASSUME NEW h \in Heads, NEW key
      PROVE  rlist_find(heap, h, key, h) =
                Head(Only(lists[h], {x \in Items : Key(x) = key}) \o <<h>>)
  <2>1. PICK T : T = {x \in Items : Key(x) = key} /\ T = KeyedBy(key)
    BY DEF KeyedBy
  <2>2. rlist_find(heap, h, key, h) = Head(Only(lists[h], T) \o <<h>>)
    BY ZenonT(60), <2>1, FindIsFirst
  <2> QED  BY <2>1, <2>2
<1>5. ASSUME NEW h \in Heads, NEW g \in Heads
      PROVE  rlist_equal(heap, g, h) <=>
                /\ Len(lists[g]) = Len(lists[h])
                /\ \A i \in DOMAIN lists[g] : Key(lists[g][i]) = Key(lists[h][i])
  BY EqualIsSame
<1>6. ASSUME NEW x \in Items, ~ InList(x) PROVE Linked(heap, x, <<>>)
  <2>1. lists \in [Heads -> Seq(Items)]
    BY HeldParts
  <2>2. x \in Free(lists)
    BY <1>6, <2>1, NotInList
  <2> QED  BY <2>2, HeldParts
<1> QED  BY <1>1, <1>2, <1>3, <1>4, <1>5, <1>6 DEF RingsSound

\* No call was made yet.
LEMMA HeldFirst ==
    ASSUME RingsInit
    PROVE  ListsHeld(heap, lists)
<1>1. /\ heap \in Heaps /\ lists \in [Heads -> Seq(Items)]
      /\ \A x \in RNodes : heap.next[x] = x /\ heap.prev[x] = x
      /\ \A h \in Heads : lists[h] = <<>>
  <2>1. <<>> \in Seq(Items)
    OBVIOUS
  <2> QED  BY <2>1 DEF RingsInit, Heaps
<1>2. Free(lists) = Items
  <2>1. Members(<<>>) = {}
    BY DEF Members
  <2> QED  BY <1>1, <2>1 DEF Free
<1>3. DOMAIN Owned(lists) = RNodes /\ \A x \in RNodes : Owned(lists)[x] = <<>>
  BY <1>1, <1>2 DEF Owned, RNodes
<1>4. ASSUME NEW x \in RNodes PROVE IsRing(x, <<>>) /\ Linked(heap, x, <<>>) /\ Ring(x, <<>>) = {x}
  <2>1. /\ \A i : Point(x, <<>>, i) = x
        /\ Members(<<>>) = {} /\ Distinct(<<>>) /\ <<>> \in Seq(RNodes)
    BY DEF Point, Members, Distinct
  <2>2. IsRing(x, <<>>) /\ Ring(x, <<>>) = {x}
    BY <2>1 DEF IsRing, Ring
  <2>3. Linked(heap, x, <<>>)
    BY <1>1, <2>1, LinkedPoints
  <2> QED  BY <2>2, <2>3
<1>5. Parted(heap, Owned(lists))
  BY <1>1, <1>3, <1>4 DEF Parted
<1> QED  BY <1>1, <1>5 DEF ListsHeld

\* One call more.
LEMMA HeldNext ==
    ASSUME ListsHeld(heap, lists), RingsNext
    PROVE  ListsHeld(heap', lists')
<1>1. lists \in [Heads -> Seq(Items)]
  BY HeldParts
<1>2. ASSUME NEW h \in Heads, NEW x \in Items, Push(h, x) PROVE ListsHeld(heap', lists')
  <2>1. x \in Free(lists)
    BY <1>1, <1>2, NotInList DEF Push
  <2>2. /\ ListsHeld(rlist_push_front(heap, h, x), [lists EXCEPT ![h] = <<x>> \o @])
        /\ ListsHeld(rlist_push_back(heap, h, x), [lists EXCEPT ![h] = Append(@, x)])
    BY <2>1, HeldPush
  <2> QED  BY <1>2, <2>2 DEF Push
<1>3. ASSUME NEW h \in Heads, NEW x \in Items, Insert(h, x) PROVE ListsHeld(heap', lists')
  <2>1. x \in Free(lists)
    BY <1>1, <1>3, NotInList DEF Insert
  <2>2. PICK i \in 1 .. Len(lists[h]) :
           /\ heap' = rl_splice(heap, heap.prev[lists[h][i]], x)
           /\ lists' = [lists EXCEPT ![h] = InsertAt(@, i, x)]
    BY <1>3 DEF Insert
  <2> QED  BY <2>1, <2>2, HeldInsertAt
<1>4. ASSUME NEW h \in Heads, PopFront(h) PROVE ListsHeld(heap', lists')
  BY <1>4, HeldPop DEF PopFront
<1>5. ASSUME NEW h \in Heads, TurnRound(h) PROVE ListsHeld(heap', lists')
  BY <1>5, HeldReverse DEF TurnRound
<1>6. ASSUME NEW d \in Heads, NEW s \in Heads, Join(d, s) PROVE ListsHeld(heap', lists')
  <2>1. d # s
    BY <1>6 DEF Join
  <2>2. CASE /\ heap' = rlist_append(heap, d, s)
             /\ lists' = [lists EXCEPT ![d] = @ \o lists[s], ![s] = <<>>]
    BY <2>1, <2>2, HeldAppend
  <2>3. CASE /\ heap' = rlist_prepend(heap, d, s)
             /\ lists' = [lists EXCEPT ![d] = lists[s] \o @, ![s] = <<>>]
    BY <2>1, <2>3, HeldAppend
  <2>4. CASE /\ heap' = rlist_select(heap, s, d)
             /\ lists' = [lists EXCEPT ![d] = @ \o Only(lists[s], Chosen),
                                       ![s] = Only(@, Items \ Chosen)]
    BY <2>1, <2>4, HeldSelect
  <2> QED  BY <1>6, <2>2, <2>3, <2>4 DEF Join
<1>7. ASSUME NEW x \in Items, Unlink(x) PROVE ListsHeld(heap', lists')
  BY <1>7, HeldUnlink DEF Unlink
<1> QED  BY <1>2, <1>3, <1>4, <1>5, <1>6, <1>7 DEF RingsNext

\* Whatever calls are made on the lists of util.h, the pointers of every node are
\* those of the sequences that the lists are taken for, in both directions, and
\* the functions that walk along a list find what is in it.
THEOREM RingsAreSound == RingsInit /\ [][RingsNext]_ringVars => []RingsSound
<1>1. RingsInit => ListsHeld(heap, lists)
  BY HeldFirst
<1>2. ListsHeld(heap, lists) /\ [RingsNext]_ringVars => ListsHeld(heap, lists)'
  <2> SUFFICES ASSUME ListsHeld(heap, lists), [RingsNext]_ringVars
               PROVE  ListsHeld(heap', lists')
    BY DEF ListsHeld, Parted, Owned, Free
  <2>1. CASE RingsNext
    BY <2>1, HeldNext
  <2>2. CASE UNCHANGED ringVars
    BY <2>2 DEF ringVars
  <2> QED  BY <2>1, <2>2
<1>3. ListsHeld(heap, lists) => RingsSound
  BY HeldIsSound
<1> QED  BY <1>1, <1>2, <1>3, PTL

=============================================================================
