------------------------------ MODULE KernelCC ------------------------------
(***************************************************************************)
(* kernel_cc.c: the condition variables (cv_wait(), cv_signal()) and the   *)
(* kernel semaphore built on them (kernel_lock(), kernel_unlock(),         *)
(* kernel_wait(), kernel_signal(), kernel_broadcast(), kernel_sleep()).    *)
(*                                                                         *)
(* A step of a thread takes at most one mutex, so that threads interleave  *)
(* wherever one can make another wait.  Where a thread is, is pc:          *)
(*   "out", "in", "exited"   in user mode, in the kernel, ended;           *)
(*   "mutex"     in Mutex_Lock(&kernel_mutex), in front of the test;       *)
(*   "test"      at while(kernel_sem <= 0);                                *)
(*   "enqueue"   in cv_wait(), wants waitset_lock;                         *)
(*   "release"   in cv_wait(), in the ring, about to unlock kernel_mutex;  *)
(*   "doze"      in cv_wait(), about to call sleep_releasing();            *)
(*   "asleep"    in sleep_releasing(), or just behind it once woken;       *)
(*   "post"      wants kernel_mutex, to give the semaphore back;           *)
(*   "signal"    in Cond_Signal() or Cond_Broadcast(), wants waitset_lock; *)
(*   "pop"       at while(cv->waitset);                                    *)
(*   "wake"      about to call wakeup() for the waiter it has removed;     *)
(*   "mark"      woke it up, about to set its signalled.                   *)
(*                                                                         *)
(* The scheduler appears as the state of a thread: sleep_releasing() stops *)
(* it and wakeup(), or its timeout, makes it run again (module Scheduler). *)
(***************************************************************************)
EXTENDS Integers, Sequences, FiniteSets, Lists

CONSTANTS Threads,
          Nobody,       \* no thread: the holder of a free mutex
          CVs,          \* condition variables of the kernel's objects
          kernel_sem_cv \* the semaphore's condition variable

ASSUME CCAssumption == /\ Nobody \notin Threads
                       /\ kernel_sem_cv \notin CVs
                       /\ IsFiniteSet(Threads)

VARIABLES
    kernel_mutex,  \* its holder
    kernel_sem,
    waitset,       \* the ring of each condition variable
    waitset_lock,  \* its holder
    pc,
    op,            \* the kernel call the thread is in
    cv,            \* the condition variable it signals or waits for
    waiter,        \* the thread whose waiter cv_signal() has removed
    state,         \* TCB.state: "STOPPED", or else "RUNNING"
    signalled, removed,   \* of the thread's own waiter, on its stack
    cause,         \* history: what ended the thread's last kernel_wait()
    ret            \* result of the thread's last kernel_wait()

lockVars == <<kernel_mutex, kernel_sem, waitset, waitset_lock>>
waitVars == <<state, signalled, removed, cause, ret>>
vars == <<lockVars, pc, op, cv, waiter, waitVars>>

AllCVs == CVs \cup {kernel_sem_cv}

Init ==
    /\ kernel_mutex = Nobody
    /\ kernel_sem = 1
    /\ waitset = [c \in AllCVs |-> <<>>]
    /\ waitset_lock = [c \in AllCVs |-> Nobody]
    /\ pc = [t \in Threads |-> "out"]
    /\ op = [t \in Threads |-> "none"]
    /\ cv = [t \in Threads |-> kernel_sem_cv]
    /\ waiter = [t \in Threads |-> Nobody]
    /\ state = [t \in Threads |-> "RUNNING"]
    /\ signalled = [t \in Threads |-> FALSE]
    /\ removed = [t \in Threads |-> FALSE]
    /\ cause = [t \in Threads |-> "none"]
    /\ ret = [t \in Threads |-> FALSE]

Goto(t, label) == pc' = [pc EXCEPT ![t] = label]

-----------------------------------------------------------------------------
(* The calls of a thread.                                                  *)

kernel_lock(t) ==
    /\ pc[t] = "out"
    /\ Goto(t, "mutex")
    /\ UNCHANGED <<lockVars, op, cv, waiter, waitVars>>

Call(t, call, c, label) ==
    /\ pc[t] = "in"
    /\ op' = [op EXCEPT ![t] = call]
    /\ cv' = [cv EXCEPT ![t] = c]
    /\ Goto(t, label)
    /\ UNCHANGED <<lockVars, waiter, waitVars>>

\* These give the semaphore back first; kernel_sleep() is that of an exit.
kernel_unlock(t) == Call(t, "unlock", kernel_sem_cv, "post")
kernel_sleep(t)  == Call(t, "exit", kernel_sem_cv, "post")
kernel_wait_wchan(t, c) == \/ Call(t, "wait", c, "post")
                           \/ Call(t, "timedwait", c, "post")

kernel_signal(t, c)    == Call(t, "signal", c, "signal")
kernel_broadcast(t, c) == Call(t, "broadcast", c, "signal")

-----------------------------------------------------------------------------
(* The semaphore.                                                          *)

\* Mutex_Lock(&kernel_mutex) of kernel_lock(), or at the end of cv_wait(),
\* whose result kernel_wait() keeps.
LockMutex(t) ==
    /\ pc[t] = "mutex"
    /\ kernel_mutex = Nobody
    /\ kernel_mutex' = t
    /\ ret' = [ret EXCEPT ![t] = IF cv[t] \in CVs THEN signalled[t] ELSE @]
    /\ Goto(t, "test")
    /\ UNCHANGED <<kernel_sem, waitset, waitset_lock, op, cv, waiter,
                   state, signalled, removed, cause>>

\* Faulty variant: the test is off by one.
TestNegative(t) ==
    /\ pc[t] = "test"
    /\ cv' = [cv EXCEPT ![t] = kernel_sem_cv]
    /\ \/ /\ kernel_sem < 0
          /\ Goto(t, "enqueue")
          /\ UNCHANGED <<kernel_sem, kernel_mutex, op>>
       \/ /\ kernel_sem >= 0
          /\ op' = [op EXCEPT ![t] = "none"]
          /\ kernel_sem' = kernel_sem - 1
          /\ kernel_mutex' = Nobody
          /\ Goto(t, "in")
    /\ UNCHANGED <<waitset, waitset_lock, waiter, waitVars>>

\* while(kernel_sem <= 0) Cond_Wait(...); kernel_sem--; and the unlock.
SemTest(t) ==
    /\ pc[t] = "test"
    /\ cv' = [cv EXCEPT ![t] = kernel_sem_cv]
    /\ \/ /\ kernel_sem <= 0
          /\ Goto(t, "enqueue")
          /\ UNCHANGED <<kernel_sem, kernel_mutex, op>>
       \/ /\ kernel_sem > 0
          /\ op' = [op EXCEPT ![t] = "none"]
          /\ kernel_sem' = kernel_sem - 1
          /\ kernel_mutex' = Nobody
          /\ Goto(t, "in")
    /\ UNCHANGED <<waitset, waitset_lock, waiter, waitVars>>

\* Faulty variant: nobody is told that the semaphore is free.
PostSilently(t) ==
    /\ pc[t] = "post"
    /\ kernel_mutex = Nobody
    /\ kernel_sem' = kernel_sem + 1
    /\ \/ /\ op[t] \in {"wait", "timedwait"}
          /\ kernel_mutex' = t
          /\ Goto(t, "enqueue")
       \/ /\ op[t] \in {"unlock", "exit"}
          /\ UNCHANGED kernel_mutex
          /\ Goto(t, IF op[t] = "unlock" THEN "out" ELSE "exited")
    /\ UNCHANGED <<waitset, waitset_lock, op, cv, waiter, waitVars>>

\* Mutex_Lock(&kernel_mutex); kernel_sem++; Cond_Signal(...)
Post(t) ==
    /\ pc[t] = "post"
    /\ kernel_mutex = Nobody
    /\ kernel_mutex' = t
    /\ kernel_sem' = kernel_sem + 1
    /\ Goto(t, "signal")
    /\ UNCHANGED <<waitset, waitset_lock, op, cv, waiter, waitVars>>

-----------------------------------------------------------------------------
(* cv_wait()                                                               *)

Enqueue(t) ==
    /\ pc[t] = "enqueue"
    /\ waitset_lock[cv[t]] = Nobody
    /\ waitset_lock' = [waitset_lock EXCEPT ![cv[t]] = t]
    /\ waitset' = [waitset EXCEPT ![cv[t]] = Append(@, t)]
    /\ signalled' = [signalled EXCEPT ![t] = FALSE]
    /\ removed' = [removed EXCEPT ![t] = FALSE]
    /\ Goto(t, "release")
    /\ UNCHANGED <<kernel_mutex, kernel_sem, op, cv, waiter, state, cause, ret>>

\* Mutex_Unlock(mutex)
Release(t) ==
    /\ pc[t] = "release"
    /\ kernel_mutex' = Nobody
    /\ Goto(t, "doze")
    /\ UNCHANGED <<kernel_sem, waitset, waitset_lock, op, cv, waiter, waitVars>>

\* The thread stops and releases waitset_lock, in one step of the scheduler.
sleep_releasing(t) ==
    /\ pc[t] = "doze"
    /\ state' = [state EXCEPT ![t] = "STOPPED"]
    /\ waitset_lock' = [waitset_lock EXCEPT ![cv[t]] = Nobody]
    /\ Goto(t, "asleep")
    /\ UNCHANGED <<kernel_mutex, kernel_sem, waitset, op, cv, waiter,
                   signalled, removed, cause, ret>>

\* The scheduler finds the timeout of a sleeping thread expired.
Timeout(t) ==
    /\ state[t] = "STOPPED"
    /\ op[t] = "timedwait" /\ cv[t] \in CVs
    /\ state' = [state EXCEPT ![t] = "RUNNING"]
    /\ cause' = [cause EXCEPT ![t] = "timer"]
    /\ UNCHANGED <<lockVars, pc, op, cv, waiter, signalled, removed, ret>>

\* The position of a thread's waiter in its ring.
Position(t) == CHOOSE i \in 1 .. Len(waitset[cv[t]]) : waitset[cv[t]][i] = t

\* Faulty variant: removed is looked at without waitset_lock.
TidyUnlocked(t) ==
    /\ pc[t] = "asleep"
    /\ state[t] = "RUNNING"
    /\ waitset' = IF removed[t] THEN waitset
                  ELSE [waitset EXCEPT ![cv[t]] = RemoveNth(@, Position(t))]
    /\ Goto(t, "mutex")
    /\ UNCHANGED <<kernel_mutex, kernel_sem, waitset_lock, op, cv, waiter, waitVars>>

\* Faulty variant: the waiter of a thread that timed out stays in the ring.
TidyNothing(t) ==
    /\ pc[t] = "asleep"
    /\ state[t] = "RUNNING"
    /\ waitset_lock[cv[t]] = Nobody
    /\ Goto(t, "mutex")
    /\ UNCHANGED <<lockVars, op, cv, waiter, waitVars>>

\* Awake: under waitset_lock, a waiter nobody removed removes itself.
Tidy(t) ==
    /\ pc[t] = "asleep"
    /\ state[t] = "RUNNING"
    /\ waitset_lock[cv[t]] = Nobody
    /\ waitset' = IF removed[t] THEN waitset
                  ELSE [waitset EXCEPT ![cv[t]] = RemoveNth(@, Position(t))]
    /\ Goto(t, "mutex")
    /\ UNCHANGED <<kernel_mutex, kernel_sem, waitset_lock, op, cv, waiter, waitVars>>

-----------------------------------------------------------------------------
(* Cond_Signal() and Cond_Broadcast()                                      *)

\* The condition variable that is signalled.
Signalled(t) == IF op[t] \in {"signal", "broadcast"} THEN cv[t] ELSE kernel_sem_cv

SignalLock(t) ==
    /\ pc[t] = "signal"
    /\ waitset_lock[Signalled(t)] = Nobody
    /\ waitset_lock' = [waitset_lock EXCEPT ![Signalled(t)] = t]
    /\ Goto(t, "pop")
    /\ UNCHANGED <<kernel_mutex, kernel_sem, waitset, op, cv, waiter, waitVars>>

\* remove_from_ring() of the first waiter.
Pop(t) ==
    /\ pc[t] = "pop"
    /\ waitset[Signalled(t)] # <<>>
    /\ LET w == Head(waitset[Signalled(t)])
       IN  /\ waiter' = [waiter EXCEPT ![t] = w]
           /\ removed' = [removed EXCEPT ![w] = TRUE]
    /\ waitset' = [waitset EXCEPT ![Signalled(t)] = Tail(@)]
    /\ Goto(t, "wake")
    /\ UNCHANGED <<kernel_mutex, kernel_sem, waitset_lock, op, cv,
                   state, signalled, cause, ret>>

\* Mutex_Unlock(&waitset_lock), and on to what the call does next: a
\* kernel_signal() is done, kernel_unlock() and kernel_sleep() also unlock
\* kernel_mutex, kernel_wait() goes on to cv_wait().
SignalDone(t) ==
    /\ waitset_lock' = [waitset_lock EXCEPT ![Signalled(t)] = Nobody]
    /\ waiter' = [waiter EXCEPT ![t] = Nobody]
    /\ \/ /\ op[t] \in {"signal", "broadcast"}
          /\ Goto(t, "in")
          /\ op' = [op EXCEPT ![t] = "none"]
          /\ cv' = [cv EXCEPT ![t] = kernel_sem_cv]
          /\ UNCHANGED kernel_mutex
       \/ /\ op[t] \in {"unlock", "exit"}
          /\ Goto(t, IF op[t] = "unlock" THEN "out" ELSE "exited")
          /\ op' = [op EXCEPT ![t] = "none"]
          /\ kernel_mutex' = Nobody
          /\ UNCHANGED cv
       \/ /\ op[t] \in {"wait", "timedwait"}
          /\ Goto(t, "enqueue")
          /\ UNCHANGED <<kernel_mutex, op, cv>>

\* Faulty variant: an if in the place of the while, so that a waiter whose
\* timeout came first uses the signal up.
WakeOnce(t) ==
    /\ pc[t] = "wake"
    /\ \/ /\ state[waiter[t]] = "STOPPED"
          /\ state' = [state EXCEPT ![waiter[t]] = "RUNNING"]
          /\ cause' = IF cv[waiter[t]] \in CVs
                      THEN [cause EXCEPT ![waiter[t]] = "signal"] ELSE cause
          /\ Goto(t, "mark")
          /\ UNCHANGED <<kernel_mutex, waitset_lock, waiter, op, cv>>
       \/ /\ state[waiter[t]] # "STOPPED"
          /\ SignalDone(t)
          /\ UNCHANGED <<state, cause>>
    /\ UNCHANGED <<kernel_sem, waitset, signalled, removed, ret>>

\* wakeup(waiter->thread), which fails for a thread the timer woke up.
Wake(t) ==
    /\ pc[t] = "wake"
    /\ \/ /\ state[waiter[t]] = "STOPPED"
          /\ state' = [state EXCEPT ![waiter[t]] = "RUNNING"]
          /\ cause' = IF cv[waiter[t]] \in CVs
                      THEN [cause EXCEPT ![waiter[t]] = "signal"] ELSE cause
          /\ Goto(t, "mark")
       \/ /\ state[waiter[t]] # "STOPPED"
          /\ Goto(t, "pop")
          /\ UNCHANGED <<state, cause>>
    /\ UNCHANGED <<lockVars, waiter, op, cv, signalled, removed, ret>>

\* waiter->signalled = 1; Cond_Signal() is done, Cond_Broadcast() goes on.
Mark(t) ==
    /\ pc[t] = "mark"
    /\ signalled' = [signalled EXCEPT ![waiter[t]] = TRUE]
    /\ \/ /\ op[t] = "broadcast"
          /\ Goto(t, "pop")
          /\ UNCHANGED <<kernel_mutex, waitset_lock, waiter, op, cv>>
       \/ /\ op[t] # "broadcast"
          /\ SignalDone(t)
    /\ UNCHANGED <<kernel_sem, waitset, state, removed, cause, ret>>

\* The ring is empty.
NoWaiter(t) ==
    /\ pc[t] = "pop"
    /\ waitset[Signalled(t)] = <<>>
    /\ SignalDone(t)
    /\ UNCHANGED <<kernel_sem, waitset, waitVars>>

-----------------------------------------------------------------------------

\* A thread that is in a call goes on with it.
Step(t) ==
    \/ LockMutex(t) \/ SemTest(t) \/ Post(t)
    \/ Enqueue(t) \/ Release(t) \/ sleep_releasing(t) \/ Tidy(t)
    \/ SignalLock(t) \/ Pop(t) \/ Wake(t) \/ Mark(t) \/ NoWaiter(t)

\* A thread in the kernel makes its next call.
Act(t) ==
    \/ kernel_unlock(t) \/ kernel_sleep(t)
    \/ \E c \in CVs : \/ kernel_wait_wchan(t, c)
                      \/ kernel_signal(t, c) \/ kernel_broadcast(t, c)

Next == \E t \in Threads : kernel_lock(t) \/ Act(t) \/ Step(t) \/ Timeout(t)

\* Everybody has ended, or waits for a signal that nobody is there to give.
Quiet == /\ \A t \in Threads : \/ pc[t] = "exited"
                               \/ pc[t] = "asleep" /\ cv[t] \in CVs
         /\ UNCHANGED vars

Spec == Init /\ [][Next \/ Quiet]_vars

\* Threads run (module Scheduler), leave the kernel in the end, and a
\* timeout passes.
Fairness == \A t \in Threads :
    /\ WF_vars(Step(t)) /\ WF_vars(Timeout(t))
    /\ SF_vars(kernel_unlock(t) \/ kernel_sleep(t))

FairSpec == Spec /\ Fairness

-----------------------------------------------------------------------------
(* Properties.                                                             *)

(* The waiter records and the kernel semaphore are well typed;              *)
(* kernel_sem, a binary semaphore, never leaves 0..1.                       *)
TypeOK ==
    /\ kernel_mutex \in Threads \cup {Nobody}
    /\ kernel_sem \in 0 .. 1
    /\ waitset \in [AllCVs -> Seq(Threads)]
    /\ waitset_lock \in [AllCVs -> Threads \cup {Nobody}]
    /\ pc \in [Threads -> {"out", "in", "exited", "mutex", "test", "enqueue",
                           "release", "doze", "asleep", "post", "signal",
                           "pop", "wake", "mark"}]
    /\ op \in [Threads -> {"none", "unlock", "exit", "wait", "timedwait",
                           "signal", "broadcast"}]
    /\ cv \in [Threads -> AllCVs]
    /\ waiter \in [Threads -> Threads \cup {Nobody}]
    /\ state \in [Threads -> {"RUNNING", "STOPPED"}]
    /\ signalled \in [Threads -> BOOLEAN]
    /\ removed \in [Threads -> BOOLEAN]
    /\ cause \in [Threads -> {"none", "signal", "timer"}]
    /\ ret \in [Threads -> BOOLEAN]

\* The thread holds the kernel semaphore.
Inside(t) == \/ pc[t] \in {"in", "post"}
             \/ pc[t] \in {"signal", "pop", "wake", "mark"}
                   /\ op[t] \in {"signal", "broadcast"}

\* The semaphore excludes: it is 0 exactly while one thread is in the
\* kernel, and there is never a second one, whatever threads barge in between
\* a signal and the return of the thread it was meant for.
KernelExclusion ==
    /\ \A t, u \in Threads : Inside(t) /\ Inside(u) => t = u
    /\ kernel_sem = 0 <=> \E t \in Threads : Inside(t)

\* A waiter lives on the stack of cv_wait(), so that nobody may hold on to it
\* when cv_wait() returns: a thread in a ring, or removed from one by a
\* cv_signal() still at work, is inside cv_wait() on that condition variable.
WaitersAlive ==
    /\ \A c \in AllCVs : \A t \in Members(waitset[c]) :
          cv[t] = c /\ pc[t] \in {"release", "doze", "asleep"}
    /\ \A t \in Threads : pc[t] \in {"wake", "mark"} =>
          LET w == waiter[t]
          IN  w \in Threads /\ pc[w] = "asleep" /\ cv[w] = Signalled(t)

\* assert(! waiter.signalled) of cv_wait().
AssertionHolds ==
    \A t \in Threads :
       /\ pc[t] = "asleep" /\ state[t] = "RUNNING"
       /\ waitset_lock[cv[t]] = Nobody
       /\ ~ removed[t]
       => ~ signalled[t] /\ t \in Members(waitset[cv[t]])

\* kernel_wait() returns 1 exactly when a signal, not the timer, ended it.
ResultTellsCause ==
    \A t \in Threads : pc[t] \in {"in", "out", "test"} =>
       (ret[t] <=> cause[t] = "signal")

\* The semaphore loses no wakeup: while it is free and threads sleep for it,
\* somebody is on the way to signal them or to take it.
SemaphoreNotLost ==
    kernel_sem > 0 /\ (\E t \in Threads : state[t] = "STOPPED" /\ cv[t] = kernel_sem_cv)
    => \E t \in Threads :
          \/ pc[t] \in {"signal", "pop", "wake", "mark"}
                /\ Signalled(t) = kernel_sem_cv
          \/ pc[t] \in {"mutex", "test"}
          \/ pc[t] = "asleep" /\ state[t] = "RUNNING"

\* What the locks guarantee together: the rings and the semaphore stay sound
\* through any interleaving of waits, signals and timeouts.
KernelInvariant ==
    TypeOK /\ KernelExclusion /\ WaitersAlive /\ AssertionHolds /\ SemaphoreNotLost

\* A signal is not used up by a waiter whose timeout came first: it ends with
\* a thread woken up, or with no thread asleep in the ring.
SignalReachesAWaiter ==
    [][\A t \in Threads :
         pc[t] \in {"pop", "wake"} /\ pc'[t] \notin {"pop", "wake", "mark"} =>
            \A w \in Members(waitset[Signalled(t)]) : state[w] # "STOPPED"]_vars

\* The refinement mapping to Monitor: kernel_wait() leaves the monitor where
\* it gives the semaphore back, and is awake once wakeup() was called.
owner == IF \E t \in Threads : Inside(t)
         THEN CHOOSE t \in Threads : Inside(t) ELSE Nobody

Waiting(t) == /\ op[t] \in {"wait", "timedwait"} /\ cv[t] \in CVs
              /\ \/ pc[t] \in {"signal", "pop", "wake", "mark",
                               "enqueue", "release", "doze"}
                 \/ pc[t] = "asleep" /\ state[t] = "STOPPED"

Place(t) ==
    IF Inside(t) THEN "inside"
    ELSE IF Waiting(t) THEN (IF op[t] = "wait" THEN "waiting" ELSE "timedwaiting")
    ELSE IF op[t] \in {"wait", "timedwait"} THEN "awake"
    ELSE "outside"

M == INSTANCE Monitor WITH place <- [t \in Threads |-> Place(t)]

\* The kernel semaphore and its condition variables implement a monitor.
ImplementsMonitor == M!MonitorSpec

\* When threads want the kernel, one of them gets it.
KernelProgress ==
    (\E t \in Threads : \/ pc[t] \in {"mutex", "test"}
                        \/ pc[t] = "asleep" /\ cv[t] = kernel_sem_cv)
    ~> \E t \in Threads : pc[t] = "in"

=============================================================================
