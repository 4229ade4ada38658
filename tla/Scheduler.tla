----------------------------- MODULE Scheduler -----------------------------
(***************************************************************************)
(* The multi-core thread scheduler of kernel_sched.c, together with the    *)
(* part of bios.c it relies on to put idle cores to sleep (the halt        *)
(* vector).                                                                *)
(*                                                                         *)
(* A core's progress through yield()/gain() is its cpc:                    *)
(*   "run"    it executes current[c] outside the scheduler;                *)
(*   "sleep"  sleep_releasing() has marked the thread and released         *)
(*            sched_spinlock, yield() has not taken it again yet;          *)
(*   "expire" inside yield() with sched_spinlock held, waking up expired   *)
(*            timeouts one by one;                                         *)
(*   "swap"   the next thread is chosen, sched_spinlock released, the      *)
(*            contexts are not swapped yet;                                *)
(*   "gain"   on the next thread's stack, gain() not executed yet;         *)
(*   "off"    the idle thread has returned from run_scheduler().           *)
(* Every other critical section of sched_spinlock is one action, guarded   *)
(* by SpinlockFree.                                                        *)
(***************************************************************************)
EXTENDS Integers, Sequences, FiniteSets, Lists

CONSTANTS
    Threads,          \* the TCBs spawn_thread() can hand out
    InitThread,       \* the main thread of the init process, made at boot
    NCORES,           \* ncores of bios.c
    PhysicalCores,    \* physical_cores of bios.c: only these are restarted
    PRIORITY_QUEUES,  \* number of queues of the multilevel feedback queue
    MAX_QUANTUMS,     \* calls of yield() between two calls of aging()
    SleepCauses,      \* causes that callers of sleep_releasing() pass
    Timeouts,         \* timeouts that callers of sleep_releasing() pass
    TimerMod,         \* 2^64 in the code: TimerDuration is an unsigned long
    MaxClock          \* bound on the modelled time

Cores == 0 .. NCORES - 1
Priorities == 0 .. PRIORITY_QUEUES - 1

\* CCB.idle_thread: the core number stands for the TCB of its idle thread.
IdleThread(c) == c
TCBs == Threads \cup Cores

NO_TIMEOUT == TimerMod - 1

States == {"NONE", "INIT", "READY", "RUNNING", "STOPPED", "EXITED"}
Phases == {"CTX_CLEAN", "CTX_DIRTY"}
Causes == {"QUANTUM", "IO", "MUTEX", "PIPE", "POLL", "IDLE", "USER"}
CorePCs == {"run", "sleep", "expire", "swap", "gain", "off"}

\* Where each idle thread is: in idle_thread() ("start", "check", "yield",
\* "done") or in cpu_core_halt() ("set", "halt", "wake").
IdlePCs == {"start", "check", "set", "halt", "wake", "yield", "done"}

ASSUME ConstantsAssumption ==
    /\ NCORES \in Nat \ {0}
    /\ PhysicalCores \in Nat
    /\ PRIORITY_QUEUES \in Nat \ {0}
    /\ MAX_QUANTUMS \in Nat \ {0}
    /\ InitThread \in Threads
    /\ Threads \cap Cores = {}
    /\ IsFiniteSet(Threads)
    /\ SleepCauses \subseteq Causes

\* No sum of the clock and a timeout is NO_TIMEOUT itself: the code would
\* put such a thread on TIMEOUT_LIST and take it for one that is not there.
ASSUME TimerAssumption ==
    /\ TimerMod \in Nat \ {0}
    /\ MaxClock \in Nat
    /\ Timeouts \subseteq 0 .. NO_TIMEOUT
    /\ \A now \in 0 .. MaxClock, d \in Timeouts :
          d # NO_TIMEOUT => (now + d) % TimerMod < NO_TIMEOUT

VARIABLES
    state, phase,      \* TCB.state ("NONE": not allocated), TCB.phase
    priority,          \* TCB.priority
    wakeup_time,       \* TCB.wakeup_time
    curr_cause,        \* TCB.curr_cause
    saved,             \* is TCB.context the thread's point of suspension?
    SCHED,             \* the scheduler queues, by priority
    TIMEOUT_LIST,      \* sleeping threads with a timeout
    cpc,               \* where each core is in yield()/gain(), see above
    current, previous, \* CCB.current_thread, CCB.previous_thread
    cause,             \* cause a core passes from sleep_releasing() to yield()
    yield_counter,     \* yields since the last aging()
    active_threads,    \* TCBs allocated and not released
    halt_vector,       \* bios.c: the set of cores whose halt bit is set
    idle_pc,           \* where each idle thread is
    clock              \* bios_clock()

tcbVars == <<state, phase, priority, wakeup_time, curr_cause, saved>>
queueVars == <<SCHED, TIMEOUT_LIST>>
coreVars == <<cpc, current, previous, cause>>
haltVars == <<halt_vector, idle_pc>>
vars == <<tcbVars, queueVars, coreVars, yield_counter, active_threads,
          haltVars, clock>>

-----------------------------------------------------------------------------
(* Initial state: boot_tinyos_kernel() has executed Exec() for init, which *)
(* spawned and woke up InitThread; every core enters run_scheduler().      *)

Init ==
    /\ state = [t \in TCBs |->
                  IF t \in Cores THEN "RUNNING"
                  ELSE IF t = InitThread THEN "READY" ELSE "NONE"]
    /\ phase = [t \in TCBs |->
                  IF t \in Cores THEN "CTX_DIRTY" ELSE "CTX_CLEAN"]
    /\ priority = [t \in TCBs |->
                     IF t = InitThread THEN PRIORITY_QUEUES \div 2 ELSE 0]
    /\ wakeup_time = [t \in TCBs |-> NO_TIMEOUT]
    /\ curr_cause = [t \in TCBs |-> "IDLE"]
    /\ saved = [t \in TCBs |-> t \notin Cores]
    /\ SCHED = [p \in Priorities |->
                  IF p = PRIORITY_QUEUES \div 2 THEN <<InitThread>> ELSE <<>>]
    /\ TIMEOUT_LIST = <<>>
    /\ cpc = [c \in Cores |-> "run"]
    /\ current = [c \in Cores |-> IdleThread(c)]
    /\ previous = [c \in Cores |-> IdleThread(c)]
    /\ cause = [c \in Cores |-> "IDLE"]
    /\ yield_counter = 0
    /\ active_threads = 1
    /\ halt_vector = {}
    /\ idle_pc = [c \in Cores |-> "start"]
    /\ clock = 0

-----------------------------------------------------------------------------
(* Helpers, all called with sched_spinlock held.                           *)

SpinlockFree == \A c \in Cores : cpc[c] # "expire"

Runs(c, t) == cpc[c] = "run" /\ current[c] = t

\* Faulty variant: the new entry goes to the end of the list.
RegisterAtEnd(t, timeout) ==
    IF timeout = NO_TIMEOUT
    THEN UNCHANGED <<wakeup_time, TIMEOUT_LIST>>
    ELSE /\ wakeup_time' =
               [wakeup_time EXCEPT ![t] = (clock + timeout) % TimerMod]
         /\ TIMEOUT_LIST' = Append(TIMEOUT_LIST, t)

\* sched_register_timeout(): insertion in order of wakeup time, behind the
\* entries with the same time.
sched_register_timeout(t, timeout) ==
    IF timeout = NO_TIMEOUT
    THEN UNCHANGED <<wakeup_time, TIMEOUT_LIST>>
    ELSE LET w == (clock + timeout) % TimerMod
             Later(n) == w < wakeup_time[TIMEOUT_LIST[n]]
         IN  /\ wakeup_time' = [wakeup_time EXCEPT ![t] = w]
             /\ \E n \in 1 .. Len(TIMEOUT_LIST) + 1 :
                   /\ n <= Len(TIMEOUT_LIST) => Later(n)
                   /\ \A m \in 1 .. n - 1 : ~ Later(m)
                   /\ TIMEOUT_LIST' = InsertBefore(TIMEOUT_LIST, n, t)

\* cpu_core_restart_one(): only the lowest halted core is looked at.  A core
\* that is in sigwaitinfo() returns from it; for any other the inter-core
\* interrupt does nothing but its bit is cleared.
cpu_core_restart_one ==
    \/ /\ \E c \in halt_vector :
             /\ \A d \in halt_vector : c <= d
             /\ c < PhysicalCores
             /\ halt_vector' = halt_vector \ {c}
             /\ idle_pc' = [idle_pc EXCEPT ![c] =
                              IF @ = "halt" THEN "wake" ELSE @]
    \/ /\ \A c \in halt_vector :
             (\A d \in halt_vector : c <= d) => c >= PhysicalCores
       /\ UNCHANGED haltVars

sched_queue_add(t) ==
    /\ SCHED' = [SCHED EXCEPT ![priority[t]] = Append(@, t)]
    /\ cpu_core_restart_one

\* sched_make_ready(): one rlnode serves both lists, so the thread has to
\* leave TIMEOUT_LIST before it may enter SCHED.
LeaveTimeoutList(t) ==
    \/ /\ wakeup_time[t] # NO_TIMEOUT
       /\ \E n \in 1 .. Len(TIMEOUT_LIST) :
             /\ TIMEOUT_LIST[n] = t
             /\ TIMEOUT_LIST' = RemoveNth(TIMEOUT_LIST, n)
       /\ wakeup_time' = [wakeup_time EXCEPT ![t] = NO_TIMEOUT]
    \/ /\ wakeup_time[t] = NO_TIMEOUT
       /\ UNCHANGED <<wakeup_time, TIMEOUT_LIST>>

\* Faulty variant: the phase of the thread is not looked at.
MakeReadyAnyPhase(t) ==
    /\ LeaveTimeoutList(t)
    /\ state' = [state EXCEPT ![t] = "READY"]
    /\ sched_queue_add(t)

sched_make_ready(t) ==
    /\ LeaveTimeoutList(t)
    /\ state' = [state EXCEPT ![t] = "READY"]
    /\ \/ phase[t] = "CTX_CLEAN" /\ sched_queue_add(t)
       \/ phase[t] # "CTX_CLEAN" /\ UNCHANGED <<SCHED, haltVars>>

\* Faulty variants of aging(): it never moves a thread; it moves threads and
\* forgets to raise their priority.
NeverAged(p) == FALSE
AgedPriorityForgotten(t) == priority[t]

\* aging(): working downwards from the second highest queue, the head of
\* each queue moves to the end of the next higher one.
Aged(p) == \* does the head of queue p move?
    p < PRIORITY_QUEUES - 1 /\ SCHED[p] # <<>>

AgedQueue(p) ==
    LET rest == IF Aged(p) THEN Tail(SCHED[p]) ELSE SCHED[p]
    IN  IF p > 0 /\ Aged(p - 1)
        THEN Append(rest, Head(SCHED[p - 1])) ELSE rest

AgedPriority(t) ==
    IF \E p \in Priorities : Aged(p) /\ Head(SCHED[p]) = t
    THEN priority[t] + 1 ELSE priority[t]

\* The switch statement of yield(): the new priority of thread t that yields
\* because of why.  TCB.last_cause is what curr_cause was until then.
AdjustedPriority(t, why) ==
    LET p == priority[t]
    IN  CASE why = "QUANTUM" /\ p > 0 -> p - 1
          [] why = "IO" /\ p < PRIORITY_QUEUES - 1 -> p + 1
          [] why = "MUTEX" /\ p > 0 /\ curr_cause[t] = "MUTEX" -> p - 1
          [] OTHER -> p

-----------------------------------------------------------------------------
(* yield(), in three steps around the loop over expired timeouts.          *)

\* yield() up to the call of sched_wakeup_expired_timeouts().  The current
\* thread is in no queue, so its new priority, which the code computes after
\* sched_queue_select() in the same critical section, is assigned here.  Of
\* the causes only SCHED_MUTEX is ever compared with a later one; the others
\* are remembered as "IDLE".
EnterYield(c, why) ==
    LET t == current[c]
        ages == yield_counter + 1 = MAX_QUANTUMS
    IN  /\ SpinlockFree
        /\ yield_counter' = IF ages THEN 0 ELSE yield_counter + 1
        /\ SCHED' = IF ages THEN [p \in Priorities |-> AgedQueue(p)] ELSE SCHED
        /\ priority' = [u \in TCBs |->
              IF u = t THEN AdjustedPriority(t, why)
              ELSE IF ages THEN AgedPriority(u) ELSE priority[u]]
        /\ state' = [state EXCEPT ![t] = IF @ = "RUNNING" THEN "READY" ELSE @]
        /\ curr_cause' = [curr_cause EXCEPT ![t] =
                            IF why = "MUTEX" THEN "MUTEX" ELSE "IDLE"]
        /\ cause' = [cause EXCEPT ![c] = "IDLE"]
        /\ cpc' = [cpc EXCEPT ![c] = "expire"]
        /\ UNCHANGED <<phase, wakeup_time, saved, TIMEOUT_LIST, current,
                       previous, active_threads, halt_vector, clock>>

\* The head of TIMEOUT_LIST has expired.  The time is read once in the code;
\* Tick waits for sched_spinlock, so it does not change in this loop either.
HeadExpired == /\ TIMEOUT_LIST # <<>>
               /\ wakeup_time[Head(TIMEOUT_LIST)] <= clock

\* One iteration of sched_wakeup_expired_timeouts().
WakeupExpired(c) ==
    /\ cpc[c] = "expire"
    /\ HeadExpired
    /\ sched_make_ready(Head(TIMEOUT_LIST))
    /\ UNCHANGED <<phase, priority, curr_cause, saved, coreVars,
                   yield_counter, active_threads, clock>>

\* sched_queue_select(): the head of the highest non-empty queue, else the
\* current thread if it may go on, else the idle thread.
SelectedQueue(p) == /\ SCHED[p] # <<>>
                    /\ \A q \in Priorities : q > p => SCHED[q] = <<>>

\* yield() from sched_queue_select() to the release of sched_spinlock.
SelectNext(c) ==
    LET t == current[c]
    IN  /\ cpc[c] = "expire"
        /\ ~ HeadExpired
        /\ \/ \E p \in Priorities :
                 /\ SelectedQueue(p)
                 /\ current' = [current EXCEPT ![c] = Head(SCHED[p])]
                 /\ SCHED' = [SCHED EXCEPT ![p] = Tail(@)]
           \/ /\ \A p \in Priorities : SCHED[p] = <<>>
              /\ current' = [current EXCEPT ![c] =
                               IF state[t] = "READY" THEN t ELSE IdleThread(c)]
              /\ UNCHANGED SCHED
        /\ previous' = [previous EXCEPT ![c] = t]
        /\ cpc' = [cpc EXCEPT ![c] =
                     IF current'[c] = t THEN "gain" ELSE "swap"]
        /\ UNCHANGED <<tcbVars, TIMEOUT_LIST, cause, yield_counter,
                       active_threads, haltVars, clock>>

\* cpu_swap_context(): the context of the previous thread is stored, that of
\* the next one is loaded and is out of date from here on.
SwapContext(c) ==
    /\ cpc[c] = "swap"
    /\ saved' = [saved EXCEPT ![previous[c]] = TRUE, ![current[c]] = FALSE]
    /\ cpc' = [cpc EXCEPT ![c] = "gain"]
    /\ UNCHANGED <<state, phase, priority, wakeup_time, curr_cause, queueVars,
                   current, previous, cause, yield_counter, active_threads,
                   haltVars, clock>>

\* gain(), release_TCB() included.  The fields of a released TCB are gone and
\* previous_thread, not read again before yield() assigns it, is forgotten.
Gain(c) ==
    LET t == current[c]
        prev == previous[c]
    IN  /\ cpc[c] = "gain"
        /\ SpinlockFree
        /\ cpc' = [cpc EXCEPT ![c] = "run"]
        /\ previous' = [previous EXCEPT ![c] = t]
        /\ phase' = [u \in TCBs |-> CASE u = t -> "CTX_DIRTY"
                                      [] u = prev /\ u # t -> "CTX_CLEAN"
                                      [] OTHER -> phase[u]]
        /\ \/ /\ t # prev /\ state[prev] = "READY" /\ prev \notin Cores
              /\ state' = [state EXCEPT ![t] = "RUNNING"]
              /\ sched_queue_add(prev)
              /\ UNCHANGED <<priority, curr_cause, active_threads>>
           \/ /\ t # prev /\ state[prev] = "EXITED"
              /\ state' = [state EXCEPT ![t] = "RUNNING", ![prev] = "NONE"]
              /\ priority' = [priority EXCEPT ![prev] = 0]
              /\ curr_cause' = [curr_cause EXCEPT ![prev] = "IDLE"]
              /\ active_threads' = active_threads - 1
              /\ UNCHANGED <<SCHED, haltVars>>
           \/ /\ \/ t = prev
                 \/ state[prev] = "STOPPED"
                 \/ state[prev] = "READY" /\ prev \in Cores
              /\ state' = [state EXCEPT ![t] = "RUNNING"]
              /\ UNCHANGED <<SCHED, priority, curr_cause, active_threads,
                             haltVars>>
        /\ UNCHANGED <<wakeup_time, saved, TIMEOUT_LIST, current, cause,
                       yield_counter, clock>>

-----------------------------------------------------------------------------
(* What a running thread asks of the scheduler.                            *)

InitializeTCB(u) ==
    /\ state' = [state EXCEPT ![u] = "INIT"]
    /\ phase' = [phase EXCEPT ![u] = "CTX_CLEAN"]
    /\ wakeup_time' = [wakeup_time EXCEPT ![u] = NO_TIMEOUT]
    /\ priority' = [priority EXCEPT ![u] = PRIORITY_QUEUES \div 2]
    /\ curr_cause' = [curr_cause EXCEPT ![u] = "IDLE"]
    /\ saved' = [saved EXCEPT ![u] = TRUE]

\* Faulty variant: the new thread is not counted.
SpawnUncounted(c, u) ==
    /\ cpc[c] = "run" /\ current[c] \in Threads
    /\ state[u] = "NONE"
    /\ InitializeTCB(u)
    /\ UNCHANGED <<queueVars, coreVars, yield_counter, active_threads,
                   haltVars, clock>>

\* spawn_thread(), called by Exec() and CreateThread().
spawn_thread(c, u) ==
    /\ cpc[c] = "run" /\ current[c] \in Threads
    /\ state[u] = "NONE"
    /\ InitializeTCB(u)
    /\ active_threads' = active_threads + 1
    /\ UNCHANGED <<queueVars, coreVars, yield_counter, haltVars, clock>>

\* wakeup(), called by threads and by the interrupt handlers of drivers.
wakeup(c, u) ==
    /\ cpc[c] = "run"
    /\ current[c] \in Cores => idle_pc[c] # "halt"
    /\ SpinlockFree
    /\ state[u] \in {"STOPPED", "INIT"}
    /\ sched_make_ready(u)
    /\ UNCHANGED <<phase, priority, curr_cause, saved, coreVars,
                   yield_counter, active_threads, clock>>

\* sleep_releasing() up to its call of yield().
sleep_releasing(c, newstate, why, timeout) ==
    LET t == current[c]
    IN  /\ cpc[c] = "run" /\ t \in Threads
        /\ SpinlockFree
        /\ state' = [state EXCEPT ![t] = newstate]
        /\ \/ newstate # "EXITED" /\ sched_register_timeout(t, timeout)
           \/ newstate = "EXITED" /\ UNCHANGED <<wakeup_time, TIMEOUT_LIST>>
        /\ cause' = [cause EXCEPT ![c] = why]
        /\ cpc' = [cpc EXCEPT ![c] = "sleep"]
        /\ UNCHANGED <<phase, priority, curr_cause, saved, SCHED, current,
                       previous, yield_counter, active_threads, haltVars, clock>>

Block(c) == \E why \in SleepCauses, d \in Timeouts :
               sleep_releasing(c, "STOPPED", why, d)

\* kernel_sleep(EXITED, SCHED_USER) at the end of ThreadExit().
Exit(c) == sleep_releasing(c, "EXITED", "USER", NO_TIMEOUT)

\* The call of yield() at the end of sleep_releasing().
YieldSleeping(c) == cpc[c] = "sleep" /\ EnterYield(c, cause[c])
                                     /\ UNCHANGED idle_pc

\* yield_handler(): the quantum of a running thread has expired.
YieldQuantum(c) ==
    /\ cpc[c] = "run" /\ current[c] \in Threads
    /\ EnterYield(c, "QUANTUM")
    /\ UNCHANGED idle_pc

\* Mutex_Lock() yields on contention.
YieldMutex(c) ==
    /\ cpc[c] = "run" /\ current[c] \in Threads
    /\ EnterYield(c, "MUTEX")
    /\ UNCHANGED idle_pc

-----------------------------------------------------------------------------
(* idle_thread() and cpu_core_halt().                                      *)

IdleAt(c, where) == Runs(c, IdleThread(c)) /\ idle_pc[c] \in where

IdleYield(c) ==
    /\ IdleAt(c, {"start", "yield"})
    /\ EnterYield(c, "IDLE")
    /\ idle_pc' = [idle_pc EXCEPT ![c] = "check"]

\* ALARM in the idle thread.  In cpu_core_halt() it is dispatched while the
\* halt bit is still set.
IdleAlarm(c) ==
    /\ IdleAt(c, {"check", "set", "wake", "yield"})
    /\ EnterYield(c, "QUANTUM")
    /\ UNCHANGED idle_pc

idleUnchanged == UNCHANGED <<tcbVars, queueVars, current, previous, cause,
                             yield_counter, active_threads, clock>>

\* The loop condition, read without a lock, and what follows the loop.
IdleCheck(c) ==
    /\ IdleAt(c, {"check"})
    /\ \/ /\ active_threads > 0
          /\ idle_pc' = [idle_pc EXCEPT ![c] = "set"]
          /\ UNCHANGED <<cpc, halt_vector>>
       \/ /\ active_threads <= 0
          /\ cpc' = [cpc EXCEPT ![c] = "off"]
          /\ halt_vector' = {}
          /\ idle_pc' = [d \in Cores |->
                IF d = c THEN "done"
                ELSE IF d \in halt_vector /\ idle_pc[d] = "halt"
                     THEN "wake" ELSE idle_pc[d]]
    /\ idleUnchanged

HaltSetBit(c) ==
    /\ IdleAt(c, {"set"})
    /\ halt_vector' = halt_vector \cup {c}
    /\ idle_pc' = [idle_pc EXCEPT ![c] = "halt"]
    /\ idleUnchanged /\ UNCHANGED cpc

\* Faulty variant: gain() does not arm the timer.
HaltWithoutTimer(c) == FALSE

\* sigwaitinfo() returns for an interrupt that is not an inter-core one: the
\* timer gain() has set, or a device.
HaltInterrupt(c) ==
    /\ IdleAt(c, {"halt"})
    /\ idle_pc' = [idle_pc EXCEPT ![c] = "wake"]
    /\ idleUnchanged /\ UNCHANGED <<cpc, halt_vector>>

HaltClearBit(c) ==
    /\ IdleAt(c, {"wake"})
    /\ halt_vector' = halt_vector \ {c}
    /\ idle_pc' = [idle_pc EXCEPT ![c] = "yield"]
    /\ idleUnchanged /\ UNCHANGED cpc

Tick ==
    /\ clock < MaxClock
    /\ SpinlockFree
    /\ clock' = clock + 1
    /\ UNCHANGED <<tcbVars, queueVars, coreVars, yield_counter,
                   active_threads, haltVars>>

\* All cores have left the scheduler.
Halted == (\A c \in Cores : cpc[c] = "off") /\ UNCHANGED vars

KernelStep(c) ==
    \/ YieldSleeping(c) \/ YieldQuantum(c) \/ WakeupExpired(c)
    \/ SelectNext(c) \/ SwapContext(c) \/ Gain(c)

IdleStep(c) ==
    \/ IdleYield(c) \/ IdleCheck(c)
    \/ HaltSetBit(c) \/ HaltInterrupt(c) \/ HaltClearBit(c)

ThreadStep(c) ==
    \/ \E u \in Threads : spawn_thread(c, u) \/ wakeup(c, u)
    \/ Block(c) \/ Exit(c) \/ YieldMutex(c)

CoreStep(c) == KernelStep(c) \/ IdleStep(c) \/ ThreadStep(c) \/ IdleAlarm(c)

Next == (\E c \in Cores : CoreStep(c)) \/ Tick \/ Halted

Spec == Init /\ [][Next]_vars

(***************************************************************************)
(* Fairness.  The timer that gain() arms interrupts every running thread   *)
(* and every halted core; a core that is inside the kernel goes on; a core *)
(* that spins on sched_spinlock gets it eventually when the lock becomes   *)
(* free again and again (critical sections are short and never block); and *)
(* a quantum is long enough for the idle thread to make progress between   *)
(* two interrupts of the timer.                                            *)
(***************************************************************************)
Fairness == \A c \in Cores : SF_vars(KernelStep(c)) /\ SF_vars(IdleStep(c))

FairSpec == Spec /\ Fairness

-----------------------------------------------------------------------------
(* Properties.                                                             *)

(* The fields of the TCBs, the scheduler's lists and the cores' program    *)
(* counters hold values the declarations in kernel_sched.h allow; a         *)
(* priority always selects one of the PRIORITY_QUEUES lists of SCHED.       *)
TypeOK ==
    /\ state \in [TCBs -> States]
    /\ phase \in [TCBs -> Phases]
    /\ priority \in [TCBs -> Priorities]
    /\ wakeup_time \in [TCBs -> 0 .. NO_TIMEOUT]
    /\ curr_cause \in [TCBs -> Causes]
    /\ saved \in [TCBs -> BOOLEAN]
    /\ SCHED \in [Priorities -> Seq(Threads)]
    /\ TIMEOUT_LIST \in Seq(Threads)
    /\ cpc \in [Cores -> CorePCs]
    /\ current \in [Cores -> TCBs]
    /\ previous \in [Cores -> TCBs]
    /\ cause \in [Cores -> Causes]
    /\ yield_counter \in 0 .. MAX_QUANTUMS - 1
    /\ active_threads \in Int
    /\ halt_vector \subseteq Cores
    /\ idle_pc \in [Cores -> IdlePCs]
    /\ clock \in 0 .. MaxClock

\* From yield() to gain() a core has two threads in its hands.
Holds(c, t) == t \in {current[c], previous[c]}
Held(t) == \E c \in Cores : Holds(c, t)

Queued(t) == \E p \in Priorities : t \in Members(SCHED[p])

\* The invariant kernel_sched.h states for the scheduler queue, with the one
\* exception the code makes: a thread that sched_queue_select() has taken and
\* gain() has not yet marked is READY and CTX_CLEAN outside the queue.  And
\* the queue a thread is in is that of its priority, where it is only once.
QueueInvariant ==
    /\ \A t \in Threads :
          Queued(t) <=> /\ state[t] = "READY"
                        /\ phase[t] = "CTX_CLEAN"
                        /\ \A c \in Cores : current[c] # t
    /\ \A p \in Priorities : \A n \in 1 .. Len(SCHED[p]) :
          /\ priority[SCHED[p][n]] = p
          /\ \A m \in 1 .. Len(SCHED[p]) : SCHED[p][m] = SCHED[p][n] => m = n

\* A core loads a context only if it is the one the thread was suspended
\* with, and no thread is in the hands of two cores, the one that still has
\* to save its context included: what Thread_phase is there for.
ContextSafe ==
    /\ \A c \in Cores : cpc[c] = "swap" => saved[current[c]]
    /\ \A c, d \in Cores : \A t \in TCBs :
          Holds(c, t) /\ Holds(d, t) => c = d

\* TIMEOUT_LIST is sorted, so that sched_wakeup_expired_timeouts() may stop at
\* the first entry that has not expired; its threads are the sleeping ones
\* with a wakeup time, each once; and none of them is in SCHED, which is
\* linked through the same rlnode.
TimeoutInvariant ==
    /\ \A n \in 1 .. Len(TIMEOUT_LIST) : \A m \in 1 .. Len(TIMEOUT_LIST) :
          n < m => /\ TIMEOUT_LIST[n] # TIMEOUT_LIST[m]
                   /\ wakeup_time[TIMEOUT_LIST[n]]
                         <= wakeup_time[TIMEOUT_LIST[m]]
    /\ \A t \in Threads :
          wakeup_time[t] # NO_TIMEOUT <=> t \in Members(TIMEOUT_LIST)
    /\ \A t \in Members(TIMEOUT_LIST) : state[t] = "STOPPED" /\ ~ Queued(t)

\* The assertions of the scheduler: gain() never finds the previous thread
\* INIT or RUNNING, an expired thread is STOPPED (sched_make_ready()), and
\* run_scheduler() ends in the idle thread.
AssertionsHold ==
    \A c \in Cores :
       /\ cpc[c] = "gain" /\ current[c] # previous[c] =>
             state[previous[c]] \in {"READY", "STOPPED", "EXITED"}
       /\ cpc[c] = "expire" /\ HeadExpired =>
             state[Head(TIMEOUT_LIST)] = "STOPPED"
       /\ cpc[c] = "off" => current[c] = IdleThread(c)

\* A core leaves the scheduler only when every thread has been released.
NoThreadLeftBehind ==
    \A c \in Cores : cpc[c] = "off" =>
       \A t \in Threads : state[t] = "NONE"

\* A thread that is ready runs eventually: aging() makes up for the
\* priorities of the multilevel queue.
NoStarvation ==
    \A t \in Threads : state[t] = "READY" ~> state[t] = "RUNNING"

\* A thread is woken up once its timeout has expired, although only yield()
\* looks at TIMEOUT_LIST and all cores may be halted by then.
TimeoutsFire ==
    \A t \in Threads :
       wakeup_time[t] <= clock ~> wakeup_time[t] = NO_TIMEOUT

\* After the last thread every core leaves the scheduler, although the test
\* of active_threads and the halting of a core are not atomic and the call
\* of cpu_core_restart_all() may come between them.
CoresLeave == active_threads = 0 ~> \A c \in Cores : cpc[c] = "off"

=============================================================================
