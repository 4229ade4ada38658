-------------------------- MODULE SchedulerProofs --------------------------
(***************************************************************************)
(* Proofs about Scheduler, for every number of threads, cores, priorities  *)
(* and timeouts.                                                           *)
(***************************************************************************)
EXTENDS Scheduler, FiniteSetTheorems, TLAPS

-----------------------------------------------------------------------------
(* The inductive invariant.                                                *)

\* What is known of the threads a core has in its hands, by its position in
\* yield()/gain().
CoreInv(c) ==
    LET t == current[c]
        prev == previous[c]
    IN  /\ cpc[c] \in {"run", "sleep", "expire", "off"} =>
              prev = t /\ phase[t] = "CTX_DIRTY" /\ ~ saved[t]
        /\ cpc[c] \in {"run", "off"} => state[t] = "RUNNING"
        /\ cpc[c] \in {"sleep", "expire"} =>
              state[t] \in {"READY", "STOPPED", "EXITED"}
        /\ cpc[c] = "sleep" => t \in Threads
        /\ cpc[c] = "off" => t = IdleThread(c)
        /\ cpc[c] = "swap" =>
              /\ t # prev /\ saved[t] /\ ~ saved[prev]
        /\ cpc[c] = "gain" =>
              /\ ~ saved[t] /\ (t # prev => saved[prev])
        /\ cpc[c] \in {"swap", "gain"} =>
              /\ state[t] = "READY"
              /\ phase[prev] = "CTX_DIRTY"
              /\ t # prev => phase[t] = "CTX_CLEAN"
              /\ state[prev] \in {"READY", "STOPPED", "EXITED"}

CoresInv == \A c \in Cores : CoreInv(c)

\* No thread is in the hands of two cores, an idle thread only in those of
\* its own core.
HoldInv ==
    /\ \A c, d \in Cores : \A t \in TCBs : Holds(c, t) /\ Holds(d, t) => c = d
    /\ \A c, d \in Cores : Holds(c, IdleThread(d)) => c = d

\* A thread in the hands of no core is at rest.
RestInv == \A t \in TCBs : ~ Held(t) =>
              /\ phase[t] = "CTX_CLEAN"
              /\ saved[t]
              /\ state[t] \in {"NONE", "INIT", "READY", "STOPPED"}

IdleInv == \A c \in Cores : state[IdleThread(c)] \in {"READY", "RUNNING"}

\* A thread that waits for a core is in the queue of its priority, once, and
\* the queues hold nothing else.
Waiting(t) == state[t] = "READY" /\ phase[t] = "CTX_CLEAN" /\ ~ Held(t)

QueueInv ==
    \A p \in Priorities :
       /\ Distinct(SCHED[p])
       /\ \A t \in Threads :
             t \in Members(SCHED[p]) <=> Waiting(t) /\ priority[t] = p

TimeoutInv ==
    /\ Distinct(TIMEOUT_LIST)
    /\ \A n, m \in 1 .. Len(TIMEOUT_LIST) : n < m =>
          wakeup_time[TIMEOUT_LIST[n]] <= wakeup_time[TIMEOUT_LIST[m]]
    /\ \A t \in Threads :
          t \in Members(TIMEOUT_LIST) <=> wakeup_time[t] # NO_TIMEOUT
    /\ \A t \in Threads : wakeup_time[t] # NO_TIMEOUT => state[t] = "STOPPED"

IInv == /\ TypeOK /\ CoresInv /\ HoldInv /\ RestInv /\ IdleInv
        /\ QueueInv /\ TimeoutInv

-----------------------------------------------------------------------------
(* Facts about the constants.                                              *)

\* The bounds are numbers, at least 1.
LEMMA ConstantFacts ==
    /\ NCORES \in Nat \ {0} /\ PRIORITY_QUEUES \in Nat \ {0}
    /\ MAX_QUANTUMS \in Nat \ {0} /\ MaxClock \in Nat
    /\ TimerMod \in Nat \ {0} /\ NO_TIMEOUT \in Nat
    /\ InitThread \in Threads
    /\ \A c \in Cores : c \notin Threads /\ c \in TCBs /\ IdleThread(c) = c
    /\ \A t \in Threads : t \in TCBs /\ t \notin Cores
    /\ \A t \in TCBs : t \in Threads \/ t \in Cores
    /\ PRIORITY_QUEUES \div 2 \in Priorities
<1>1. /\ NCORES \in Nat \ {0} /\ PRIORITY_QUEUES \in Nat \ {0}
      /\ MAX_QUANTUMS \in Nat \ {0} /\ MaxClock \in Nat
      /\ TimerMod \in Nat \ {0} /\ NO_TIMEOUT \in Nat
      /\ InitThread \in Threads
  BY ConstantsAssumption, TimerAssumption DEF NO_TIMEOUT
<1>2. Threads \cap Cores = {}
  BY ConstantsAssumption
<1>3. PRIORITY_QUEUES \div 2 \in Priorities
  BY <1>1 DEF Priorities
<1> QED  BY <1>1, <1>2, <1>3 DEF TCBs, IdleThread

-----------------------------------------------------------------------------
(* The initial states satisfy the invariant.                               *)

\* The invariant holds after the boot.
LEMMA InitEstablishesIInv == Init => IInv
<1> SUFFICES ASSUME Init PROVE IInv
  OBVIOUS
<1> DEFINE q == PRIORITY_QUEUES \div 2
<1> q \in Priorities
  BY ConstantFacts
<1>s. /\ SCHED[q] = <<InitThread>>
      /\ \A p \in Priorities \ {q} : SCHED[p] = <<>>
  BY DEF Init
<1>m. /\ Members(SCHED[q]) = {InitThread}
      /\ \A p \in Priorities \ {q} : Members(SCHED[p]) = {}
      /\ \A p \in Priorities : Distinct(SCHED[p])
  <2>1. Members(<<InitThread>>) = {InitThread} /\ Distinct(<<InitThread>>)
    BY DEF Members, Distinct
  <2>2. Members(<<>>) = {} /\ Distinct(<<>>)
    BY DEF Members, Distinct
  <2> QED  BY <1>s, <2>1, <2>2
<1>1. TypeOK
  BY ConstantFacts DEF Init, TypeOK, States, Phases, Causes, CorePCs, IdlePCs,
     Priorities
<1>2. CoresInv
  BY ConstantFacts DEF Init, CoresInv, CoreInv
<1>3. HoldInv
  BY ConstantFacts DEF Init, HoldInv, Holds
<1>4. RestInv
  BY ConstantFacts DEF Init, RestInv, Held, Holds
<1>5. IdleInv
  BY ConstantFacts DEF Init, IdleInv
<1>6. QueueInv
  BY ConstantFacts, <1>m DEF Init, QueueInv, Waiting, Held, Holds
<1>7. TimeoutInv
  BY ConstantFacts DEF Init, TimeoutInv, Members, Distinct
<1> QED  BY <1>1, <1>2, <1>3, <1>4, <1>5, <1>6, <1>7 DEF IInv

-----------------------------------------------------------------------------
(* Each step preserves the invariant.                                      *)

\* What the position of a core says about the threads in its hands.
LEMMA HeldFacts ==
    ASSUME IInv
    PROVE  /\ \A c \in Cores : /\ current[c] \in TCBs /\ previous[c] \in TCBs
                               /\ Holds(c, current[c]) /\ Holds(c, previous[c])
           /\ \A t \in TCBs : Held(t) =>
                 /\ state[t] \in {"READY", "RUNNING", "STOPPED", "EXITED"}
                 /\ phase[t] = "CTX_CLEAN" => state[t] = "READY"
           /\ \A c \in Cores : state[current[c]] = "RUNNING" \/
                               state[current[c]] = "READY" \/
                               cpc[c] \in {"sleep", "expire"}
<1>1. ASSUME NEW c \in Cores
      PROVE  /\ current[c] \in TCBs /\ previous[c] \in TCBs
             /\ cpc[c] \in CorePCs /\ CoreInv(c)
  BY DEF IInv, TypeOK, CoresInv
<1>2. ASSUME NEW c \in Cores, NEW t \in {current[c], previous[c]}
      PROVE  /\ state[t] \in {"READY", "RUNNING", "STOPPED", "EXITED"}
             /\ phase[t] = "CTX_CLEAN" => state[t] = "READY"
  BY <1>1 DEF CoreInv, CorePCs
<1>3. ASSUME NEW c \in Cores
      PROVE  state[current[c]] = "RUNNING" \/ state[current[c]] = "READY"
             \/ cpc[c] \in {"sleep", "expire"}
  BY <1>1 DEF CoreInv, CorePCs
<1> QED  BY <1>1, <1>2, <1>3 DEF Held, Holds

\* Steps that leave the threads, the queues and the cores alone, but for a
\* core that leaves the scheduler from its idle thread.
LEMMA IdleStepPreserves ==
    ASSUME IInv, TypeOK',
           UNCHANGED <<tcbVars, queueVars, current, previous>>,
           \/ UNCHANGED cpc
           \/ \E c \in Cores : Runs(c, IdleThread(c))
                              /\ cpc' = [cpc EXCEPT ![c] = "off"]
    PROVE  IInv'
<1>1. CoresInv'
  <2>1. CASE UNCHANGED cpc
    BY <2>1 DEF IInv, CoresInv, CoreInv, tcbVars
  <2>2. CASE ~ UNCHANGED cpc
    <3>1. PICK c \in Cores : Runs(c, IdleThread(c))
                             /\ cpc' = [cpc EXCEPT ![c] = "off"]
      BY <2>2
    <3>2. ASSUME NEW d \in Cores PROVE CoreInv(d)'
      <4>1. CASE d = c
        BY <3>1, <4>1 DEF IInv, TypeOK, CoresInv, CoreInv, tcbVars, Runs
      <4>2. CASE d # c
        BY <3>1, <4>2 DEF IInv, TypeOK, CoresInv, CoreInv, tcbVars
      <4> QED  BY <4>1, <4>2
    <3> QED  BY <3>2 DEF CoresInv
  <2> QED  BY <2>1, <2>2
<1>2. HoldInv'
  BY DEF IInv, HoldInv, Holds
<1>3. RestInv' /\ IdleInv'
  BY DEF IInv, RestInv, IdleInv, Held, Holds, tcbVars
<1>4. QueueInv'
  BY DEF IInv, QueueInv, Waiting, Held, Holds, tcbVars, queueVars
<1>5. TimeoutInv'
  BY DEF IInv, TimeoutInv, tcbVars, queueVars
<1> QED  BY <1>1, <1>2, <1>3, <1>4, <1>5 DEF IInv

\* spawn_thread()
LEMMA SpawnPreserves ==
    ASSUME IInv, NEW c \in Cores, NEW u \in Threads, spawn_thread(c, u)
    PROVE  IInv'
<1>0. u \in TCBs /\ u \notin Cores /\ ~ Held(u)
  BY ConstantFacts, HeldFacts DEF spawn_thread
<1>1. TypeOK'
  <2>1. /\ (state \in [TCBs -> States])'
        /\ (phase \in [TCBs -> Phases])'
        /\ (saved \in [TCBs -> BOOLEAN])'
    BY <1>0 DEF IInv, TypeOK, spawn_thread, InitializeTCB, States, Phases
  <2>2. /\ (priority \in [TCBs -> Priorities])'
        /\ (wakeup_time \in [TCBs -> 0 .. NO_TIMEOUT])'
        /\ (curr_cause \in [TCBs -> Causes])'
    BY <1>0, ConstantFacts DEF IInv, TypeOK, spawn_thread, InitializeTCB, Causes
  <2>3. (active_threads \in Int)'
    BY DEF IInv, TypeOK, spawn_thread
  <2> QED
    BY <2>1, <2>2, <2>3 DEF IInv, TypeOK, spawn_thread,
       queueVars, coreVars, haltVars
<1>2. CoresInv'
  BY <1>0 DEF IInv, TypeOK, CoresInv, CoreInv, Held, Holds, spawn_thread,
     InitializeTCB, coreVars
<1>3. HoldInv'
  BY DEF IInv, HoldInv, Holds, spawn_thread, coreVars
<1>4. RestInv'
  BY <1>0 DEF IInv, TypeOK, RestInv, Held, Holds, spawn_thread,
     InitializeTCB, coreVars
<1>a. IdleInv'
  BY <1>0, ConstantFacts DEF IInv, TypeOK, IdleInv, spawn_thread, InitializeTCB
<1>5. QueueInv'
  BY <1>0 DEF IInv, TypeOK, QueueInv, Waiting, Held, Holds, spawn_thread,
     InitializeTCB, coreVars, queueVars
<1>6. TimeoutInv'
  <2>1. wakeup_time[u] = NO_TIMEOUT
    BY DEF IInv, TimeoutInv, spawn_thread
  <2>2. wakeup_time' = wakeup_time
    BY <1>0, <2>1 DEF IInv, TypeOK, spawn_thread, InitializeTCB
  <2>3. TIMEOUT_LIST' = TIMEOUT_LIST
    BY DEF spawn_thread, queueVars
  <2>4. \A t \in Threads : wakeup_time[t] # NO_TIMEOUT => state'[t] = state[t]
    BY <1>0, <2>1 DEF IInv, TypeOK, spawn_thread, InitializeTCB
  <2> QED  BY <2>2, <2>3, <2>4 DEF IInv, TimeoutInv
<1> QED  BY <1>1, <1>2, <1>3, <1>4, <1>a, <1>5, <1>6 DEF IInv

\* cpu_swap_context()
LEMMA SwapPreserves ==
    ASSUME IInv, NEW c \in Cores, SwapContext(c)
    PROVE  IInv'
<1> DEFINE t == current[c]
           prev == previous[c]
<1>0. /\ t \in TCBs /\ prev \in TCBs /\ t # prev
      /\ Holds(c, t) /\ Holds(c, prev)
  BY DEF IInv, TypeOK, CoresInv, CoreInv, SwapContext, Holds
<1>1. TypeOK'
  BY <1>0 DEF IInv, TypeOK, SwapContext, queueVars, haltVars, CorePCs
<1>2. CoresInv'
  <2>1. CoreInv(c)'
    BY <1>0 DEF IInv, TypeOK, CoresInv, CoreInv, SwapContext
  <2>2. ASSUME NEW d \in Cores, d # c PROVE CoreInv(d)'
    <3>1. current[d] \notin {t, prev} /\ previous[d] \notin {t, prev}
      BY <1>0, <2>2 DEF IInv, TypeOK, HoldInv, Holds
    <3> QED
      BY <2>2, <3>1 DEF IInv, TypeOK, CoresInv, CoreInv, SwapContext
  <2> QED  BY <2>1, <2>2 DEF CoresInv
<1>3. HoldInv'
  BY DEF IInv, HoldInv, Holds, SwapContext
<1>4. RestInv' /\ IdleInv'
  BY <1>0 DEF IInv, TypeOK, RestInv, IdleInv, Held, Holds, SwapContext
<1>5. QueueInv'
  BY DEF IInv, QueueInv, Waiting, Held, Holds, SwapContext, queueVars
<1>6. TimeoutInv'
  BY DEF IInv, TimeoutInv, SwapContext, queueVars
<1> QED  BY <1>1, <1>2, <1>3, <1>4, <1>5, <1>6 DEF IInv

\* cpu_core_restart_one() keeps the types of what it writes.
LEMMA RestartType ==
    ASSUME TypeOK, cpu_core_restart_one
    PROVE  halt_vector' \subseteq Cores /\ idle_pc' \in [Cores -> IdlePCs]
  BY DEF TypeOK, cpu_core_restart_one, haltVars, IdlePCs

\* sched_queue_add() of a thread that is at rest and in no queue yet.
LEMMA QueueAddEffect ==
    ASSUME IInv, NEW t \in Threads, priority[t] \in Priorities, ~ Waiting(t),
           sched_queue_add(t)
    PROVE  /\ SCHED' \in [Priorities -> Seq(Threads)]
           /\ halt_vector' \subseteq Cores /\ idle_pc' \in [Cores -> IdlePCs]
           /\ \A p \in Priorities : /\ Distinct(SCHED'[p])
                                    /\ Members(SCHED'[p]) =
                                         IF p = priority[t]
                                         THEN Members(SCHED[p]) \cup {t}
                                         ELSE Members(SCHED[p])
<1> DEFINE q == priority[t]
<1>1. /\ SCHED \in [Priorities -> Seq(Threads)]
      /\ SCHED' = [SCHED EXCEPT ![q] = Append(SCHED[q], t)]
      /\ SCHED[q] \in Seq(Threads)
  BY DEF IInv, TypeOK, sched_queue_add
<1>2. \A p \in Priorities : Distinct(SCHED[p]) /\ t \notin Members(SCHED[p])
  BY DEF IInv, QueueInv
<1>3. /\ Append(SCHED[q], t) \in Seq(Threads)
      /\ Members(Append(SCHED[q], t)) = Members(SCHED[q]) \cup {t}
      /\ Distinct(Append(SCHED[q], t))
  BY <1>1, <1>2, AppendMembers
<1>4. halt_vector' \subseteq Cores /\ idle_pc' \in [Cores -> IdlePCs]
  BY RestartType DEF IInv, sched_queue_add
<1> QED  BY <1>1, <1>2, <1>3, <1>4

\* The removal from TIMEOUT_LIST in sched_make_ready().
LEMMA LeaveTimeoutListEffect ==
    ASSUME IInv, NEW t \in Threads, LeaveTimeoutList(t),
           NEW newstate, newstate = [state EXCEPT ![t] = "READY"],
           state' = newstate
    PROVE  /\ TIMEOUT_LIST' \in Seq(Threads)
           /\ wakeup_time' \in [TCBs -> 0 .. NO_TIMEOUT]
           /\ TimeoutInv'
<1>0. t \in TCBs /\ NO_TIMEOUT \in 0 .. NO_TIMEOUT
  BY ConstantFacts
<1>1. CASE wakeup_time[t] = NO_TIMEOUT
  <2>1. UNCHANGED <<wakeup_time, TIMEOUT_LIST>>
    BY <1>1 DEF LeaveTimeoutList
  <2> QED
    BY <1>0, <1>1, <2>1, ConstantFacts DEF IInv, TypeOK, TimeoutInv
<1>2. CASE wakeup_time[t] # NO_TIMEOUT
  <2>1. PICK n \in 1 .. Len(TIMEOUT_LIST) :
           TIMEOUT_LIST[n] = t /\ TIMEOUT_LIST' = RemoveNth(TIMEOUT_LIST, n)
    BY <1>2 DEF LeaveTimeoutList
  <2>2. wakeup_time' = [wakeup_time EXCEPT ![t] = NO_TIMEOUT]
    BY <1>2 DEF LeaveTimeoutList
  <2>3. TIMEOUT_LIST \in Seq(Threads) /\ Distinct(TIMEOUT_LIST)
    BY DEF IInv, TypeOK, TimeoutInv
  <2>4. /\ TIMEOUT_LIST' \in Seq(Threads)
        /\ Len(TIMEOUT_LIST') = Len(TIMEOUT_LIST) - 1
        /\ \A m \in 1 .. Len(TIMEOUT_LIST') :
              TIMEOUT_LIST'[m] = IF m < n THEN TIMEOUT_LIST[m]
                                 ELSE TIMEOUT_LIST[m + 1]
        /\ Members(TIMEOUT_LIST') = Members(TIMEOUT_LIST) \ {t}
        /\ Distinct(TIMEOUT_LIST')
    BY <2>1, <2>3, RemoveMembers
  <2>5. wakeup_time' \in [TCBs -> 0 .. NO_TIMEOUT]
    BY <1>0, <2>2 DEF IInv, TypeOK
  <2>6. \A u \in Threads :
           /\ u # t => wakeup_time'[u] = wakeup_time[u]
           /\ wakeup_time'[t] = NO_TIMEOUT
    BY <2>2, ConstantFacts DEF IInv, TypeOK
  <2>7. ASSUME NEW k \in 1 .. Len(TIMEOUT_LIST'),
               NEW m \in 1 .. Len(TIMEOUT_LIST'), k < m
        PROVE  wakeup_time'[TIMEOUT_LIST'[k]] <= wakeup_time'[TIMEOUT_LIST'[m]]
    <3> DEFINE src(j) == IF j < n THEN j ELSE j + 1
    <3>0. Len(TIMEOUT_LIST) \in Nat
      BY <2>3
    <3>1. /\ src(k) \in 1 .. Len(TIMEOUT_LIST) /\ src(m) \in 1 .. Len(TIMEOUT_LIST)
          /\ src(k) < src(m)
      <4>1. /\ n \in 1 .. Len(TIMEOUT_LIST)
            /\ k \in 1 .. Len(TIMEOUT_LIST) - 1
            /\ m \in 1 .. Len(TIMEOUT_LIST) - 1
        BY <2>1, <2>4
      <4> QED  BY <2>7, <3>0, <4>1
    <3>a. /\ TIMEOUT_LIST'[k] = TIMEOUT_LIST[src(k)]
          /\ TIMEOUT_LIST'[m] = TIMEOUT_LIST[src(m)]
      BY <2>4
    <3>2. wakeup_time[TIMEOUT_LIST[src(k)]] <= wakeup_time[TIMEOUT_LIST[src(m)]]
      BY <3>1 DEF IInv, TimeoutInv
    <3>3. /\ TIMEOUT_LIST'[k] \in Threads \ {t}
          /\ TIMEOUT_LIST'[m] \in Threads \ {t}
      <4>1. /\ TIMEOUT_LIST'[k] \in Members(TIMEOUT_LIST')
            /\ TIMEOUT_LIST'[m] \in Members(TIMEOUT_LIST')
        BY DEF Members
      <4>2. TIMEOUT_LIST'[k] \in Threads /\ TIMEOUT_LIST'[m] \in Threads
        BY <2>4
      <4> QED  BY <2>4, <4>1, <4>2
    <3> QED  BY <2>6, <3>a, <3>2, <3>3
  <2>8. \A u \in Threads : /\ u # t => state'[u] = state[u]
                           /\ u \in Members(TIMEOUT_LIST) <=>
                                 wakeup_time[u] # NO_TIMEOUT
                           /\ wakeup_time[u] # NO_TIMEOUT =>
                                 state[u] = "STOPPED"
    BY ConstantFacts DEF IInv, TypeOK, TimeoutInv
  <2> QED  BY <2>4, <2>5, <2>6, <2>7, <2>8 DEF TimeoutInv
<1> QED  BY <1>1, <1>2

\* sched_make_ready(), as called by wakeup() and by
\* sched_wakeup_expired_timeouts().
LEMMA MakeReadyPreserves ==
    ASSUME IInv, NEW t \in Threads, state[t] \in {"STOPPED", "INIT"},
           sched_make_ready(t),
           UNCHANGED <<phase, priority, curr_cause, saved, coreVars,
                       yield_counter, active_threads, clock>>
    PROVE  IInv'
<1>0. /\ t \in TCBs /\ t \notin Cores
      /\ state' = [state EXCEPT ![t] = "READY"]
      /\ priority[t] \in Priorities /\ ~ Waiting(t)
      /\ Held(t) => phase[t] # "CTX_CLEAN"
      /\ ~ Held(t) => phase[t] = "CTX_CLEAN"
  BY ConstantFacts, HeldFacts DEF IInv, TypeOK, RestInv, Waiting, sched_make_ready
<1>t. /\ TIMEOUT_LIST' \in Seq(Threads)
      /\ wakeup_time' \in [TCBs -> 0 .. NO_TIMEOUT]
      /\ TimeoutInv'
  BY <1>0, LeaveTimeoutListEffect DEF sched_make_ready
<1>q. /\ SCHED' \in [Priorities -> Seq(Threads)]
      /\ halt_vector' \subseteq Cores /\ idle_pc' \in [Cores -> IdlePCs]
      /\ \A p \in Priorities : /\ Distinct(SCHED'[p])
                               /\ Members(SCHED'[p]) =
                                    IF p = priority[t] /\ ~ Held(t)
                                    THEN Members(SCHED[p]) \cup {t}
                                    ELSE Members(SCHED[p])
  <2>1. CASE Held(t)
    <3>1. UNCHANGED <<SCHED, haltVars>>
      BY <1>0, <2>1 DEF sched_make_ready
    <3> QED  BY <2>1, <3>1 DEF IInv, TypeOK, QueueInv, haltVars
  <2>2. CASE ~ Held(t)
    <3>1. sched_queue_add(t)
      BY <1>0, <2>2 DEF sched_make_ready
    <3> QED  BY <1>0, <2>2, <3>1, QueueAddEffect
  <2> QED  BY <2>1, <2>2
<1>1. TypeOK'
  BY <1>0, <1>t, <1>q DEF IInv, TypeOK, coreVars, States
<1>2. CoresInv'
  BY <1>0, HeldFacts DEF IInv, TypeOK, CoresInv, CoreInv, coreVars
<1>3. HoldInv'
  BY DEF IInv, HoldInv, Holds, coreVars
<1>4. RestInv'
  BY <1>0 DEF IInv, TypeOK, RestInv, Held, Holds, coreVars
<1>5. IdleInv'
  BY <1>0, ConstantFacts DEF IInv, TypeOK, IdleInv
<1>6. QueueInv'
  <2>1. \A u \in Threads : Held(u)' <=> Held(u)
    BY DEF Held, Holds, coreVars
  <2>2. \A u \in Threads \ {t} : Waiting(u)' <=> Waiting(u)
    BY <1>0, <2>1, ConstantFacts DEF IInv, TypeOK, Waiting
  <2>3. Waiting(t)' <=> ~ Held(t)
    BY <1>0, <2>1 DEF IInv, TypeOK, Waiting
  <2> QED  BY <1>0, <1>q, <2>2, <2>3 DEF IInv, QueueInv
<1> QED  BY <1>t, <1>1, <1>2, <1>3, <1>4, <1>5, <1>6 DEF IInv

\* aging(): the head of each queue below the top moves up by one.
LEMMA AgedQueueEffect ==
    ASSUME IInv, NEW p \in Priorities
    PROVE  /\ AgedQueue(p) \in Seq(Threads)
           /\ Distinct(AgedQueue(p))
           /\ \A t \in Threads : t \in Members(AgedQueue(p)) <=>
                 \/ t \in Members(SCHED[p]) /\ ~ (Aged(p) /\ t = Head(SCHED[p]))
                 \/ p > 0 /\ Aged(p - 1) /\ t = Head(SCHED[p - 1])
<1> DEFINE rest == IF Aged(p) THEN Tail(SCHED[p]) ELSE SCHED[p]
<1>1. \A q \in Priorities : SCHED[q] \in Seq(Threads) /\ Distinct(SCHED[q])
  BY DEF IInv, TypeOK, QueueInv
<1>2. /\ rest \in Seq(Threads) /\ Distinct(rest)
      /\ \A t \in Threads : t \in Members(rest) <=>
            t \in Members(SCHED[p]) /\ ~ (Aged(p) /\ t = Head(SCHED[p]))
  <2>1. CASE Aged(p)
    <3>1. SCHED[p] # <<>>
      BY <2>1 DEF Aged
    <3> QED  BY <1>1, <2>1, <3>1, TailMembers
  <2>2. CASE ~ Aged(p)
    BY <1>1, <2>2
  <2> QED  BY <2>1, <2>2
<1> HIDE DEF rest
<1>3. CASE p > 0 /\ Aged(p - 1)
  <2>1. p - 1 \in Priorities /\ SCHED[p - 1] # <<>>
    BY <1>3, ConstantFacts DEF Priorities, Aged
  <2>2. Head(SCHED[p - 1]) \in Threads
        /\ Head(SCHED[p - 1]) \in Members(SCHED[p - 1])
    BY <1>1, <2>1, TailMembers
  <2>3. Head(SCHED[p - 1]) \notin Members(SCHED[p])
    <3>1. p # p - 1
      BY DEF Priorities
    <3> QED  BY <2>1, <2>2, <3>1 DEF IInv, QueueInv
  <2>4. Head(SCHED[p - 1]) \notin Members(rest)
    BY <1>2, <2>2, <2>3
  <2>5. AgedQueue(p) = Append(rest, Head(SCHED[p - 1]))
    BY <1>3 DEF AgedQueue, rest
  <2>6. /\ AgedQueue(p) \in Seq(Threads)
        /\ Members(AgedQueue(p)) = Members(rest) \cup {Head(SCHED[p - 1])}
        /\ Distinct(AgedQueue(p))
    BY <1>2, <2>2, <2>4, <2>5, AppendMembers
  <2> QED  BY <1>2, <1>3, <2>6
<1>4. CASE ~ (p > 0 /\ Aged(p - 1))
  <2>1. AgedQueue(p) = rest
    BY <1>4 DEF AgedQueue, rest
  <2> QED  BY <1>2, <1>4, <2>1
<1> QED  BY <1>3, <1>4

\* The first part of yield().
LEMMA EnterYieldPreserves ==
    ASSUME IInv, NEW c \in Cores, NEW why \in Causes, EnterYield(c, why),
           cpc[c] \in {"run", "sleep"}, idle_pc' \in [Cores -> IdlePCs]
    PROVE  IInv'
<1> DEFINE t == current[c]
           ages == yield_counter + 1 = MAX_QUANTUMS
<1>0. /\ t \in TCBs /\ Holds(c, t) /\ Held(t)
      /\ phase[t] = "CTX_DIRTY" /\ ~ Waiting(t)
      /\ state[t] \in {"RUNNING", "READY", "STOPPED", "EXITED"}
      /\ \A d \in Cores : d # c => t \notin {current[d], previous[d]}
  BY HeldFacts DEF IInv, CoresInv, CoreInv, HoldInv, Held, Holds, Waiting
<1>u. /\ state' = [state EXCEPT ![t] = IF @ = "RUNNING" THEN "READY" ELSE @]
      /\ cpc' = [cpc EXCEPT ![c] = "expire"]
      /\ UNCHANGED <<phase, wakeup_time, saved, TIMEOUT_LIST, current,
                     previous, active_threads, halt_vector, clock>>
  BY DEF EnterYield
<1>p. /\ \A u \in TCBs : AgedPriority(u) \in Priorities
      /\ AdjustedPriority(t, why) \in Priorities
  <2>1. ASSUME NEW u \in TCBs PROVE AgedPriority(u) \in Priorities
    <3>1. CASE \E p \in Priorities : Aged(p) /\ Head(SCHED[p]) = u
      <4>1. PICK p \in Priorities : Aged(p) /\ Head(SCHED[p]) = u
        BY <3>1
      <4>2. SCHED[p] \in Seq(Threads) /\ Distinct(SCHED[p]) /\ SCHED[p] # <<>>
        BY <4>1 DEF IInv, TypeOK, QueueInv, Aged
      <4>3. u \in Threads /\ u \in Members(SCHED[p])
        BY <4>1, <4>2, TailMembers
      <4>4. priority[u] = p
        BY <4>3 DEF IInv, QueueInv
      <4> QED
        BY <3>1, <4>1, <4>4, ConstantFacts DEF AgedPriority, Aged, Priorities
    <3>2. CASE ~ \E p \in Priorities : Aged(p) /\ Head(SCHED[p]) = u
      BY <3>2 DEF IInv, TypeOK, AgedPriority
    <3> QED  BY <3>1, <3>2
  <2>2. priority[t] \in Priorities
    BY <1>0 DEF IInv, TypeOK
  <2>3. AdjustedPriority(t, why) \in Priorities
    BY <2>2, ConstantFacts DEF AdjustedPriority, Priorities
  <2> QED  BY <2>1, <2>3
<1>1. TypeOK'
  <2>1. yield_counter' \in 0 .. MAX_QUANTUMS - 1
    BY ConstantFacts DEF IInv, TypeOK, EnterYield
  <2>2. SCHED' \in [Priorities -> Seq(Threads)]
    BY AgedQueueEffect DEF IInv, TypeOK, EnterYield
  <2>3. priority' \in [TCBs -> Priorities]
    BY <1>0, <1>p DEF IInv, TypeOK, EnterYield
  <2>4. state' \in [TCBs -> States]
    BY <1>0, <1>u DEF IInv, TypeOK, States
  <2>5. /\ curr_cause' \in [TCBs -> Causes]
        /\ cause' \in [Cores -> Causes]
        /\ cpc' \in [Cores -> CorePCs]
    BY DEF IInv, TypeOK, EnterYield, Causes, CorePCs
  <2> QED
    BY <1>u, <2>1, <2>2, <2>3, <2>4, <2>5 DEF IInv, TypeOK
<1>2. CoresInv'
  <2>1. CoreInv(c)'
    BY <1>0, <1>u DEF IInv, TypeOK, CoresInv, CoreInv
  <2>2. ASSUME NEW d \in Cores, d # c PROVE CoreInv(d)'
    BY <1>0, <1>u, <2>2 DEF IInv, TypeOK, CoresInv, CoreInv
  <2> QED  BY <2>1, <2>2 DEF CoresInv
<1>3. HoldInv'
  BY <1>u DEF IInv, HoldInv, Holds
<1>4. RestInv'
  BY <1>0, <1>u DEF IInv, TypeOK, RestInv, Held, Holds
<1>5. IdleInv'
  BY <1>0, <1>u, ConstantFacts DEF IInv, TypeOK, IdleInv
<1>6. QueueInv'
  <2>1. \A u \in Threads : Waiting(u)' <=> Waiting(u)
    BY <1>0, <1>u, ConstantFacts DEF IInv, TypeOK, Waiting, Held, Holds
  <2>2. CASE ~ ages
    <3>1. UNCHANGED SCHED /\ \A u \in TCBs : u # t => priority'[u] = priority[u]
      BY <2>2 DEF EnterYield
    <3> QED  BY <1>0, <2>1, <3>1, ConstantFacts DEF IInv, QueueInv
  <2>3. CASE ages
    <3>1. \A p \in Priorities : SCHED'[p] = AgedQueue(p)
      BY <2>3 DEF EnterYield
    <3>2. \A u \in TCBs : u # t => priority'[u] = AgedPriority(u)
      BY <2>3 DEF EnterYield
    <3>3. \A p \in Priorities : Aged(p) =>
             Head(SCHED[p]) \in Threads /\ Head(SCHED[p]) \in Members(SCHED[p])
      BY TailMembers DEF IInv, TypeOK, QueueInv, Aged
    <3>4. ASSUME NEW p \in Priorities, NEW u \in Threads
          PROVE  u \in Members(AgedQueue(p)) <=> Waiting(u) /\ priority'[u] = p
      <4>1. u \in Members(AgedQueue(p)) <=>
               \/ u \in Members(SCHED[p]) /\ ~ (Aged(p) /\ u = Head(SCHED[p]))
               \/ p > 0 /\ Aged(p - 1) /\ u = Head(SCHED[p - 1])
        BY AgedQueueEffect
      <4>2. CASE ~ Waiting(u)
        <5>1. \A q \in Priorities : u \notin Members(SCHED[q])
          BY <4>2 DEF IInv, QueueInv
        <5>2. p > 0 => p - 1 \in Priorities
          BY ConstantFacts DEF Priorities
        <5>3. ~ (p > 0 /\ Aged(p - 1) /\ u = Head(SCHED[p - 1]))
          BY <3>3, <5>1, <5>2
        <5> QED  BY <4>1, <4>2, <5>1, <5>3
      <4>3. CASE Waiting(u)
        <5>1. u \in TCBs /\ u # t /\ priority[u] \in Priorities
          BY <1>0, <4>3, ConstantFacts DEF IInv, TypeOK
        <5>2. \A q \in Priorities : u \in Members(SCHED[q]) <=> q = priority[u]
          BY <4>3 DEF IInv, QueueInv
        <5>3. \A q \in Priorities : Aged(q) /\ Head(SCHED[q]) = u =>
                                      q = priority[u]
          BY <3>3, <5>2
        <5>4. priority'[u] = AgedPriority(u)
          BY <3>2, <5>1
        <5>5. CASE Aged(priority[u]) /\ Head(SCHED[priority[u]]) = u
          <6>1. priority'[u] = priority[u] + 1
            BY <5>1, <5>4, <5>5 DEF AgedPriority
          <6>2. u \in Members(AgedQueue(p)) <=> p = priority[u] + 1
            <7>1. ~ (u \in Members(SCHED[p])
                       /\ ~ (Aged(p) /\ u = Head(SCHED[p])))
              BY <5>2, <5>5
            <7>2. CASE p > 0
              <8>1. p - 1 \in Priorities
                BY <7>2, ConstantFacts DEF Priorities
              <8>2. Aged(p - 1) /\ u = Head(SCHED[p - 1]) <=> p - 1 = priority[u]
                BY <5>3, <5>5, <8>1
              <8>3. p - 1 = priority[u] <=> p = priority[u] + 1
                BY <5>1 DEF Priorities
              <8> QED  BY <4>1, <7>1, <7>2, <8>2, <8>3
            <7>3. CASE ~ (p > 0)
              <8>1. p # priority[u] + 1
                BY <5>1, <7>3 DEF Priorities
              <8> QED  BY <4>1, <7>1, <7>3, <8>1
            <7> QED  BY <7>2, <7>3
          <6> QED  BY <4>3, <6>1, <6>2
        <5>6. CASE ~ (Aged(priority[u]) /\ Head(SCHED[priority[u]]) = u)
          <6>1. priority'[u] = priority[u]
            BY <5>3, <5>4, <5>6 DEF AgedPriority
          <6>2. p > 0 => p - 1 \in Priorities
            BY ConstantFacts DEF Priorities
          <6>3. ~ (p > 0 /\ Aged(p - 1) /\ u = Head(SCHED[p - 1]))
            BY <5>3, <5>6, <6>2
          <6>4. u \in Members(AgedQueue(p)) <=> p = priority[u]
            BY <4>1, <5>2, <5>6, <6>3
          <6> QED  BY <4>3, <6>1, <6>4
        <5> QED  BY <5>5, <5>6
      <4> QED  BY <4>2, <4>3
    <3> QED  BY <2>1, <3>1, <3>4, AgedQueueEffect DEF QueueInv
  <2> QED  BY <2>2, <2>3
<1>7. TimeoutInv'
  BY <1>0, <1>u DEF IInv, TypeOK, TimeoutInv, Members, Distinct
<1> QED  BY <1>1, <1>2, <1>3, <1>4, <1>5, <1>6, <1>7 DEF IInv

\* sleep_releasing(): the state and the timeout of the running thread.
LEMMA SleepPreserves ==
    ASSUME IInv, NEW c \in Cores, NEW newstate \in {"STOPPED", "EXITED"},
           NEW why \in Causes, NEW timeout \in 0 .. NO_TIMEOUT,
           timeout = NO_TIMEOUT \/ timeout \in Timeouts,
           sleep_releasing(c, newstate, why, timeout)
    PROVE  IInv'
<1> DEFINE t == current[c]
           w == (clock + timeout) % TimerMod
<1>0. /\ t \in Threads /\ t \in TCBs /\ t \notin Cores
      /\ Held(t) /\ ~ Waiting(t)
      /\ cpc[c] = "run" /\ state[t] = "RUNNING" /\ phase[t] = "CTX_DIRTY"
      /\ wakeup_time[t] = NO_TIMEOUT
      /\ \A d \in Cores : d # c => t \notin {current[d], previous[d]}
  BY ConstantFacts, HeldFacts DEF IInv, CoresInv, CoreInv, HoldInv, Held, Holds,
     Waiting, TimeoutInv, sleep_releasing
<1>u. /\ state' = [state EXCEPT ![t] = newstate]
      /\ cpc' = [cpc EXCEPT ![c] = "sleep"]
      /\ cause' = [cause EXCEPT ![c] = why]
      /\ UNCHANGED <<phase, priority, curr_cause, saved, SCHED, current,
                     previous, yield_counter, active_threads, haltVars, clock>>
  BY DEF sleep_releasing
<1>t. /\ wakeup_time' \in [TCBs -> 0 .. NO_TIMEOUT]
      /\ TIMEOUT_LIST' \in Seq(Threads)
      /\ TimeoutInv'
  <2>1. CASE UNCHANGED <<wakeup_time, TIMEOUT_LIST>>
    BY <1>0, <1>u, <2>1 DEF IInv, TypeOK, TimeoutInv
  <2>2. CASE ~ UNCHANGED <<wakeup_time, TIMEOUT_LIST>>
    <3>1. /\ newstate = "STOPPED" /\ timeout # NO_TIMEOUT
          /\ wakeup_time' = [wakeup_time EXCEPT ![t] = w]
          /\ \E n \in 1 .. Len(TIMEOUT_LIST) + 1 :
                /\ n <= Len(TIMEOUT_LIST) => w < wakeup_time[TIMEOUT_LIST[n]]
                /\ \A m \in 1 .. n - 1 : ~ (w < wakeup_time[TIMEOUT_LIST[m]])
                /\ TIMEOUT_LIST' = InsertBefore(TIMEOUT_LIST, n, t)
      BY <2>2 DEF sleep_releasing, sched_register_timeout
    <3>2. PICK n \in 1 .. Len(TIMEOUT_LIST) + 1 :
             /\ n <= Len(TIMEOUT_LIST) => w < wakeup_time[TIMEOUT_LIST[n]]
             /\ \A m \in 1 .. n - 1 : ~ (w < wakeup_time[TIMEOUT_LIST[m]])
             /\ TIMEOUT_LIST' = InsertBefore(TIMEOUT_LIST, n, t)
      BY <3>1
    <3>3. w \in 0 .. NO_TIMEOUT /\ w # NO_TIMEOUT
      <4>1. clock \in 0 .. MaxClock /\ clock \in Nat /\ timeout \in Nat
        BY ConstantFacts DEF IInv, TypeOK
      <4>2. w < NO_TIMEOUT
        BY <3>1, <4>1, TimerAssumption
      <4>3. w \in Nat
        BY <4>1, ConstantFacts
      <4> QED  BY <4>2, <4>3, ConstantFacts
    <3> HIDE DEF w
    <3>4. /\ TIMEOUT_LIST \in Seq(Threads) /\ Distinct(TIMEOUT_LIST)
          /\ t \notin Members(TIMEOUT_LIST)
      BY <1>0 DEF IInv, TypeOK, TimeoutInv
    <3>5. /\ TIMEOUT_LIST' \in Seq(Threads)
          /\ Len(TIMEOUT_LIST') = Len(TIMEOUT_LIST) + 1
          /\ \A m \in 1 .. Len(TIMEOUT_LIST') :
                TIMEOUT_LIST'[m] = IF m < n THEN TIMEOUT_LIST[m]
                                   ELSE IF m = n THEN t ELSE TIMEOUT_LIST[m - 1]
          /\ Members(TIMEOUT_LIST') = Members(TIMEOUT_LIST) \cup {t}
          /\ Distinct(TIMEOUT_LIST')
      BY <1>0, <3>2, <3>4, InsertMembers
    <3>6. /\ wakeup_time' \in [TCBs -> 0 .. NO_TIMEOUT]
          /\ wakeup_time'[t] = w
          /\ \A u \in Threads : u # t => wakeup_time'[u] = wakeup_time[u]
      BY <1>0, <3>1, <3>3, ConstantFacts DEF IInv, TypeOK
    <3>7. \A m \in 1 .. Len(TIMEOUT_LIST) :
             /\ TIMEOUT_LIST[m] \in Threads /\ TIMEOUT_LIST[m] # t
             /\ wakeup_time'[TIMEOUT_LIST[m]] = wakeup_time[TIMEOUT_LIST[m]]
             /\ wakeup_time[TIMEOUT_LIST[m]] \in 0 .. NO_TIMEOUT
      <4>1. \A m \in 1 .. Len(TIMEOUT_LIST) :
               TIMEOUT_LIST[m] \in Threads /\ TIMEOUT_LIST[m] # t
        BY <3>4 DEF Members
      <4> QED  BY <3>6, <4>1, ConstantFacts DEF IInv, TypeOK
    <3>8. ASSUME NEW k \in 1 .. Len(TIMEOUT_LIST'),
                 NEW m \in 1 .. Len(TIMEOUT_LIST'), k < m
          PROVE  wakeup_time'[TIMEOUT_LIST'[k]] <= wakeup_time'[TIMEOUT_LIST'[m]]
      <4>1. Len(TIMEOUT_LIST) \in Nat
        BY <3>4
      <4>2. \A i, j \in 1 .. Len(TIMEOUT_LIST) : i < j =>
               wakeup_time[TIMEOUT_LIST[i]] <= wakeup_time[TIMEOUT_LIST[j]]
        BY DEF IInv, TimeoutInv
      <4>3. CASE m < n
        <5>1. k \in 1 .. Len(TIMEOUT_LIST) /\ m \in 1 .. Len(TIMEOUT_LIST)
              /\ k < n
          BY <3>2, <3>5, <3>8, <4>1, <4>3
        <5> QED  BY <3>5, <3>7, <3>8, <4>2, <4>3, <5>1
      <4>4. CASE m = n
        <5>1. k \in 1 .. Len(TIMEOUT_LIST) /\ k < n /\ k \in 1 .. n - 1
          BY <3>2, <3>5, <3>8, <4>1, <4>4
        <5>2. wakeup_time[TIMEOUT_LIST[k]] <= w
          BY <3>2, <3>3, <3>7, <5>1
        <5>3. TIMEOUT_LIST'[m] = t /\ TIMEOUT_LIST'[k] = TIMEOUT_LIST[k]
          BY <3>5, <4>4, <5>1
        <5> QED  BY <3>6, <3>7, <5>1, <5>2, <5>3
      <4>5. CASE m > n /\ k = n
        <5>1. m - 1 \in 1 .. Len(TIMEOUT_LIST) /\ n \in 1 .. Len(TIMEOUT_LIST)
              /\ n <= m - 1 /\ ~ (m < n) /\ m # n
          BY <3>2, <3>5, <3>8, <4>1, <4>5
        <5>2. w < wakeup_time[TIMEOUT_LIST[n]]
          BY <3>2, <5>1
        <5>3. wakeup_time[TIMEOUT_LIST[n]] <= wakeup_time[TIMEOUT_LIST[m - 1]]
          BY <3>7, <4>2, <5>1
        <5>4. TIMEOUT_LIST'[k] = t /\ TIMEOUT_LIST'[m] = TIMEOUT_LIST[m - 1]
          BY <3>5, <4>5, <5>1
        <5>5. /\ wakeup_time'[TIMEOUT_LIST'[k]] = w
              /\ wakeup_time'[TIMEOUT_LIST'[m]] = wakeup_time[TIMEOUT_LIST[m - 1]]
          BY <3>6, <3>7, <5>1, <5>4
        <5>6. /\ wakeup_time[TIMEOUT_LIST[n]] \in 0 .. NO_TIMEOUT
              /\ wakeup_time[TIMEOUT_LIST[m - 1]] \in 0 .. NO_TIMEOUT
          BY <3>7, <5>1
        <5>7. w <= wakeup_time[TIMEOUT_LIST[m - 1]]
          <6> DEFINE x == wakeup_time[TIMEOUT_LIST[n]]
                     y == wakeup_time[TIMEOUT_LIST[m - 1]]
          <6>1. x \in Int /\ y \in Int /\ w \in Int /\ w < x /\ x <= y
            BY <3>3, <5>2, <5>3, <5>6, ConstantFacts
          <6> HIDE DEF x, y
          <6>2. w <= y
            BY <6>1
          <6> QED  BY <6>2 DEF y
        <5> QED  BY <5>5, <5>7
      <4>6. CASE m > n /\ k # n
        <5> DEFINE i == IF k < n THEN k ELSE k - 1
        <5>1. /\ m - 1 \in 1 .. Len(TIMEOUT_LIST) /\ i \in 1 .. Len(TIMEOUT_LIST)
              /\ i < m - 1 /\ ~ (m < n) /\ m # n
          BY <3>2, <3>5, <3>8, <4>1, <4>6
        <5>2. TIMEOUT_LIST'[k] = TIMEOUT_LIST[i]
              /\ TIMEOUT_LIST'[m] = TIMEOUT_LIST[m - 1]
          BY <3>5, <4>6, <5>1
        <5> HIDE DEF i
        <5>3. wakeup_time[TIMEOUT_LIST[i]] <= wakeup_time[TIMEOUT_LIST[m - 1]]
          BY <4>2, <5>1
        <5> QED  BY <3>7, <5>1, <5>2, <5>3
      <4> QED  BY <3>2, <3>5, <3>8, <4>1, <4>3, <4>4, <4>5, <4>6
    <3>9. \A u \in Threads :
             /\ u \in Members(TIMEOUT_LIST') <=> wakeup_time'[u] # NO_TIMEOUT
             /\ wakeup_time'[u] # NO_TIMEOUT => state'[u] = "STOPPED"
      <4>1. state'[t] = "STOPPED" /\ \A u \in Threads : u # t =>
                                        state'[u] = state[u]
        BY <1>0, <1>u, <3>1, ConstantFacts DEF IInv, TypeOK
      <4>2. \A u \in Threads :
               /\ u \in Members(TIMEOUT_LIST) <=> wakeup_time[u] # NO_TIMEOUT
               /\ wakeup_time[u] # NO_TIMEOUT => state[u] = "STOPPED"
        BY DEF IInv, TimeoutInv
      <4> QED  BY <1>0, <3>3, <3>5, <3>6, <4>1, <4>2
    <3> QED  BY <3>5, <3>6, <3>8, <3>9 DEF TimeoutInv
  <2> QED  BY <2>1, <2>2
<1>1. TypeOK'
  BY <1>0, <1>u, <1>t DEF IInv, TypeOK, haltVars, States, CorePCs
<1>2. CoresInv'
  <2>1. CoreInv(c)'
    BY <1>0, <1>u DEF IInv, TypeOK, CoresInv, CoreInv
  <2>2. ASSUME NEW d \in Cores, d # c PROVE CoreInv(d)'
    BY <1>0, <1>u, <2>2 DEF IInv, TypeOK, CoresInv, CoreInv
  <2> QED  BY <2>1, <2>2 DEF CoresInv
<1>3. HoldInv'
  BY <1>u DEF IInv, HoldInv, Holds
<1>4. RestInv'
  BY <1>0, <1>u DEF IInv, TypeOK, RestInv, Held, Holds
<1>5. IdleInv'
  BY <1>0, <1>u, ConstantFacts DEF IInv, TypeOK, IdleInv
<1>6. QueueInv'
  <2>1. \A u \in Threads : Waiting(u)' <=> Waiting(u)
    BY <1>0, <1>u, ConstantFacts DEF IInv, TypeOK, Waiting, Held, Holds
  <2> QED  BY <1>u, <2>1 DEF IInv, QueueInv
<1> QED  BY <1>t, <1>1, <1>2, <1>3, <1>4, <1>5, <1>6 DEF IInv

\* The rest of yield(): the choice of the next thread.
LEMMA SelectPreserves ==
    ASSUME IInv, NEW c \in Cores, SelectNext(c)
    PROVE  IInv'
<1> DEFINE t == current[c]
           next == current'[c]
<1>0. /\ t \in TCBs /\ Holds(c, t) /\ Held(t) /\ ~ Waiting(t)
      /\ cpc[c] = "expire" /\ previous[c] = t
      /\ phase[t] = "CTX_DIRTY" /\ ~ saved[t]
      /\ state[t] \in {"READY", "STOPPED", "EXITED"}
      /\ \A d \in Cores : d # c => t \notin {current[d], previous[d]}
  BY HeldFacts DEF IInv, CoresInv, CoreInv, HoldInv, Held, Holds, Waiting,
     SelectNext
<1>u. /\ previous' = [previous EXCEPT ![c] = t]
      /\ cpc' = [cpc EXCEPT ![c] = IF next = t THEN "gain" ELSE "swap"]
      /\ UNCHANGED <<state, phase, priority, wakeup_time, curr_cause, saved,
                     TIMEOUT_LIST, cause, yield_counter, active_threads,
                     haltVars, clock>>
  BY DEF SelectNext, tcbVars
\* The next thread is ready and, unless it is the current one, at rest.
<1>n. /\ next \in TCBs
      /\ current' = [current EXCEPT ![c] = next]
      /\ state[next] = "READY"
      /\ next # t => ~ Held(next)
      /\ next \in Cores => next = c
      /\ SCHED' \in [Priorities -> Seq(Threads)]
      /\ \A p \in Priorities : /\ Distinct(SCHED'[p])
                               /\ Members(SCHED'[p]) = Members(SCHED[p]) \ {next}
  <2>1. CASE \E p \in Priorities :
                /\ SelectedQueue(p)
                /\ current' = [current EXCEPT ![c] = Head(SCHED[p])]
                /\ SCHED' = [SCHED EXCEPT ![p] = Tail(@)]
    <3>1. PICK p \in Priorities :
                /\ SelectedQueue(p)
                /\ current' = [current EXCEPT ![c] = Head(SCHED[p])]
                /\ SCHED' = [SCHED EXCEPT ![p] = Tail(SCHED[p])]
      BY <2>1
    <3>2. /\ SCHED \in [Priorities -> Seq(Threads)]
          /\ \A q \in Priorities : SCHED[q] \in Seq(Threads) /\ Distinct(SCHED[q])
          /\ SCHED[p] # <<>>
      BY <3>1 DEF IInv, TypeOK, QueueInv, SelectedQueue
    <3>3. /\ Head(SCHED[p]) \in Threads
          /\ Head(SCHED[p]) \in Members(SCHED[p])
          /\ Tail(SCHED[p]) \in Seq(Threads)
          /\ Members(Tail(SCHED[p])) = Members(SCHED[p]) \ {Head(SCHED[p])}
          /\ Distinct(Tail(SCHED[p]))
      BY <3>2, TailMembers
    <3>4. next = Head(SCHED[p]) /\ current' = [current EXCEPT ![c] = next]
      BY <3>1 DEF IInv, TypeOK
    <3>5. Waiting(next) /\ priority[next] = p
      BY <3>3, <3>4 DEF IInv, QueueInv
    <3>6. \A q \in Priorities : q # p => next \notin Members(SCHED[q])
      BY <3>3, <3>4, <3>5 DEF IInv, QueueInv
    <3>7. ASSUME NEW q \in Priorities
          PROVE  /\ Distinct(SCHED'[q])
                 /\ Members(SCHED'[q]) = Members(SCHED[q]) \ {next}
      <4>1. CASE q = p
        BY <3>1, <3>2, <3>3, <3>4, <4>1
      <4>2. CASE q # p
        BY <3>1, <3>2, <3>6, <4>2
      <4> QED  BY <4>1, <4>2
    <3>8. SCHED' \in [Priorities -> Seq(Threads)]
      BY <3>1, <3>2, <3>3
    <3> QED
      BY <3>3, <3>4, <3>5, <3>7, <3>8, ConstantFacts DEF Waiting
  <2>2. CASE /\ current' = [current EXCEPT ![c] =
                               IF state[t] = "READY" THEN t ELSE IdleThread(c)]
             /\ \A p \in Priorities : SCHED[p] = <<>>
             /\ UNCHANGED SCHED
    <3>1. next = (IF state[t] = "READY" THEN t ELSE IdleThread(c))
          /\ current' = [current EXCEPT ![c] = next]
      BY <2>2 DEF IInv, TypeOK
    <3>2. \A p \in Priorities : Members(SCHED[p]) = {} /\ Distinct(SCHED[p])
      BY <2>2 DEF Members, Distinct
    <3>3. t \in Cores => t = c
      BY <1>0, ConstantFacts DEF IInv, HoldInv
    <3>4. CASE state[t] = "READY"
      BY <1>0, <2>2, <3>1, <3>2, <3>3, <3>4 DEF IInv, TypeOK
    <3>5. CASE state[t] # "READY"
      <4>1. next = c /\ c \in TCBs
        BY <3>1, <3>5, ConstantFacts
      <4>2. t # c
        BY <1>0, <3>5, ConstantFacts DEF IInv, IdleInv
      <4>3. ~ Held(c)
        <5>1. ASSUME NEW d \in Cores, Holds(d, c) PROVE FALSE
          <6>1. d = c
            BY <5>1, ConstantFacts DEF IInv, HoldInv
          <6> QED  BY <1>0, <4>2, <5>1, <6>1 DEF Holds
        <5> QED  BY <5>1 DEF Held
      <4>4. state[c] = "READY"
        BY <4>3, <4>1, ConstantFacts DEF IInv, IdleInv, RestInv
      <4> QED  BY <2>2, <3>1, <3>2, <4>1, <4>2, <4>3, <4>4 DEF IInv, TypeOK
    <3> QED  BY <3>4, <3>5
  <2> QED  BY <2>1, <2>2 DEF SelectNext
<1> HIDE DEF next
<1>r. next # t => /\ phase[next] = "CTX_CLEAN" /\ saved[next]
                  /\ \A d \in Cores : next \notin {current[d], previous[d]}
  BY <1>n DEF IInv, RestInv, Held, Holds
<1>c. /\ current'[c] = next /\ previous'[c] = t
      /\ \A d \in Cores : d # c => /\ current'[d] = current[d]
                                   /\ previous'[d] = previous[d]
                                   /\ cpc'[d] = cpc[d]
      /\ cpc'[c] = IF next = t THEN "gain" ELSE "swap"
  BY <1>n, <1>u DEF IInv, TypeOK
<1>1. TypeOK'
  BY <1>0, <1>n, <1>u DEF IInv, TypeOK, haltVars, CorePCs
<1>2. CoresInv'
  <2>1. CoreInv(c)'
    BY <1>0, <1>n, <1>u, <1>r, <1>c DEF CoreInv
  <2>2. ASSUME NEW d \in Cores, d # c PROVE CoreInv(d)'
    <3>1. CoreInv(d)
      BY DEF IInv, CoresInv
    <3> QED  BY <1>u, <1>c, <2>2, <3>1 DEF CoreInv
  <2> QED  BY <2>1, <2>2 DEF CoresInv
<1>h. \A d \in Cores : \A u \in TCBs :
         Holds(d, u)' <=> Holds(d, u) \/ (d = c /\ u = next)
  BY <1>0, <1>c DEF Holds
<1>3. HoldInv'
  BY <1>0, <1>n, <1>r, <1>h, ConstantFacts DEF IInv, HoldInv, Held
<1>4. RestInv'
  BY <1>h, <1>u DEF IInv, RestInv, Held
<1>5. IdleInv'
  BY <1>u DEF IInv, IdleInv
<1>6. QueueInv'
  <2>1. \A u \in Threads : Held(u)' <=> Held(u) \/ u = next
    BY <1>h, ConstantFacts DEF Held
  <2>2. \A u \in Threads : Waiting(u)' <=> Waiting(u) /\ u # next
    BY <1>u, <2>1 DEF Waiting
  <2> QED  BY <1>n, <1>u, <2>2 DEF IInv, QueueInv
<1>7. TimeoutInv'
  BY <1>u DEF IInv, TimeoutInv
<1> QED  BY <1>1, <1>2, <1>3, <1>4, <1>5, <1>6, <1>7 DEF IInv

\* gain()
LEMMA GainPreserves ==
    ASSUME IInv, NEW c \in Cores, Gain(c)
    PROVE  IInv'
<1> DEFINE t == current[c]
           prev == previous[c]
<1>0. /\ t \in TCBs /\ prev \in TCBs /\ Holds(c, t) /\ Holds(c, prev)
      /\ Held(t) /\ Held(prev) /\ ~ Waiting(t) /\ ~ Waiting(prev)
      /\ cpc[c] = "gain" /\ CoreInv(c)
      /\ t \in Cores => t = c
      /\ prev \in Cores => prev = c
      /\ \A d \in Cores : d # c => /\ current[d] \notin {t, prev}
                                   /\ previous[d] \notin {t, prev}
  BY HeldFacts, ConstantFacts DEF IInv, CoresInv, HoldInv, Held, Holds, Waiting,
     Gain
<1>u. /\ previous' = [previous EXCEPT ![c] = t]
      /\ cpc' = [cpc EXCEPT ![c] = "run"]
      /\ \A u \in TCBs : phase'[u] = IF u = t THEN "CTX_DIRTY"
                                     ELSE IF u = prev THEN "CTX_CLEAN"
                                     ELSE phase[u]
      /\ phase' \in [TCBs -> Phases]
      /\ UNCHANGED <<wakeup_time, saved, TIMEOUT_LIST, current, cause,
                     yield_counter, clock>>
  <2>1. phase' = [u \in TCBs |-> CASE u = t -> "CTX_DIRTY"
                                   [] u = prev /\ u # t -> "CTX_CLEAN"
                                   [] OTHER -> phase[u]]
    BY DEF Gain
  <2>2. \A u \in TCBs : phase[u] \in Phases
    BY DEF IInv, TypeOK
  <2>3. \A u \in TCBs : phase'[u] = IF u = t THEN "CTX_DIRTY"
                                    ELSE IF u = prev THEN "CTX_CLEAN"
                                    ELSE phase[u]
    BY <2>1
  <2>4. phase' \in [TCBs -> Phases]
    BY <2>1, <2>2, <2>3 DEF Phases
  <2> QED  BY <2>3, <2>4 DEF Gain
\* What the switch over the state of the previous thread does.
<1>s. /\ state' \in [TCBs -> States]
      /\ state'[t] = "RUNNING"
      /\ \A u \in TCBs : u \notin {t, prev} => state'[u] = state[u]
      /\ prev # t => /\ state[prev] = "EXITED" => state'[prev] = "NONE"
                     /\ state[prev] # "EXITED" => state'[prev] = state[prev]
      /\ priority' \in [TCBs -> Priorities]
      /\ \A u \in TCBs : u # prev => priority'[u] = priority[u]
      /\ state[prev] # "EXITED" => priority' = priority
      /\ curr_cause' \in [TCBs -> Causes]
      /\ active_threads' \in Int
      /\ SCHED' \in [Priorities -> Seq(Threads)]
      /\ halt_vector' \subseteq Cores /\ idle_pc' \in [Cores -> IdlePCs]
      /\ \A p \in Priorities :
            /\ Distinct(SCHED'[p])
            /\ Members(SCHED'[p]) =
                  IF /\ p = priority[prev] /\ t # prev
                     /\ state[prev] = "READY" /\ prev \notin Cores
                  THEN Members(SCHED[p]) \cup {prev} ELSE Members(SCHED[p])
  <2>0. \A p \in Priorities : Distinct(SCHED[p])
    BY DEF IInv, QueueInv
  <2>1. CASE t # prev /\ state[prev] = "READY" /\ prev \notin Cores
    <3>1. /\ state' = [state EXCEPT ![t] = "RUNNING"]
          /\ sched_queue_add(prev)
          /\ UNCHANGED <<priority, curr_cause, active_threads>>
      BY <2>1 DEF Gain
    <3>2. prev \in Threads /\ priority[prev] \in Priorities
      BY <1>0, <2>1, ConstantFacts DEF IInv, TypeOK
    <3>3. /\ SCHED' \in [Priorities -> Seq(Threads)]
          /\ halt_vector' \subseteq Cores /\ idle_pc' \in [Cores -> IdlePCs]
          /\ \A p \in Priorities : /\ Distinct(SCHED'[p])
                                   /\ Members(SCHED'[p]) =
                                        IF p = priority[prev]
                                        THEN Members(SCHED[p]) \cup {prev}
                                        ELSE Members(SCHED[p])
      BY <1>0, <3>1, <3>2, QueueAddEffect
    <3> QED  BY <1>0, <2>1, <3>1, <3>3 DEF IInv, TypeOK, States
  <2>2. CASE t # prev /\ state[prev] = "EXITED"
    <3>1. /\ state' = [state EXCEPT ![t] = "RUNNING", ![prev] = "NONE"]
          /\ priority' = [priority EXCEPT ![prev] = 0]
          /\ curr_cause' = [curr_cause EXCEPT ![prev] = "IDLE"]
          /\ active_threads' = active_threads - 1
          /\ UNCHANGED <<SCHED, haltVars>>
      BY <2>2 DEF Gain
    <3>2. 0 \in Priorities /\ "IDLE" \in Causes
      BY ConstantFacts DEF Priorities, Causes
    <3>3. /\ state' \in [TCBs -> States]
          /\ state'[t] = "RUNNING" /\ state'[prev] = "NONE"
          /\ \A u \in TCBs : u \notin {t, prev} => state'[u] = state[u]
      BY <1>0, <2>2, <3>1 DEF IInv, TypeOK, States
    <3>4. /\ priority' \in [TCBs -> Priorities]
          /\ \A u \in TCBs : u # prev => priority'[u] = priority[u]
          /\ curr_cause' \in [TCBs -> Causes]
      BY <1>0, <3>1, <3>2 DEF IInv, TypeOK
    <3>5. /\ active_threads' \in Int
          /\ SCHED' \in [Priorities -> Seq(Threads)]
          /\ halt_vector' \subseteq Cores /\ idle_pc' \in [Cores -> IdlePCs]
      BY <3>1 DEF IInv, TypeOK, haltVars
    <3>6. UNCHANGED SCHED
      BY <3>1
    <3> QED  BY <2>0, <2>2, <3>3, <3>4, <3>5, <3>6
  <2>3. CASE \/ t = prev
             \/ state[prev] = "STOPPED"
             \/ state[prev] = "READY" /\ prev \in Cores
    <3>1. /\ state' = [state EXCEPT ![t] = "RUNNING"]
          /\ UNCHANGED <<SCHED, priority, curr_cause, active_threads, haltVars>>
      BY <2>3 DEF Gain
    <3> QED  BY <1>0, <2>0, <2>3, <3>1 DEF IInv, TypeOK, States, haltVars
  <2> QED  BY <1>0, <2>1, <2>2, <2>3 DEF CoreInv
<1>1. TypeOK'
  BY <1>0, <1>u, <1>s DEF IInv, TypeOK, CorePCs
<1>c. /\ current'[c] = t /\ previous'[c] = t /\ cpc'[c] = "run"
      /\ \A d \in Cores : d # c => /\ current'[d] = current[d]
                                   /\ previous'[d] = previous[d]
                                   /\ cpc'[d] = cpc[d]
  BY <1>u DEF IInv, TypeOK
<1>2. CoresInv'
  <2>1. CoreInv(c)'
    BY <1>0, <1>u, <1>s, <1>c DEF CoreInv
  <2>2. ASSUME NEW d \in Cores, d # c PROVE CoreInv(d)'
    <3>1. CoreInv(d) /\ current[d] \in TCBs /\ previous[d] \in TCBs
      BY DEF IInv, TypeOK, CoresInv
    <3>2. /\ state'[current[d]] = state[current[d]]
          /\ phase'[current[d]] = phase[current[d]]
          /\ state'[previous[d]] = state[previous[d]]
          /\ phase'[previous[d]] = phase[previous[d]]
      BY <1>0, <1>u, <1>s, <2>2, <3>1
    <3> QED  BY <1>u, <1>c, <2>2, <3>1, <3>2 DEF CoreInv
  <2> QED  BY <2>1, <2>2 DEF CoresInv
<1>h. \A d \in Cores : \A u \in TCBs :
         Holds(d, u)' <=> Holds(d, u) /\ ~ (d = c /\ u = prev /\ u # t)
  BY <1>0, <1>c DEF Holds
<1>3. HoldInv'
  BY <1>h, ConstantFacts DEF IInv, HoldInv
<1>e. \A u \in TCBs : Held(u)' <=> Held(u) /\ ~ (u = prev /\ u # t)
  BY <1>0, <1>h DEF Held, Holds
<1>4. RestInv'
  <2>1. ASSUME NEW u \in TCBs, ~ Held(u)'
        PROVE  /\ phase'[u] = "CTX_CLEAN" /\ saved'[u]
               /\ state'[u] \in {"NONE", "INIT", "READY", "STOPPED"}
    <3>1. CASE u = prev /\ u # t
      BY <1>0, <1>u, <1>s, <3>1 DEF CoreInv
    <3>2. CASE ~ Held(u)
      <4>1. u # t /\ u # prev
        BY <1>0, <3>2
      <4> QED  BY <1>u, <1>s, <3>2, <4>1 DEF IInv, RestInv
    <3> QED  BY <1>e, <2>1, <3>1, <3>2
  <2> QED  BY <2>1 DEF RestInv
<1>5. IdleInv'
  BY <1>0, <1>s, ConstantFacts DEF IInv, IdleInv
<1>6. QueueInv'
  <2>1. ASSUME NEW u \in Threads
        PROVE  Waiting(u)' <=> \/ Waiting(u)
                               \/ u = prev /\ t # prev /\ state[prev] = "READY"
    <3>0. u \in TCBs
      BY ConstantFacts
    <3>1. CASE u \notin {t, prev}
      BY <1>u, <1>s, <1>e, <3>0, <3>1 DEF Waiting
    <3>2. CASE u = t
      BY <1>0, <1>s, <3>2 DEF Waiting
    <3>3. CASE u = prev /\ u # t
      BY <1>0, <1>u, <1>s, <1>e, <3>0, <3>3 DEF Waiting, CoreInv
    <3> QED  BY <3>1, <3>2, <3>3
  <2>2. ASSUME NEW p \in Priorities, NEW u \in Threads
        PROVE  u \in Members(SCHED'[p]) <=> Waiting(u)' /\ priority'[u] = p
    <3>1. u \in Members(SCHED[p]) <=> Waiting(u) /\ priority[u] = p
      BY DEF IInv, QueueInv
    <3>2. u \in Members(SCHED'[p]) <=>
             \/ u \in Members(SCHED[p])
             \/ /\ u = prev /\ p = priority[prev] /\ t # prev
                /\ state[prev] = "READY"
      BY <1>s, ConstantFacts
    <3>3. CASE u = prev
      BY <1>0, <1>s, <2>1, <3>1, <3>2, <3>3
    <3>4. CASE u # prev
      BY <1>s, <2>1, <3>1, <3>2, <3>4, ConstantFacts
    <3> QED  BY <3>3, <3>4
  <2> QED  BY <1>s, <2>2 DEF QueueInv
<1>7. TimeoutInv'
  <2>1. ASSUME NEW u \in Threads, wakeup_time[u] # NO_TIMEOUT
        PROVE  state'[u] = "STOPPED"
    <3>1. state[u] = "STOPPED" /\ u \in TCBs
      BY <2>1, ConstantFacts DEF IInv, TimeoutInv
    <3>2. u # t
      BY <1>0, <3>1 DEF CoreInv
    <3> QED  BY <1>s, <3>1, <3>2
  <2> QED  BY <1>u, <2>1 DEF IInv, TimeoutInv
<1> QED  BY <1>1, <1>2, <1>3, <1>4, <1>5, <1>6, <1>7 DEF IInv

-----------------------------------------------------------------------------
(* The theorems.                                                           *)

\* Every step keeps the invariant.
LEMMA NextPreservesIInv == IInv /\ [Next]_vars => IInv'
<1> SUFFICES ASSUME IInv, [Next]_vars PROVE IInv'
  OBVIOUS
<1>t. NO_TIMEOUT \in 0 .. NO_TIMEOUT /\ Timeouts \subseteq 0 .. NO_TIMEOUT
      /\ SleepCauses \subseteq Causes
  <2>1. NO_TIMEOUT \in 0 .. NO_TIMEOUT
    BY ConstantFacts
  <2>2. Timeouts \subseteq 0 .. NO_TIMEOUT
    BY TimerAssumption
  <2> QED  BY <2>1, <2>2, ConstantsAssumption
<1>1. ASSUME NEW c \in Cores, KernelStep(c) PROVE IInv'
  <2>1. CASE YieldSleeping(c)
    <3>1. cause[c] \in Causes /\ idle_pc' \in [Cores -> IdlePCs]
      BY <2>1 DEF IInv, TypeOK, YieldSleeping
    <3> QED  BY <2>1, <3>1, EnterYieldPreserves DEF YieldSleeping
  <2>2. CASE YieldQuantum(c)
    <3>1. "QUANTUM" \in Causes /\ idle_pc' \in [Cores -> IdlePCs]
      BY <2>2 DEF IInv, TypeOK, YieldQuantum, Causes
    <3> QED  BY <2>2, <3>1, EnterYieldPreserves DEF YieldQuantum
  <2>3. CASE WakeupExpired(c)
    <3> DEFINE t == Head(TIMEOUT_LIST)
    <3>1. TIMEOUT_LIST \in Seq(Threads) /\ TIMEOUT_LIST # <<>>
          /\ Distinct(TIMEOUT_LIST)
      BY <2>3 DEF IInv, TypeOK, TimeoutInv, WakeupExpired, HeadExpired
    <3>2. t \in Threads /\ t \in Members(TIMEOUT_LIST)
      BY <3>1, TailMembers
    <3>3. state[t] = "STOPPED"
      BY <3>2 DEF IInv, TimeoutInv
    <3> QED  BY <2>3, <3>2, <3>3, MakeReadyPreserves DEF WakeupExpired
  <2> QED
    BY <1>1, <2>1, <2>2, <2>3, SelectPreserves, SwapPreserves, GainPreserves
    DEF KernelStep
<1>2. ASSUME NEW c \in Cores, ThreadStep(c) PROVE IInv'
  <2>1. ASSUME NEW u \in Threads, wakeup(c, u) PROVE IInv'
    BY <2>1, MakeReadyPreserves DEF wakeup
  <2>2. CASE Block(c)
    <3>1. PICK why \in SleepCauses, d \in Timeouts :
             sleep_releasing(c, "STOPPED", why, d)
      BY <2>2 DEF Block
    <3> QED  BY <1>t, <3>1, SleepPreserves
  <2>3. CASE Exit(c)
    <3>1. "USER" \in Causes
      BY DEF Causes
    <3> QED  BY <1>t, <2>3, <3>1, SleepPreserves DEF Exit
  <2>4. CASE YieldMutex(c)
    <3>1. "MUTEX" \in Causes /\ idle_pc' \in [Cores -> IdlePCs]
      BY <2>4 DEF IInv, TypeOK, YieldMutex, Causes
    <3> QED  BY <2>4, <3>1, EnterYieldPreserves DEF YieldMutex
  <2> QED  BY <1>2, <2>1, <2>2, <2>3, <2>4, SpawnPreserves DEF ThreadStep
<1>3. ASSUME NEW c \in Cores, IdleStep(c) \/ IdleAlarm(c) PROVE IInv'
  <2>1. CASE IdleYield(c)
    <3>1. "IDLE" \in Causes /\ idle_pc' \in [Cores -> IdlePCs]
      BY <2>1 DEF IInv, TypeOK, IdleYield, Causes, IdlePCs
    <3> QED
      BY <2>1, <3>1, EnterYieldPreserves DEF IdleYield, IdleAt, Runs
  <2>2. CASE IdleAlarm(c)
    <3>1. "QUANTUM" \in Causes /\ idle_pc' \in [Cores -> IdlePCs]
      BY <2>2 DEF IInv, TypeOK, IdleAlarm, Causes
    <3> QED
      BY <2>2, <3>1, EnterYieldPreserves DEF IdleAlarm, IdleAt, Runs
  <2>3. CASE IdleCheck(c)
    <3>1. TypeOK'
      BY <2>3 DEF IInv, TypeOK, IdleCheck, idleUnchanged, tcbVars, queueVars,
         CorePCs, IdlePCs
    <3>2. \/ UNCHANGED cpc
          \/ Runs(c, IdleThread(c)) /\ cpc' = [cpc EXCEPT ![c] = "off"]
      BY <2>3 DEF IdleCheck, IdleAt
    <3> QED
      BY <2>3, <3>1, <3>2, IdleStepPreserves DEF IdleCheck, idleUnchanged
  <2>4. CASE HaltSetBit(c) \/ HaltInterrupt(c) \/ HaltClearBit(c)
    <3>0. /\ halt_vector' \in {halt_vector \cup {c}, halt_vector, halt_vector \ {c}}
          /\ idle_pc' \in [Cores -> IdlePCs]
      BY <2>4 DEF IInv, TypeOK, HaltSetBit, HaltInterrupt, HaltClearBit, IdlePCs
    <3>a. UNCHANGED <<tcbVars, queueVars, current, previous, cpc, cause,
                      yield_counter, active_threads, clock>>
      BY <2>4 DEF HaltSetBit, HaltInterrupt, HaltClearBit, idleUnchanged
    <3>1. TypeOK'
      BY <3>0, <3>a DEF IInv, TypeOK, tcbVars, queueVars
    <3> QED
      BY <3>1, <3>a, IdleStepPreserves
  <2> QED  BY <1>3, <2>1, <2>2, <2>3, <2>4 DEF IdleStep
<1>4. CASE Tick
  <2>1. TypeOK'
    BY <1>4, ConstantFacts DEF IInv, TypeOK, Tick, tcbVars, queueVars, coreVars,
       haltVars
  <2> QED  BY <1>4, <2>1, IdleStepPreserves DEF Tick, coreVars
<1>5. CASE UNCHANGED vars
  <2>1. TypeOK'
    BY <1>5 DEF IInv, TypeOK, vars, tcbVars, queueVars, coreVars, haltVars
  <2> QED  BY <1>5, <2>1, IdleStepPreserves DEF vars, coreVars
<1> QED  BY <1>1, <1>2, <1>3, <1>4, <1>5 DEF Next, CoreStep, Halted

\* The inductive invariant holds in every reachable state.
THEOREM InductiveInvariant == Spec => []IInv
<1>1. Init => IInv
  BY InitEstablishesIInv
<1>2. IInv /\ [Next]_vars => IInv'
  BY NextPreservesIInv
<1> QED  BY <1>1, <1>2, PTL DEF Spec

\* The scheduler's data keep their types: no priority leaves the range of
\* SCHED, and every list holds threads.
THEOREM TypeCorrect == Spec => []TypeOK
<1>1. IInv => TypeOK
  BY DEF IInv
<1> QED  BY <1>1, InductiveInvariant, PTL

\* A thread is in the scheduler queue of its priority, once, if and only if it
\* is READY, CTX_CLEAN and not yet chosen by a core: kernel_sched.h.
THEOREM QueueCorrect == Spec => []QueueInvariant
<1>1. IInv => QueueInvariant
  <2> SUFFICES ASSUME IInv PROVE QueueInvariant
    OBVIOUS
  <2>1. ASSUME NEW t \in Threads
        PROVE  Queued(t) <=> /\ state[t] = "READY" /\ phase[t] = "CTX_CLEAN"
                             /\ \A c \in Cores : current[c] # t
    <3>1. priority[t] \in Priorities
      BY ConstantFacts DEF IInv, TypeOK
    <3>2. Queued(t) <=> Waiting(t)
      BY <3>1 DEF IInv, QueueInv, Queued
    <3>3. Waiting(t) => \A c \in Cores : current[c] # t
      BY DEF Waiting, Held, Holds
    <3>4. ASSUME phase[t] = "CTX_CLEAN", \A c \in Cores : current[c] # t
          PROVE  ~ Held(t)
      BY <3>4 DEF IInv, TypeOK, CoresInv, CoreInv, CorePCs, Held, Holds
    <3> QED  BY <3>2, <3>3, <3>4 DEF Waiting
  <2>2. ASSUME NEW p \in Priorities, NEW n \in 1 .. Len(SCHED[p])
        PROVE  /\ priority[SCHED[p][n]] = p
               /\ \A m \in 1 .. Len(SCHED[p]) :
                     SCHED[p][m] = SCHED[p][n] => m = n
    <3>1. SCHED[p][n] \in Threads /\ SCHED[p][n] \in Members(SCHED[p])
      BY DEF IInv, TypeOK, Members
    <3> QED  BY <3>1 DEF IInv, QueueInv, Distinct
  <2> QED  BY <2>1, <2>2 DEF QueueInvariant
<1> QED  BY <1>1, InductiveInvariant, PTL

\* A core switches only to a saved context, and no thread is in the hands of
\* two cores: what Thread_phase is for.
THEOREM ContextsSafe == Spec => []ContextSafe
<1>1. IInv => ContextSafe
  <2>1. IInv => \A c \in Cores : cpc[c] = "swap" => saved[current[c]]
    BY DEF IInv, CoresInv, CoreInv
  <2> QED  BY <2>1 DEF IInv, HoldInv, ContextSafe
<1> QED  BY <1>1, InductiveInvariant, PTL

\* TIMEOUT_LIST is sorted, holds exactly the threads with a wakeup time, and
\* shares no thread with SCHED.
THEOREM TimeoutsCorrect == Spec => []TimeoutInvariant
<1>1. IInv => TimeoutInvariant
  <2> SUFFICES ASSUME IInv PROVE TimeoutInvariant
    OBVIOUS
  <2>1. TIMEOUT_LIST \in Seq(Threads)
    BY DEF IInv, TypeOK
  <2>2. \A t \in Members(TIMEOUT_LIST) : t \in Threads
    BY <2>1 DEF Members
  <2>3. ASSUME NEW t \in Members(TIMEOUT_LIST)
        PROVE  state[t] = "STOPPED" /\ ~ Queued(t)
    <3>1. t \in Threads /\ state[t] = "STOPPED"
      BY <2>2 DEF IInv, TimeoutInv
    <3> QED  BY <3>1 DEF IInv, QueueInv, Queued, Waiting
  <2>4. \A n, m \in 1 .. Len(TIMEOUT_LIST) : n < m => n # m
    BY <2>1
  <2> QED  BY <2>3, <2>4 DEF IInv, TimeoutInv, TimeoutInvariant, Distinct
<1> QED  BY <1>1, InductiveInvariant, PTL

\* The assertions of gain(), sched_make_ready() and run_scheduler() hold.
THEOREM AssertionsCorrect == Spec => []AssertionsHold
<1>1. IInv => AssertionsHold
  <2> SUFFICES ASSUME IInv, NEW c \in Cores
               PROVE  /\ cpc[c] = "gain" /\ current[c] # previous[c] =>
                            state[previous[c]] \in {"READY", "STOPPED", "EXITED"}
                      /\ cpc[c] = "expire" /\ HeadExpired =>
                            state[Head(TIMEOUT_LIST)] = "STOPPED"
                      /\ cpc[c] = "off" => current[c] = IdleThread(c)
    BY DEF AssertionsHold
  <2>1. CoreInv(c)
    BY DEF IInv, CoresInv
  <2>2. ASSUME HeadExpired PROVE state[Head(TIMEOUT_LIST)] = "STOPPED"
    <3>1. TIMEOUT_LIST \in Seq(Threads) /\ TIMEOUT_LIST # <<>>
          /\ Distinct(TIMEOUT_LIST)
      BY <2>2 DEF IInv, TypeOK, TimeoutInv, HeadExpired
    <3>2. /\ Head(TIMEOUT_LIST) \in Threads
          /\ Head(TIMEOUT_LIST) \in Members(TIMEOUT_LIST)
      BY <3>1, TailMembers
    <3> QED  BY <3>2 DEF IInv, TimeoutInv
  <2> QED  BY <2>1, <2>2 DEF CoreInv
<1> QED  BY <1>1, InductiveInvariant, PTL

-----------------------------------------------------------------------------
(* The cores leave the scheduler after the last thread.                    *)

Allocated == {t \in Threads : state[t] # "NONE"}

\* active_threads is what its name says, and stays at zero once a core has
\* found it there: only an allocated thread calls spawn_thread().
CountInv ==
    /\ active_threads = Cardinality(Allocated)
    /\ (\E c \in Cores : cpc[c] = "off") => Allocated = {}

\* The control blocks are finitely many.
LEMMA AllocatedFinite == IsFiniteSet(Allocated)
<1>1. Allocated \in SUBSET Threads /\ IsFiniteSet(Threads)
  BY ConstantsAssumption DEF Allocated
<1> QED  BY <1>1, FS_Subset

\* At the boot the one thread is counted.
LEMMA InitCounts == Init => CountInv
<1> SUFFICES ASSUME Init PROVE CountInv
  OBVIOUS
<1>1. Allocated = {InitThread}
  BY ConstantFacts DEF Init, Allocated
<1>2. Cardinality({InitThread}) = 1
  BY FS_Singleton
<1>3. \A c \in Cores : cpc[c] = "run"
  BY DEF Init
<1> QED  BY <1>1, <1>2, <1>3 DEF Init, CountInv

\* A step that allocates and releases no thread.
LEMMA SameAllocation ==
    ASSUME CountInv,
           \A t \in Threads : state'[t] = "NONE" <=> state[t] = "NONE",
           UNCHANGED active_threads,
           \A c \in Cores : cpc'[c] = "off" =>
              cpc[c] = "off" \/ Allocated = {}
    PROVE  CountInv'
<1>1. Allocated' = Allocated
  BY DEF Allocated
<1> QED  BY <1>1 DEF CountInv

\* spawn_thread() counts the thread it makes.
LEMMA SpawnCounts ==
    ASSUME IInv, CountInv, NEW c \in Cores, NEW u \in Threads,
           spawn_thread(c, u)
    PROVE  CountInv'
<1>1. /\ state' = [state EXCEPT ![u] = "INIT"] /\ state[u] = "NONE"
      /\ active_threads' = active_threads + 1 /\ cpc' = cpc
      /\ cpc[c] = "run" /\ current[c] \in Threads
  BY DEF spawn_thread, InitializeTCB, coreVars
<1>2. state \in [TCBs -> States] /\ u \in TCBs
  BY ConstantFacts DEF IInv, TypeOK
<1>3. Allocated' = Allocated \cup {u} /\ u \notin Allocated
  BY <1>1, <1>2, ConstantFacts DEF Allocated
<1>4. current[c] \in Allocated
  BY <1>1 DEF IInv, CoresInv, CoreInv, Allocated
<1>5. Cardinality(Allocated \cup {u}) = Cardinality(Allocated) + 1
  BY <1>3, AllocatedFinite, FS_AddElement
<1> QED  BY <1>1, <1>3, <1>4, <1>5 DEF CountInv

\* gain() counts the thread that exited.
LEMMA GainCounts ==
    ASSUME IInv, CountInv, NEW c \in Cores, Gain(c)
    PROVE  CountInv'
<1> DEFINE t == current[c]
           prev == previous[c]
<1>1. /\ state \in [TCBs -> States] /\ t \in TCBs /\ prev \in TCBs
      /\ cpc \in [Cores -> CorePCs]
  BY DEF IInv, TypeOK
<1>2. cpc' = [cpc EXCEPT ![c] = "run"]
  BY DEF Gain
<1>3. state[t] = "READY"
  BY DEF Gain, IInv, CoresInv, CoreInv
<1>4. CASE state' = [state EXCEPT ![t] = "RUNNING"] /\ UNCHANGED active_threads
  <2>1. \A u \in Threads : state'[u] = "NONE" <=> state[u] = "NONE"
    BY <1>1, <1>3, <1>4, ConstantFacts
  <2>2. \A d \in Cores : cpc'[d] = "off" => cpc[d] = "off"
    BY <1>1, <1>2
  <2> QED  BY <1>4, <2>1, <2>2, SameAllocation
<1>5. CASE /\ t # prev /\ state[prev] = "EXITED"
           /\ state' = [state EXCEPT ![t] = "RUNNING", ![prev] = "NONE"]
           /\ active_threads' = active_threads - 1
  <2>1. prev \in Threads
    BY <1>1, <1>5, ConstantFacts DEF IInv, IdleInv
  <2>2. Allocated' = Allocated \ {prev} /\ prev \in Allocated
    BY <1>1, <1>3, <1>5, <2>1, ConstantFacts DEF Allocated
  <2>3. Cardinality(Allocated \ {prev}) = Cardinality(Allocated) - 1
    BY <2>2, AllocatedFinite, FS_RemoveElement
  <2>4. \A d \in Cores : cpc'[d] = "off" => cpc[d] = "off"
    BY <1>1, <1>2
  <2> QED  BY <1>5, <2>2, <2>3, <2>4 DEF CountInv
<1> QED  BY <1>4, <1>5 DEF Gain

\* Every step keeps the count exact.
LEMMA NextCounts == IInv /\ CountInv /\ [Next]_vars => CountInv'
<1> SUFFICES ASSUME IInv, CountInv, [Next]_vars PROVE CountInv'
  OBVIOUS
<1>t. /\ state \in [TCBs -> States] /\ cpc \in [Cores -> CorePCs]
      /\ current \in [Cores -> TCBs] /\ TIMEOUT_LIST \in Seq(Threads)
  BY DEF IInv, TypeOK
\* One field of one allocated thread changes, and no core leaves.
<1>s. ASSUME NEW t \in TCBs, state[t] # "NONE", NEW v, v # "NONE",
             state' = [state EXCEPT ![t] = v], UNCHANGED active_threads,
             \A d \in Cores : cpc'[d] = "off" => cpc[d] = "off"
      PROVE  CountInv'
  <2>1. \A u \in Threads : state'[u] = "NONE" <=> state[u] = "NONE"
    BY <1>s, <1>t, ConstantFacts
  <2> QED  BY <1>s, <2>1, SameAllocation
<1>y. ASSUME NEW c \in Cores, NEW why, EnterYield(c, why),
             cpc[c] \in {"run", "sleep"}
      PROVE  CountInv'
  <2> DEFINE t == current[c]
             v == IF state[t] = "RUNNING" THEN "READY" ELSE state[t]
  <2>1. t \in TCBs /\ state[t] \in {"RUNNING", "READY", "STOPPED", "EXITED"}
    BY <1>t, <1>y DEF IInv, CoresInv, CoreInv
  <2>2. state' = [state EXCEPT ![t] = v] /\ UNCHANGED active_threads
    BY <1>y DEF EnterYield
  <2>3. \A d \in Cores : cpc'[d] = "off" => cpc[d] = "off"
    BY <1>t, <1>y DEF EnterYield
  <2>4. v # "NONE"
    BY <2>1
  <2> HIDE DEF t, v
  <2> QED  BY <1>s, <2>1, <2>2, <2>3, <2>4
<1>1. ASSUME NEW c \in Cores, KernelStep(c) PROVE CountInv'
  <2>1. CASE YieldSleeping(c)
    BY <1>y, <2>1 DEF YieldSleeping
  <2>2. CASE YieldQuantum(c)
    BY <1>y, <2>2 DEF YieldQuantum
  <2>3. CASE WakeupExpired(c)
    <3> DEFINE t == Head(TIMEOUT_LIST)
    <3>1. TIMEOUT_LIST # <<>> /\ Distinct(TIMEOUT_LIST)
      BY <2>3 DEF WakeupExpired, HeadExpired, IInv, TimeoutInv
    <3>2. t \in Threads /\ t \in Members(TIMEOUT_LIST)
      BY <1>t, <3>1, TailMembers
    <3>3. state[t] = "STOPPED" /\ t \in TCBs
      BY <3>2, ConstantFacts DEF IInv, TimeoutInv
    <3>4. /\ state' = [state EXCEPT ![t] = "READY"]
          /\ UNCHANGED <<active_threads, cpc>>
      BY <2>3 DEF WakeupExpired, sched_make_ready, coreVars
    <3> QED  BY <1>s, <3>3, <3>4
  <2>4. CASE SelectNext(c)
    <3>1. UNCHANGED <<state, active_threads>>
      BY <2>4 DEF SelectNext, tcbVars
    <3>2. \A d \in Cores : cpc'[d] = "off" => cpc[d] = "off"
      BY <1>t, <2>4 DEF SelectNext
    <3> QED  BY <3>1, <3>2, SameAllocation
  <2>5. CASE SwapContext(c)
    <3>1. UNCHANGED <<state, active_threads>>
      BY <2>5 DEF SwapContext
    <3>2. \A d \in Cores : cpc'[d] = "off" => cpc[d] = "off"
      BY <1>t, <2>5 DEF SwapContext
    <3> QED  BY <3>1, <3>2, SameAllocation
  <2> QED  BY <1>1, <2>1, <2>2, <2>3, <2>4, <2>5, GainCounts DEF KernelStep
<1>2. ASSUME NEW c \in Cores, ThreadStep(c) PROVE CountInv'
  <2>1. ASSUME NEW u \in Threads, wakeup(c, u) PROVE CountInv'
    <3>1. /\ state[u] \in {"STOPPED", "INIT"} /\ u \in TCBs
          /\ state' = [state EXCEPT ![u] = "READY"]
          /\ UNCHANGED <<active_threads, cpc>>
      BY <2>1, ConstantFacts DEF wakeup, sched_make_ready, coreVars
    <3> QED  BY <1>s, <3>1
  <2>2. ASSUME NEW newstate \in {"STOPPED", "EXITED"}, NEW why, NEW d,
               sleep_releasing(c, newstate, why, d)
        PROVE  CountInv'
    <3> DEFINE t == current[c]
    <3>1. /\ t \in TCBs /\ state[t] = "RUNNING"
          /\ state' = [state EXCEPT ![t] = newstate]
          /\ UNCHANGED active_threads
      BY <2>2, ConstantFacts DEF sleep_releasing, IInv, CoresInv, CoreInv
    <3>2. \A e \in Cores : cpc'[e] = "off" => cpc[e] = "off"
      BY <1>t, <2>2 DEF sleep_releasing
    <3> QED  BY <1>s, <3>1, <3>2
  <2>3. CASE Block(c)
    BY <2>2, <2>3 DEF Block
  <2>4. CASE Exit(c)
    BY <2>2, <2>4 DEF Exit
  <2>5. CASE YieldMutex(c)
    BY <1>y, <2>5 DEF YieldMutex
  <2> QED  BY <1>2, <2>1, <2>3, <2>4, <2>5, SpawnCounts DEF ThreadStep
<1>3. ASSUME NEW c \in Cores, IdleStep(c) \/ IdleAlarm(c) PROVE CountInv'
  <2>1. CASE IdleYield(c)
    BY <1>y, <2>1 DEF IdleYield, IdleAt, Runs
  <2>2. CASE IdleAlarm(c)
    BY <1>y, <2>2 DEF IdleAlarm, IdleAt, Runs
  <2>3. CASE IdleCheck(c)
    <3>1. UNCHANGED <<state, active_threads>>
      BY <2>3 DEF IdleCheck, idleUnchanged, tcbVars
    <3>2. CASE UNCHANGED cpc
      BY <3>1, <3>2, SameAllocation
    <3>3. CASE active_threads <= 0
      <4>1. Cardinality(Allocated) \in Nat
        BY AllocatedFinite, FS_CardinalityType
      <4>2. Cardinality(Allocated) = 0
        BY <3>3, <4>1 DEF CountInv
      <4>3. Allocated = {}
        BY <4>2, AllocatedFinite, FS_EmptySet
      <4> QED  BY <3>1, <4>3, SameAllocation
    <3> QED  BY <2>3, <3>2, <3>3 DEF IdleCheck
  <2>4. CASE HaltSetBit(c) \/ HaltInterrupt(c) \/ HaltClearBit(c)
    <3>1. UNCHANGED <<state, active_threads, cpc>>
      BY <2>4 DEF HaltSetBit, HaltInterrupt, HaltClearBit, idleUnchanged,
         tcbVars
    <3> QED  BY <3>1, SameAllocation
  <2> QED  BY <1>3, <2>1, <2>2, <2>3, <2>4 DEF IdleStep
<1>4. CASE Tick \/ UNCHANGED vars
  <2>1. UNCHANGED <<state, active_threads, cpc>>
    BY <1>4 DEF Tick, vars, tcbVars, coreVars
  <2> QED  BY <2>1, SameAllocation
<1> QED  BY <1>1, <1>2, <1>3, <1>4 DEF Next, CoreStep, Halted

\* run_scheduler() returns on a core only when every thread has been released:
\* idle_thread() may trust active_threads, which it reads without a lock.
THEOREM NobodyLeftBehind == Spec => []NoThreadLeftBehind
<1>1. Init => CountInv
  BY InitCounts
<1>2. IInv /\ CountInv /\ [Next]_vars => CountInv'
  BY NextCounts
<1>3. CountInv => NoThreadLeftBehind
  BY DEF CountInv, Allocated, NoThreadLeftBehind
<1> QED  BY <1>1, <1>2, <1>3, InductiveInvariant, PTL DEF Spec

=============================================================================
