------------------------------ MODULE MCKernel ------------------------------
(***************************************************************************)
(* Two layers of the kernel, each by itself (workload), for what must      *)
(* happen in the end: the locks of kernel_cc.c under threads that go on    *)
(* making system calls, and the cores of kernel_sched.c around the end of  *)
(* the last thread.                                                        *)
(***************************************************************************)
EXTENDS KernelCC

CONSTANTS t1, t2, cond,
          SchedThreads, InitThread, NCORES, PhysicalCores, PRIORITY_QUEUES,
          MAX_QUANTUMS, SleepCauses, Timeouts, TimerMod, MaxClock

VARIABLES workload,
          sched_state, phase, priority, wakeup_time, curr_cause, saved,
          SCHED, TIMEOUT_LIST, cpc, current, previous, sched_cause,
          yield_counter, active_threads, halt_vector, idle_pc, clock

MCThreads2 == {t1, t2}
MCCVs == {cond}

S == INSTANCE Scheduler WITH
        Threads <- SchedThreads, state <- sched_state, cause <- sched_cause

schedVars ==
    <<sched_state, phase, priority, wakeup_time, curr_cause, saved,
      SCHED, TIMEOUT_LIST, cpc, current, previous, sched_cause,
      yield_counter, active_threads, halt_vector, idle_pc, clock>>

KernelInit == workload = "none" /\ Init /\ S!Init

RunLocks ==
    /\ workload \in {"none", "locks"} /\ workload' = "locks"
    /\ Next \/ Quiet
    /\ UNCHANGED schedVars

RunCores ==
    /\ workload \in {"none", "cores"} /\ workload' = "cores"
    /\ S!Next
    /\ UNCHANGED vars

\* S!Fairness, for the behaviours in which the cores run
CoresFairness ==
    \A core \in S!Cores :
        /\ SF_schedVars(workload = "cores" /\ S!KernelStep(core))
        /\ SF_schedVars(workload = "cores" /\ S!IdleStep(core))

\* A thread that has not entered the kernel has no step that Fairness is about.
KernelSpec ==
    /\ KernelInit /\ [][RunLocks \/ RunCores]_<<workload, vars, schedVars>>
    /\ Fairness /\ CoresFairness

\* See Scheduler: when the last thread has ended, every core leaves
\* idle_thread(), halted or not.
CoresLeave == S!CoresLeave
=============================================================================
