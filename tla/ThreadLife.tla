----------------------------- MODULE ThreadLife -----------------------------
(***************************************************************************)
(* The threads of one process: CreateThread(), ThreadJoin(),               *)
(* ThreadDetach() and ThreadExit() of kernel_threads.c and the reference   *)
(* counts of their PTCBs.                                                  *)
(*                                                                         *)
(* A Tid_t is the address of a PTCB, so a tid that was freed may come back *)
(* as another thread.  A call runs inside the kernel's monitor (module     *)
(* Monitor) from its start, or from the return of kernel_wait(), to its    *)
(* end or to the next kernel_wait(): that is one action.                   *)
(***************************************************************************)
EXTENDS Integers, FiniteSets

CONSTANTS Tids,       \* addresses of PTCBs
          MainTid,    \* the PTCB sys_Exec() made for the main thread
          ExitVals,
          NoTid       \* NULL

ASSUME ThreadAssumption == /\ MainTid \in Tids
                           /\ NoTid \notin Tids
                           /\ IsFiniteSet(Tids)

VARIABLES
    nthreads,   \* PCB.thread_count
    ptcb,       \* "unused" memory, "listed" in ptcb_list, or "freed"
    exited, detached, refcount, exitval,   \* fields of the PTCB
    at,         \* its thread: "none", "running", asleep in a "join",
                \* "woken" from it, "exited"
    target,     \* the tid a thread is joining, or joined last
    result      \* what its last ThreadJoin() returned: "none", "error" or
                \* the exit value

ptcbVars == <<ptcb, exited, detached, refcount, exitval>>
callVars == <<at, target, result>>
threadLifeVars == <<nthreads, ptcbVars, callVars>>

Blocked(t, u) == at[t] \in {"join", "woken"} /\ target[t] = u

\* sys_Exec() made the main thread, and counted its PTCB twice.
ThreadsInit ==
    /\ nthreads = 1
    /\ ptcb = [u \in Tids |-> IF u = MainTid THEN "listed" ELSE "unused"]
    /\ exited = [u \in Tids |-> FALSE]
    /\ detached = [u \in Tids |-> FALSE]
    /\ refcount = [u \in Tids |-> IF u = MainTid THEN 2 ELSE 0]
    /\ exitval \in [Tids -> ExitVals]
    /\ at = [u \in Tids |-> IF u = MainTid THEN "running" ELSE "none"]
    /\ target = [u \in Tids |-> NoTid]
    /\ result = [u \in Tids |-> "none"]

-----------------------------------------------------------------------------

\* A new PTCB, in the memory malloc() happens to return.
acquire_PTCB(u) ==
    /\ ptcb[u] # "listed"
    /\ ptcb' = [ptcb EXCEPT ![u] = "listed"]
    /\ exited' = [exited EXCEPT ![u] = FALSE]
    /\ detached' = [detached EXCEPT ![u] = FALSE]
    /\ refcount' = [refcount EXCEPT ![u] = 1]
    /\ UNCHANGED exitval

\* sys_CreateThread(); the new thread has not called anything yet.
sys_CreateThread(t, u) ==
    /\ at[t] = "running"
    /\ acquire_PTCB(u)
    /\ nthreads' = nthreads + 1
    /\ at' = [at EXCEPT ![u] = "running"]
    /\ target' = [target EXCEPT ![u] = NoTid]
    /\ result' = [result EXCEPT ![u] = "none"]

\* The end of sys_ThreadJoin(), behind its loop; count is the refcount that
\* includes the caller.
FinishJoin(t, u, count) ==
    /\ at' = [at EXCEPT ![t] = "running"]
    /\ refcount' = [refcount EXCEPT ![u] = count - 1]
    /\ \/ /\ detached[u]
          /\ result' = [result EXCEPT ![t] = "error"]
          /\ UNCHANGED ptcb
       \/ /\ ~ detached[u]
          /\ result' = [result EXCEPT ![t] = exitval[u]]
          /\ ptcb' = IF count = 1 THEN [ptcb EXCEPT ![u] = "freed"] ELSE ptcb
    /\ UNCHANGED <<nthreads, exited, detached, exitval>>

\* sys_ThreadJoin() up to kernel_wait(), or to its end when there is nothing
\* to wait for.
sys_ThreadJoin(t, u) ==
    /\ at[t] = "running"
    /\ target' = [target EXCEPT ![t] = u]
    /\ \/ /\ ptcb[u] # "listed" \/ u = t \/ detached[u]
          /\ result' = [result EXCEPT ![t] = "error"]
          /\ UNCHANGED <<nthreads, ptcbVars, at>>
       \/ /\ ptcb[u] = "listed" /\ u # t /\ ~ detached[u]
          /\ \/ /\ ~ exited[u]
                /\ refcount' = [refcount EXCEPT ![u] = @ + 1]
                /\ at' = [at EXCEPT ![t] = "join"]
                /\ UNCHANGED <<nthreads, ptcb, exited, detached, exitval, result>>
             \/ /\ exited[u]
                /\ FinishJoin(t, u, refcount[u] + 1)

\* The return of kernel_wait() in sys_ThreadJoin().
JoinResume(t) ==
    LET u == target[t]
    IN  /\ at[t] = "woken"
        /\ \/ /\ ~ exited[u] /\ ~ detached[u]
              /\ at' = [at EXCEPT ![t] = "join"]
              /\ UNCHANGED <<nthreads, ptcbVars, result>>
           \/ /\ exited[u] \/ detached[u]
              /\ FinishJoin(t, u, refcount[u])
        /\ UNCHANGED target

\* Faulty variant: only one of the threads that join is told.
SignalOne(p, u) ==
    LET asleep == {t \in Tids : p[t] = "join" /\ target[t] = u}
    IN  IF asleep = {} THEN p
        ELSE [p EXCEPT ![CHOOSE t \in asleep : TRUE] = "woken"]

\* kernel_broadcast(&ptcb->exit_cv)
JoinersWoken(p, u) == [t \in Tids |-> IF p[t] = "join" /\ target[t] = u
                               THEN "woken" ELSE p[t]]

\* sys_ThreadDetach(), which fails for a tid that is not listed or exited.
sys_ThreadDetach(t, u) ==
    /\ at[t] = "running"
    /\ ptcb[u] = "listed" /\ ~ exited[u]
    /\ detached' = [detached EXCEPT ![u] = TRUE]
    /\ at' = JoinersWoken(at, u)
    /\ UNCHANGED <<nthreads, ptcb, exited, refcount, exitval,
                   target, result>>

\* Faulty variant: the list of PTCBs is freed when the main thread exits.
FreeWithMain(t) == t = MainTid

\* if(thread_count == 0): the last thread frees the PTCBs.
LastThread(t) == nthreads = 1

\* sys_ThreadExit(), by ThreadExit(), Exit() or the return of the thread's
\* function.  The rest of the end of a process is in module Processes.
sys_ThreadExit(t, v) ==
    /\ at[t] = "running"
    /\ exitval' = [exitval EXCEPT ![t] = v]
    /\ nthreads' = nthreads - 1
    /\ refcount' = [refcount EXCEPT ![t] = @ - 1]
    /\ exited' = [exited EXCEPT ![t] = TRUE]
    /\ at' = [JoinersWoken(at, t) EXCEPT ![t] = "exited"]
    /\ ptcb' = IF LastThread(t)
               THEN [u \in Tids |-> IF ptcb[u] = "listed" THEN "freed" ELSE ptcb[u]]
               ELSE ptcb
    /\ UNCHANGED <<detached, target, result>>

ThreadsNext == \E t \in Tids : \/ JoinResume(t)
                        \/ \E v \in ExitVals : sys_ThreadExit(t, v)
                        \/ \E u \in Tids : \/ sys_CreateThread(t, u)
                                           \/ sys_ThreadJoin(t, u)
                                           \/ sys_ThreadDetach(t, u)

\* The process has ended, or its threads all wait for each other.
Stuck == /\ \A t \in Tids : at[t] \notin {"running", "woken"}
         /\ UNCHANGED threadLifeVars

\* A thread that was woken up gets the kernel's monitor in the end.
ThreadsFairness == \A t \in Tids : WF_threadLifeVars(JoinResume(t))

ThreadsSpec == ThreadsInit /\ [][ThreadsNext \/ Stuck]_threadLifeVars /\ ThreadsFairness

-----------------------------------------------------------------------------
(* Properties.                                                             *)

(* The fields of the PTCBs of a process are well typed; no refcount drops   *)
(* below zero in sys_ThreadJoin() or sys_ThreadExit().                      *)
ThreadsTypeOK ==
    /\ nthreads \in Nat
    /\ ptcb \in [Tids -> {"unused", "listed", "freed"}]
    /\ exited \in [Tids -> BOOLEAN]
    /\ detached \in [Tids -> BOOLEAN]
    /\ refcount \in [Tids -> Nat]
    /\ exitval \in [Tids -> ExitVals]
    /\ at \in [Tids -> {"none", "running", "join", "woken", "exited"}]
    /\ target \in [Tids -> Tids \cup {NoTid}]
    /\ result \in [Tids -> ExitVals \cup {"none", "error"}]

Live(t) == at[t] \in {"running", "join", "woken"}

\* A PTCB is not freed while its thread runs or a thread sleeps in its
\* exit_cv, whoever else joins, detaches or exits in the meantime.
\* For this its refcount counts the thread itself and the threads that join
\* it; the main thread's is one too high.
PTCBsAlive ==
    \A u \in Tids :
       /\ Live(u) \/ (\E t \in Tids : Blocked(t, u)) => ptcb[u] = "listed"
       /\ ptcb[u] = "listed" =>
             refcount[u] = Cardinality({t \in Tids : Blocked(t, u)})
                           + (IF exited[u] THEN 0 ELSE 1)
                           + (IF u = MainTid THEN 1 ELSE 0)

\* thread_count counts the threads that have not exited, and when it is 0
\* no PTCB is left behind.
ThreadsCounted ==
    /\ nthreads = Cardinality({t \in Tids : Live(t)})
    /\ nthreads = 0 => \A u \in Tids : ptcb[u] # "listed"

\* No sequence of creations, joins, detachments and exits spoils the PTCBs.
ThreadsInvariant == ThreadsTypeOK /\ PTCBsAlive /\ ThreadsCounted

\* "If these threads block, then all must return the exit status correctly"
\* (tinyos.h, ThreadJoin()): every thread that is blocked when its target
\* exits returns that exit value, every other one when it is detached fails,
\* whatever happens to the PTCB before the thread gets to run.
JoinReturnsOrWaits ==
    \A t, u \in Tids : Blocked(t, u) /\ (exited[u] \/ detached[u]) =>
        \/ /\ at'[t] = "running"
           /\ result'[t] = IF detached[u] THEN "error" ELSE exitval[u]
        \/ /\ Blocked(t, u)'
           /\ detached'[u] = detached[u]
           /\ exited[u] => exited'[u] /\ exitval'[u] = exitval[u]

\* No such thread stays blocked, and each returns what became of its target.
AllJoinersReturn ==
    /\ \A t \in Tids :
          []<>~ \E u \in Tids : Blocked(t, u) /\ (exited[u] \/ detached[u])
    /\ [][JoinReturnsOrWaits]_threadLifeVars

=============================================================================
