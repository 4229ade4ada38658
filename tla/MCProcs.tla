------------------------------ MODULE MCProcs ------------------------------
(***************************************************************************)
(* The processes, and the threads of one of them, each by itself           *)
(* (workload).                                                             *)
(***************************************************************************)
EXTENDS Processes, ThreadLife

VARIABLE workload

CONSTANTS t1, t2, t3, t4, m, a, b, v

MCThreads4 == {t1, t2, t3, t4}
MCTids == {m, a, b}
MCExitVal == {v}

procsVars == <<workload, vars, threadLifeVars>>

ProcsInit == workload = "none" /\ Init /\ ThreadsInit

RunProcesses ==
    /\ workload \in {"none", "processes"} /\ workload' = "processes"
    /\ Next \/ Down
    /\ UNCHANGED threadLifeVars

RunThreads ==
    /\ workload \in {"none", "threads"} /\ workload' = "threads"
    /\ ThreadsNext \/ Stuck
    /\ UNCHANGED vars

\* In the initial state nobody waits for anything: the fairness of each is
\* about the one that runs.
ProcsSpec ==
    /\ ProcsInit /\ [][RunProcesses \/ RunThreads]_procsVars
    /\ Fairness /\ ThreadsFairness
=============================================================================
