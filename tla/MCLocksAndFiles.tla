-------------------------- MODULE MCLocksAndFiles --------------------------
(***************************************************************************)
(* Two parts of the kernel for TLC, each by itself (workload): the locks   *)
(* of kernel_cc.c, and the calls on streams in any order.                  *)
(***************************************************************************)
EXTENDS KernelCC, Streams

VARIABLE workload

CONSTANTS t1, t2, t3, c1

MCThreads3 == {t1, t2, t3}
MCCVs == {c1}
MCProcs == {1, 2}

Symmetry == Permutations(Threads)

LocksAndFilesInit == workload = "none" /\ Init /\ StreamsInit

RunLocks ==
    /\ workload \in {"none", "locks"} /\ workload' = "locks"
    /\ Next \/ Quiet
    /\ UNCHANGED streamsVars

RunStreams ==
    /\ workload \in {"none", "streams"} /\ workload' = "streams"
    /\ StreamsNext
    /\ UNCHANGED vars

LocksAndFilesSpec ==
    LocksAndFilesInit /\ [][RunLocks \/ RunStreams]_<<workload, vars, streamsVars>>

=============================================================================
