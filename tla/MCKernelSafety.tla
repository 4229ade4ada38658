--------------------------- MODULE MCKernelSafety ---------------------------
(***************************************************************************)
(* Two parts of the kernel for TLC, each by itself (workload): the cores   *)
(* under the scheduler, and the sockets of a process in every order of     *)
(* calls.                                                                  *)
(***************************************************************************)
EXTENDS Scheduler, Sockets

VARIABLE workload

KernelSafetyInit == workload = "none" /\ Init /\ SocketsInit

RunCores ==
    /\ workload \in {"none", "cores"} /\ workload' = "cores"
    /\ Next
    /\ UNCHANGED socketVars

RunSockets ==
    /\ workload \in {"none", "sockets"} /\ workload' = "sockets"
    /\ SocketsNext
    /\ UNCHANGED vars

\* Sockets may stop: their bounds are used up, or a call has crashed.
SocketsStop ==
    /\ workload = "sockets"
    /\ UNCHANGED <<workload, vars, socketVars>>

KernelSafetySpec ==
    KernelSafetyInit
    /\ [][RunCores \/ RunSockets \/ SocketsStop]_<<workload, vars, socketVars>>
=============================================================================
