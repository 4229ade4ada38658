------------------------------- MODULE MCIpc -------------------------------
(***************************************************************************)
(* The two ways in which processes exchange bytes, each by itself          *)
(* (workload): a pipe, and the sockets of a process.                       *)
(***************************************************************************)
EXTENDS Pipe, Sockets

VARIABLE workload

CONSTANTS t1, t2, b1, b2

MCThreads2 == {t1, t2}
MCBytes == {b1, b2}

ipcVars == <<workload, vars, socketVars>>

IpcInit ==
    /\ workload \in {"pipe", "sockets"}
    /\ Init /\ SocketsInit
    /\ workload = "sockets" => BUFFER = [i \in Slots |-> b1]

RunPipe ==
    /\ workload = "pipe"
    /\ Next \/ Gone
    /\ UNCHANGED <<workload, socketVars>>

RunSockets ==
    /\ workload = "sockets"
    /\ SocketsNext
    /\ UNCHANGED <<workload, vars>>

\* In the initial state no call has begun: the fairness of each is about the
\* one that runs.
IpcSpec ==
    /\ IpcInit /\ [][RunPipe \/ RunSockets]_ipcVars
    /\ Fairness /\ SocketsFairness
=============================================================================
