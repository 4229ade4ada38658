------------------------------ MODULE Monitor ------------------------------
(***************************************************************************)
(* What the locking of kernel_cc.c promises to the system calls: the       *)
(* kernel is a monitor.  At most one thread is inside; kernel_wait() leaves *)
(* the monitor and comes back only after a thread inside has signalled or  *)
(* a timeout has passed, and only when the monitor is free.  The models of *)
(* the system calls (Pipe, ThreadLife, Processes) are written in terms of it. *)
(***************************************************************************)
CONSTANTS Threads, Nobody

VARIABLES owner,   \* the thread inside
          place    \* where each thread is

monitorVars == <<owner, place>>

MonitorInit == /\ owner = Nobody
               /\ place = [t \in Threads |-> "outside"]

Enter(t) == /\ owner = Nobody
            /\ place[t] \in {"outside", "awake"}
            /\ owner' = t
            /\ place' = [place EXCEPT ![t] = "inside"]

Exit(t) == /\ owner = t
           /\ owner' = Nobody
           /\ \E where \in {"outside", "waiting", "timedwaiting"} :
                 place' = [place EXCEPT ![t] = where]

Signal(t) == /\ owner = t
             /\ \E u \in Threads :
                   /\ place[u] \in {"waiting", "timedwaiting"}
                   /\ place' = [place EXCEPT ![u] = "awake"]
             /\ UNCHANGED owner

TimedOut(t) == /\ place[t] = "timedwaiting"
               /\ place' = [place EXCEPT ![t] = "awake"]
               /\ UNCHANGED owner

MonitorNext == \E t \in Threads : Enter(t) \/ Exit(t) \/ Signal(t) \/ TimedOut(t)

MonitorSpec == MonitorInit /\ [][MonitorNext]_monitorVars

=============================================================================
