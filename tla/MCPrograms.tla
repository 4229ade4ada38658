----------------------------- MODULE MCPrograms -----------------------------
(***************************************************************************)
(* The programs around the kernel, each by itself (workload).  On tinyos:  *)
(* the shell with its pipelines, the symposium, the threads of the cyclic  *)
(* join test, the remote server.  On the host: the virtual machine with a  *)
(* terminal emulator, the test harness, whose daemons play the terminal.   *)
(* On either: calls on lists in any order.                                 *)
(***************************************************************************)
EXTENDS Pipeline, Symposium, Barrier, RemoteServer, Rings,
        Terminals, Harness

VARIABLE workload

CONSTANTS c1, c2

MCClients2 == {c1, c2}

programVars ==
    <<workload, pipelineVars, symposiumVars, barrierVars, serverVars,
      ringVars, terminalVars, harnessVars>>

ProgramsInit ==
    /\ workload = "none"
    /\ PipelineInit /\ SymposiumInit /\ BarrierInit /\ ServerInit
    /\ RingsInit /\ TerminalsInit /\ HarnessInit

RunPipeline ==
    /\ workload \in {"none", "pipeline"} /\ workload' = "pipeline"
    /\ PipelineNext
    /\ UNCHANGED <<symposiumVars, barrierVars, serverVars,
                   ringVars, terminalVars, harnessVars>>

RunSymposium ==
    /\ workload \in {"none", "symposium"} /\ workload' = "symposium"
    /\ SymposiumNext
    /\ UNCHANGED <<pipelineVars, barrierVars, serverVars,
                   ringVars, terminalVars, harnessVars>>

RunBarrier ==
    /\ workload \in {"none", "barrier"} /\ workload' = "barrier"
    /\ BarrierNext
    /\ UNCHANGED <<pipelineVars, symposiumVars, serverVars,
                   ringVars, terminalVars, harnessVars>>

RunServer ==
    /\ workload \in {"none", "server"} /\ workload' = "server"
    /\ ServerNext
    /\ UNCHANGED <<pipelineVars, symposiumVars, barrierVars,
                   ringVars, terminalVars, harnessVars>>

RunRings ==
    /\ workload \in {"none", "rings"} /\ workload' = "rings"
    /\ RingsNext
    /\ UNCHANGED <<pipelineVars, symposiumVars, barrierVars,
                   serverVars, terminalVars, harnessVars>>

RunMachine ==
    /\ workload \in {"none", "machine"} /\ workload' = "machine"
    /\ TerminalsNext
    /\ UNCHANGED <<pipelineVars, symposiumVars, barrierVars,
                   serverVars, ringVars, harnessVars>>

RunTest ==
    /\ workload \in {"none", "test"} /\ workload' = "test"
    /\ HarnessNext
    /\ UNCHANGED <<pipelineVars, symposiumVars, barrierVars,
                   serverVars, ringVars, terminalVars>>

ProgramsNext ==
    \/ RunPipeline \/ RunSymposium \/ RunBarrier \/ RunServer
    \/ RunRings \/ RunMachine \/ RunTest

\* A program that has not been started has no step to take, so the fairness
\* of each is about the one that runs.
ProgramsSpec ==
    /\ ProgramsInit /\ [][ProgramsNext]_programVars
    /\ PipelineFairness /\ SymposiumFairness /\ BarrierFairness /\ ServerFairness
    /\ TerminalsFairness /\ HarnessFairness
=============================================================================
