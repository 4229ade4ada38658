------------------------------ MODULE Harness ------------------------------
(***************************************************************************)
(* How unit_testing.c runs one boot test in a process of its own:          *)
(* execute_fork() starts the child and waits for it with a time limit; the *)
(* child starts two daemon threads that play the terminal, runs the        *)
(* machine, and closes the daemons; a pattern that a daemon could not type *)
(* or did not see fails the test.                                          *)
(*                                                                         *)
(* The test itself is arbitrary: it may ask for patterns (sendme(),        *)
(* expect()), read and write the terminal, hang, or end.  A byte on the    *)
(* console is as expected or not.  What is done under the mutex of a       *)
(* daemon is one step.                                                     *)
(***************************************************************************)
EXTENDS Integers, Sequences

CONSTANTS PatternSize,      \* bytes of a pattern
          TerminalFifo,     \* bytes a fifo holds
          MaxOutput,        \* bound on the bytes the test writes
          MaxPatterns       \* bound on the patterns of one daemon that the test
                            \* has asked for and that are not met

ASSUME HarnessAssumption ==
    {PatternSize, TerminalFifo, MaxOutput, MaxPatterns} \subseteq Nat \ {0}

VARIABLES
    parent,             \* where execute_fork() is
    signals,            \* SIGCHLD and SIGALRM pending for the parent
    timer,              \* the alarm of the parent is set
    test,               \* where the child is in boot_test_wrapper()
    pattern,            \* the patterns queued for each daemon
    complete,           \* the complete flags
    daemon, plen,       \* where a daemon is, and what it has still to match
    oldcomplete, have_data,     \* local variables
    screen, keys,       \* the fifos
    written,            \* bytes the test has written
    FLAG_FAILURE,
    unmet               \* patterns asked for and not yet matched or typed

parentVars == <<parent, signals, timer>>
fifoVars == <<screen, keys, written>>
daemonVars == <<pattern, complete, daemon, plen, oldcomplete, have_data, FLAG_FAILURE, unmet>>
harnessVars == <<parentVars, test, fifoVars, daemonVars>>

Daemons == {"con", "kbd"}

HarnessInit ==
    /\ parent = "off" /\ signals = {} /\ timer = FALSE
    /\ test = "none"
    /\ pattern = [d \in Daemons |-> 0]
    /\ complete = [d \in Daemons |-> FALSE]
    /\ daemon = [d \in Daemons |-> "get"]
    /\ plen = [d \in Daemons |-> 0]
    /\ oldcomplete = FALSE /\ have_data = FALSE
    /\ screen = <<>> /\ keys = 0 /\ written = 0
    /\ FLAG_FAILURE = FALSE
    /\ unmet = [d \in Daemons |-> 0]

-----------------------------------------------------------------------------
(* The parent: execute_fork() and run_boot_test().                         *)

Fork ==
    /\ parent = "off"
    /\ parent' = "wait" /\ timer' = TRUE
    /\ test' = "run"
    /\ UNCHANGED <<signals, fifoVars, daemonVars>>

\* The time limit is over.
Expire ==
    /\ timer /\ timer' = FALSE
    /\ signals' = signals \cup {"SIGALRM"}
    /\ UNCHANGED <<parent, test, fifoVars, daemonVars>>

\* Faulty variant: SIGALRM is not in the set that sigwait() waits for.
SigWaitForChild ==
    /\ parent = "wait" /\ "SIGCHLD" \in signals
    /\ signals' = signals \ {"SIGCHLD"}
    /\ parent' = "cancel"
    /\ UNCHANGED <<timer, test, fifoVars, daemonVars>>

\* sigwait(): of two pending signals it takes SIGALRM, of the lower number.
SigWait ==
    LET signo == IF "SIGALRM" \in signals THEN "SIGALRM" ELSE "SIGCHLD" IN
    /\ parent = "wait" /\ signals # {}
    /\ signals' = signals \ {signo}
    /\ parent' = IF signo = "SIGALRM" THEN "kill" ELSE "cancel"
    /\ UNCHANGED <<timer, test, fifoVars, daemonVars>>

\* alarm(0), after SIGCHLD
Cancel ==
    /\ parent = "cancel"
    /\ timer' = FALSE
    /\ parent' = "waitpid"
    /\ UNCHANGED <<signals, test, fifoVars, daemonVars>>

\* kill(pid, SIGTERM), of no effect on a child that has ended
Kill ==
    /\ parent = "kill"
    /\ test' = IF test \in {"exit", "abort"} THEN test ELSE "killed"
    /\ signals' = signals \cup {"SIGCHLD"}
    /\ parent' = "waitpid"
    /\ UNCHANGED <<timer, fifoVars, daemonVars>>

\* waitpid(); when the mask is restored a SIGALRM that is still pending ends
\* the parent, while SIGCHLD is ignored.
WaitPid ==
    /\ parent = "waitpid" /\ test \in {"exit", "abort", "killed"}
    /\ parent' = CASE "SIGALRM" \in signals -> "terminated"
                   [] test = "exit" -> "passed"
                   [] OTHER -> "failed"
    /\ signals' = {}
    /\ UNCHANGED <<timer, test, fifoVars, daemonVars>>

-----------------------------------------------------------------------------
(* The child: boot_test_wrapper() and the test.                            *)

\* term_proxy_daemon_add(), of sendme() or expect(): at any time, behind the
\* patterns that are queued already and the one the daemon works on.
AskPattern(d) ==
    /\ test = "run" /\ ~complete[d]
    /\ unmet[d] < MaxPatterns
    /\ pattern' = [pattern EXCEPT ![d] = @ + 1]
    /\ unmet' = [unmet EXCEPT ![d] = @ + 1]
    /\ UNCHANGED <<parentVars, test, fifoVars, complete, daemon, plen, oldcomplete, have_data, FLAG_FAILURE>>

\* The test writes a byte, as expected or not, or reads one.
Output ==
    /\ test = "run" /\ written < MaxOutput /\ Len(screen) < TerminalFifo
    /\ \E good \in BOOLEAN : screen' = Append(screen, good)
    /\ written' = written + 1
    /\ UNCHANGED <<parentVars, test, keys, daemonVars>>

Input ==
    /\ test = "run" /\ keys > 0
    /\ keys' = keys - 1
    /\ UNCHANGED <<parentVars, test, screen, written, daemonVars>>

\* boot() returns
TestEnds ==
    /\ test = "run"
    /\ test' = "close"
    /\ UNCHANGED <<parentVars, fifoVars, daemonVars>>

\* term_proxy_close(): term_proxy_daemon_close() of con and then of kbd, each
\* of which joins its daemon
CloseDaemon(d) ==
    /\ test = "close" /\ ~complete[d]
    /\ d = "kbd" => daemon["con"] = "ended"
    /\ complete' = [complete EXCEPT ![d] = TRUE]
    /\ UNCHANGED <<parentVars, test, fifoVars, pattern, daemon, plen, oldcomplete, have_data, FLAG_FAILURE, unmet>>

\* The status of the child, and SIGCHLD to its parent
ChildEnds ==
    /\ test = "close" /\ \A d \in Daemons : daemon[d] = "ended"
    /\ test' = IF FLAG_FAILURE THEN "abort" ELSE "exit"
    /\ signals' = signals \cup {"SIGCHLD"}
    /\ UNCHANGED <<parent, timer, fifoVars, daemonVars>>

-----------------------------------------------------------------------------
(* The daemons: term_proxy_daemon(), con_proc() and kbd_proc().            *)

Alive == test \in {"run", "close"}

\* Faulty variant: a daemon that is complete takes no more patterns.
GetUnlessComplete(d) ==
    /\ Alive /\ daemon[d] = "get" /\ (complete[d] \/ pattern[d] > 0)
    /\ IF complete[d]
       THEN /\ daemon' = [daemon EXCEPT ![d] = "ended"]
            /\ UNCHANGED <<pattern, plen>>
       ELSE /\ pattern' = [pattern EXCEPT ![d] = @ - 1]
            /\ plen' = [plen EXCEPT ![d] = PatternSize]
            /\ daemon' = [daemon EXCEPT ![d] = "poll"]
    /\ UNCHANGED <<parentVars, test, fifoVars, complete, oldcomplete, have_data, FLAG_FAILURE, unmet>>

\* term_proxy_daemon_get(): the patterns that are queued come before the end.
Get(d) ==
    /\ Alive /\ daemon[d] = "get" /\ (complete[d] \/ pattern[d] > 0)
    /\ IF pattern[d] = 0
       THEN /\ daemon' = [daemon EXCEPT ![d] = "ended"]
            /\ UNCHANGED <<pattern, plen>>
       ELSE /\ pattern' = [pattern EXCEPT ![d] = @ - 1]
            /\ plen' = [plen EXCEPT ![d] = PatternSize]
            /\ daemon' = [daemon EXCEPT ![d] = "poll"]
    /\ UNCHANGED <<parentVars, test, fifoVars, complete, oldcomplete, have_data, FLAG_FAILURE, unmet>>

\* The end of con_proc() or kbd_proc() with n bytes not matched, or not typed
Finish(d, n) ==
    /\ FLAG_FAILURE' = (FLAG_FAILURE \/ n > 0)
    /\ unmet' = IF n = 0 THEN [unmet EXCEPT ![d] = @ - 1] ELSE unmet
    /\ plen' = [plen EXCEPT ![d] = 0]
    /\ daemon' = [daemon EXCEPT ![d] = "get"]

\* con_proc(): poll(), which tells after 100 ms that there is nothing
ConPoll ==
    /\ Alive /\ daemon["con"] = "poll"
    /\ have_data' = (screen # <<>>)
    /\ daemon' = [daemon EXCEPT !["con"] = "check"]
    /\ UNCHANGED <<parentVars, test, fifoVars, pattern, complete, plen, oldcomplete, FLAG_FAILURE, unmet>>

\* ... and the test whether to poll again, to read, or to give up
ConCheck ==
    /\ Alive /\ daemon["con"] = "check"
    /\ IF ~have_data /\ complete["con"]
       THEN Finish("con", plen["con"])
       ELSE /\ daemon' = [daemon EXCEPT !["con"] = IF have_data THEN "read" ELSE "poll"]
            /\ UNCHANGED <<plen, FLAG_FAILURE, unmet>>
    /\ UNCHANGED <<parentVars, test, fifoVars, pattern, complete, oldcomplete, have_data>>

\* What read() returns: no more than the pattern has left
Chunk == SubSeq(screen, 1, IF Len(screen) < plen["con"] THEN Len(screen) ELSE plen["con"])

ConRead ==
    LET rest == plen["con"] - Len(Chunk)
        matched == \A i \in 1 .. Len(Chunk) : Chunk[i]
    IN
    /\ Alive /\ daemon["con"] = "read"
    /\ screen' = SubSeq(screen, Len(Chunk) + 1, Len(screen))
    /\ CASE ~matched -> Finish("con", plen["con"])
         [] matched /\ rest = 0 -> Finish("con", 0)
         [] OTHER -> /\ plen' = [plen EXCEPT !["con"] = rest]
                     /\ daemon' = [daemon EXCEPT !["con"] = "poll"]
                     /\ UNCHANGED <<FLAG_FAILURE, unmet>>
    /\ UNCHANGED <<parentVars, test, keys, written, pattern, complete, oldcomplete, have_data>>

\* kbd_proc(): poll() for room, unless the test is over; then remember
\* whether it is
KbdPoll ==
    /\ Alive /\ daemon["kbd"] = "poll"
    /\ complete["kbd"] \/ keys < TerminalFifo
    /\ oldcomplete' = complete["kbd"]
    /\ daemon' = [daemon EXCEPT !["kbd"] = "write"]
    /\ UNCHANGED <<parentVars, test, fifoVars, pattern, complete, plen, have_data, FLAG_FAILURE, unmet>>

\* write() of what fits; when nothing does, give up or poll again
KbdWrite ==
    LET n == IF TerminalFifo - keys < plen["kbd"] THEN TerminalFifo - keys ELSE plen["kbd"] IN
    /\ Alive /\ daemon["kbd"] = "write"
    /\ keys' = keys + n
    /\ CASE n = plen["kbd"] -> Finish("kbd", 0)
         [] n < plen["kbd"] /\ n = 0 /\ oldcomplete -> Finish("kbd", plen["kbd"])
         [] OTHER -> /\ plen' = [plen EXCEPT !["kbd"] = @ - n]
                     /\ daemon' = [daemon EXCEPT !["kbd"] = IF n = 0 THEN "poll" ELSE "write"]
                     /\ UNCHANGED <<FLAG_FAILURE, unmet>>
    /\ UNCHANGED <<parentVars, test, screen, written, pattern, complete, oldcomplete, have_data>>

DaemonStep(d) ==
    \/ Get(d)
    \/ d = "con" /\ (ConPoll \/ ConCheck \/ ConRead)
    \/ d = "kbd" /\ (KbdPoll \/ KbdWrite)

-----------------------------------------------------------------------------
HarnessNext ==
    \/ Fork \/ Expire \/ SigWait \/ Cancel \/ Kill \/ WaitPid
    \/ Output \/ Input \/ TestEnds \/ ChildEnds
    \/ \E d \in Daemons : AskPattern(d) \/ CloseDaemon(d) \/ DaemonStep(d)

\* The alarm rings, and the host runs its processes; the test may hang.
HarnessFairness ==
    /\ WF_harnessVars(Expire)
    /\ WF_harnessVars(SigWait \/ Cancel \/ Kill \/ WaitPid)
    /\ WF_harnessVars(ChildEnds)
    /\ \A d \in Daemons : WF_harnessVars(CloseDaemon(d)) /\ WF_harnessVars(DaemonStep(d))

HarnessSpec == HarnessInit /\ [][HarnessNext]_harnessVars /\ HarnessFairness

-----------------------------------------------------------------------------
(* Properties.                                                             *)

\* A test that is reported as "ok" has had every pattern it expect()s on the
\* console, byte by byte, and every pattern of its sendme()s typed, whatever
\* was still queued when boot() returned, and however close the time limit.
PassMeansMet == parent = "passed" => \A d \in Daemons : unmet[d] = 0

\* Every test comes to an end, also one that hangs: the parent reports it, or
\* is ended itself by an alarm that rang too late to be cancelled.
TestsEnd == []<>(parent \in {"off", "passed", "failed", "terminated"})
=============================================================================
