---------------------------- MODULE RemoteServer ----------------------------
(***************************************************************************)
(* The remote server of tinyos_shell.c: a console, a thread that accepts   *)
(* connections, and a detached thread for each connection, which runs the  *)
(* command the client sent in a process of its own.  They share the        *)
(* globals on the stack of the console's thread.                           *)
(*                                                                         *)
(* active_conn is protected by mx when a connection ends, and not when the *)
(* listener counts a new one: both are a load and a store here, as the     *)
(* compiled increments are.  mishap tells what has gone wrong:             *)
(*   "race"   a store of active_conn has overwritten another one;          *)
(*   "null"   Accept() of a descriptor that the console has closed, which  *)
(*            follows a NULL pointer and ends everything;                  *)
(*   "early"  the console closed listener_socket before it had a value.    *)
(***************************************************************************)
EXTENDS Integers, Sequences, FiniteSets

CONSTANT Clients           \* connections that may be asked for

ASSUME ServerAssumption == IsFiniteSet(Clients)

VARIABLES
    quit, lsock, active_conn, logcount, log, mx,     \* __rs_globals
    lpc, lreg,         \* the listener thread and its register
    cpc, creg,         \* the console, or a connection's thread, likewise
    console,
    serving,           \* the connection the listener has just accepted
    mishap

serverVars == <<quit, lsock, active_conn, logcount, log, mx,
                lpc, lreg, cpc, creg, console, serving, mishap>>

NoClient == "nobody"
Free == "free"

ServerInit ==
    /\ quit = FALSE /\ lsock = "unset"
    /\ active_conn = 0 /\ logcount = 0 /\ log = <<>> /\ mx = Free
    /\ lpc = "off" /\ lreg = 0
    /\ cpc = [c \in Clients |-> "none"]
    /\ creg = [c \in Clients |-> 0]
    /\ console = "off"
    /\ serving = NoClient
    /\ mishap = "none"

\* RemoteServer() up to its console, log_init() included.
ServerStart ==
    /\ console = "off"
    /\ console' = "command" /\ lpc' = "listen"
    /\ UNCHANGED <<quit, lsock, active_conn, logcount, log, mx, lreg, cpc, creg,
                   serving, mishap>>

\* log_message(): one critical section.
log_message ==
    /\ mx = Free
    /\ logcount' = logcount + 1
    /\ log' = Append(log, logcount')

-----------------------------------------------------------------------------
(* The listener.                                                           *)

\* Socket() and Listen(), which fails if the port is taken.
ListenerListen ==
    /\ lpc = "listen"
    /\ \/ lsock' = "open" /\ lpc' = "accept"
       \/ lpc' = "exited" /\ UNCHANGED lsock
    /\ UNCHANGED <<quit, active_conn, logcount, log, mx, lreg, cpc, creg, console,
                   serving, mishap>>

\* Accept() is called, on a descriptor that is still open or is not.
ListenerAccept ==
    /\ lpc = "accept"
    /\ \/ lsock = "open" /\ lpc' = "accepting" /\ UNCHANGED mishap
       \/ lsock = "closed" /\ lpc' = "crashed" /\ mishap' = "null"
    /\ UNCHANGED <<quit, lsock, active_conn, logcount, log, mx, lreg, cpc, creg,
                   console, serving>>

\* Accept() returns: with a connection, without one although a client had
\* asked (no descriptor left), or because the socket was closed.
ListenerAccepted ==
    /\ lpc = "accepting"
    /\ \/ \E c \in Clients :
             /\ lsock = "open" /\ cpc[c] = "asking"
             /\ \/ lpc' = "load" /\ serving' = c /\ UNCHANGED cpc
                \/ /\ lpc' = "log_failure" /\ UNCHANGED serving
                   /\ cpc' = [cpc EXCEPT ![c] = "refused"]
       \/ /\ lsock = "closed"
          /\ lpc' = IF quit THEN "exited" ELSE "log_failure"
          /\ UNCHANGED <<serving, cpc>>
    /\ UNCHANGED <<quit, lsock, active_conn, logcount, log, mx, lreg, creg, console, mishap>>

ListenerLog ==
    /\ lpc = "log_failure"
    /\ log_message
    /\ lpc' = "accept"
    /\ UNCHANGED <<quit, lsock, active_conn, mx, lreg, cpc, creg, console, serving, mishap>>

\* active_conn++, without mx.
ListenerLoad ==
    /\ lpc = "load"
    /\ lreg' = active_conn
    /\ lpc' = "store"
    /\ UNCHANGED <<quit, lsock, active_conn, logcount, log, mx, cpc, creg, console,
                   serving, mishap>>

ListenerStore ==
    /\ lpc = "store"
    /\ active_conn' = lreg + 1
    /\ mishap' = IF lreg # active_conn THEN "race" ELSE mishap
    /\ lpc' = "spawn"
    /\ UNCHANGED <<quit, lsock, logcount, log, mx, lreg, cpc, creg, console, serving>>

\* CreateThread() and ThreadDetach()
ListenerSpawn ==
    /\ lpc = "spawn"
    /\ cpc' = [cpc EXCEPT ![serving] = "started"]
    /\ lpc' = "accept" /\ serving' = NoClient
    /\ UNCHANGED <<quit, lsock, active_conn, logcount, log, mx, lreg, creg, console, mishap>>

ListenerStep == \/ ListenerListen \/ ListenerAccept \/ ListenerAccepted \/ ListenerLog
                \/ ListenerLoad \/ ListenerStore \/ ListenerSpawn

-----------------------------------------------------------------------------
(* A connection's thread, rsrv_client().                                   *)

\* A RemoteClient asks for a connection.
Ask(c) ==
    /\ cpc[c] = "none" /\ lsock = "open"
    /\ cpc' = [cpc EXCEPT ![c] = "asking"]
    /\ UNCHANGED <<quit, lsock, active_conn, logcount, log, mx, lpc, lreg, creg,
                   console, serving, mishap>>

\* The thread logs that it has started, serves and logs the outcome.  Both
\* receiving the request and running it may take any time; on an error in
\* receiving the end is logged as well.
ClientLog(c) ==
    /\ cpc[c] \in {"started", "served"}
    /\ log_message
    /\ cpc' = [cpc EXCEPT ![c] = IF @ = "started" THEN "receive" ELSE "finish"]
    /\ UNCHANGED <<quit, lsock, active_conn, mx, lpc, lreg, creg, console, serving, mishap>>

ClientServe(c) ==
    /\ cpc[c] = "receive"
    /\ cpc' = [cpc EXCEPT ![c] = "served"]
    /\ UNCHANGED <<quit, lsock, active_conn, logcount, log, mx, lpc, lreg, creg,
                   console, serving, mishap>>

\* finish: active_conn-- under mx.
ClientLoad(c) ==
    /\ cpc[c] = "finish" /\ mx = Free
    /\ mx' = c
    /\ creg' = [creg EXCEPT ![c] = active_conn]
    /\ cpc' = [cpc EXCEPT ![c] = "store"]
    /\ UNCHANGED <<quit, lsock, active_conn, logcount, log, lpc, lreg, console,
                   serving, mishap>>

\* Faulty variant: nobody tells the console.
ClientStoreSilent(c) ==
    /\ cpc[c] = "store"
    /\ active_conn' = creg[c] - 1
    /\ mishap' = IF creg[c] # active_conn THEN "race" ELSE mishap
    /\ mx' = Free
    /\ cpc' = [cpc EXCEPT ![c] = "exited"]
    /\ UNCHANGED <<quit, lsock, logcount, log, lpc, lreg, creg, console, serving>>

\* Cond_Broadcast(&conn_done) comes before Mutex_Unlock().
ClientStore(c) ==
    /\ cpc[c] = "store"
    /\ active_conn' = creg[c] - 1
    /\ mishap' = IF creg[c] # active_conn THEN "race" ELSE mishap
    /\ mx' = Free
    /\ cpc' = [cpc EXCEPT ![c] = "exited"]
    /\ console' = IF console = "asleep" THEN "woken" ELSE console
    /\ UNCHANGED <<quit, lsock, logcount, log, lpc, lreg, creg, serving>>

ClientStep(c) == ClientLog(c) \/ ClientServe(c) \/ ClientLoad(c) \/ ClientStore(c)

-----------------------------------------------------------------------------
(* The console.                                                            *)

\* "q": the flag is set before the socket is closed, which makes Accept()
\* return.
ConsoleQuit ==
    /\ console = "command"
    /\ quit' = TRUE
    /\ console' = "close"
    /\ UNCHANGED <<lsock, active_conn, logcount, log, mx, lpc, lreg, cpc, creg,
                   serving, mishap>>

ConsoleClose ==
    /\ console = "close"
    /\ \/ lsock = "open" /\ lsock' = "closed" /\ UNCHANGED mishap
       \/ lsock # "open" /\ mishap' = "early" /\ UNCHANGED lsock
    /\ console' = "join"
    /\ UNCHANGED <<quit, active_conn, logcount, log, mx, lpc, lreg, cpc, creg, serving>>

ConsoleJoin ==
    /\ console = "join" /\ lpc = "exited"
    /\ console' = "woken"
    /\ UNCHANGED <<quit, lsock, active_conn, logcount, log, mx, lpc, lreg, cpc, creg,
                   serving, mishap>>

\* Faulty variant: the connections are not waited for.
ConsoleNoWait ==
    /\ console = "woken" /\ mx = Free
    /\ console' = "truncate"
    /\ UNCHANGED <<quit, lsock, active_conn, logcount, log, mx, lpc, lreg, cpc, creg,
                   serving, mishap>>

\* while(active_conn > 0) Cond_Wait(&mx, &conn_done)
ConsoleWait ==
    /\ console = "woken" /\ mx = Free
    /\ console' = IF active_conn > 0 THEN "asleep" ELSE "truncate"
    /\ UNCHANGED <<quit, lsock, active_conn, logcount, log, mx, lpc, lreg, cpc, creg,
                   serving, mishap>>

\* log_truncate(); RemoteServer() returns and its globals are gone.
ConsoleTruncate ==
    /\ console = "truncate" /\ mx = Free
    /\ log' = <<>>
    /\ console' = "returned"
    /\ UNCHANGED <<quit, lsock, active_conn, logcount, mx, lpc, lreg, cpc, creg,
                   serving, mishap>>

\* The end of the console's input: no quit, no wait.
ConsoleEOF ==
    /\ console = "command"
    /\ console' = "returned"
    /\ UNCHANGED <<quit, lsock, active_conn, logcount, log, mx, lpc, lreg, cpc, creg,
                   serving, mishap>>

ConsoleStep == ConsoleClose \/ ConsoleJoin \/ ConsoleWait \/ ConsoleTruncate

\* When the globals are gone after an EOF, what the threads do is undefined.
ServerNext ==
    /\ mishap # "null"
    /\ ~ (console = "returned" /\ ~ quit)
    /\ \/ ServerStart \/ ListenerStep
       \/ \E c \in Clients : Ask(c) \/ ClientStep(c)
       \/ ConsoleQuit \/ ConsoleStep \/ ConsoleEOF

\* Threads run, clients send their request or hang up, and commands end.
ServerFairness ==
    LET running == mishap # "null" /\ ~ (console = "returned" /\ ~ quit) IN
    /\ WF_serverVars(running /\ ListenerStep)
    /\ WF_serverVars(running /\ ConsoleStep)
    /\ \A c \in Clients : SF_serverVars(running /\ ClientStep(c))

ServerSpec == ServerInit /\ [][ServerNext]_serverVars /\ ServerFairness

-----------------------------------------------------------------------------
(* Properties.                                                             *)

(* After "q" the console returns, and so frees the globals, only when the  *)
(* listener and every connection's thread are done with them; until then   *)
(* the log holds all messages, numbered in order.  This fails when the     *)
(* unprotected increment of active_conn meets a decrement (mishap).        *)
QuitIsClean ==
    /\ console = "returned" /\ quit /\ mishap = "none" =>
          /\ lpc = "exited" /\ active_conn = 0 /\ log = <<>>
          /\ \A c \in Clients : cpc[c] \in {"none", "asking", "refused", "exited"}
    /\ console # "returned" => log = [i \in 1 .. logcount |-> i]

(* "q" ends the server: no wakeup of the console is lost, and the listener *)
(* leaves Accept(), if nothing has gone wrong.                             *)
QuitEnds == []<>(quit => console = "returned" \/ mishap # "none")
=============================================================================
