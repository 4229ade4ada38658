------------------------------ MODULE Sockets ------------------------------
(***************************************************************************)
(* The sockets of one process: kernel_socket.c over the file descriptors   *)
(* of kernel_streams.c.                                                    *)
(*                                                                         *)
(* A call holds the kernel semaphore except while it sleeps, so it is one  *)
(* step up to kernel_wait() and one step after it.  Accept() and Connect() *)
(* sleep on the same condition variable, req_available of the listener;    *)
(* waitset is its ring of waiters.  Read() and Write() of a connection     *)
(* sleep on has_data and has_space of its pipes, which are only broadcast. *)
(* spc of a thread is                                                      *)
(*   "idle"                     in no call;                                *)
(*   "accept", "connect",                                                  *)
(*   "read", "write"            asleep in the call;                        *)
(*   "accept_woken" ...         signalled, wants the kernel semaphore;     *)
(*   "connect_late"             Connect() was woken by its timeout.        *)
(*                                                                         *)
(* Sockets and requests are numbered in the order of their creation;       *)
(* request n becomes connection n, whose pipes are <<n, "c">> (read by the *)
(* connecting socket) and <<n, "s">>.  What goes through a pipe is the     *)
(* matter of module Pipe: here a pipe may be empty, full or in between.    *)
(*                                                                         *)
(* Three things in this code are undefined behaviour.  They end the        *)
(* behaviour, with crashed telling which: "request", Accept() or Connect() *)
(* reaches the queue node of a Connect() that has returned, on whose stack *)
(* it was; "listener", a Connect() wakes up in a listener that was freed;  *)
(* "pipe", a pipe is used, or freed again, after it was freed.             *)
(***************************************************************************)
EXTENDS Integers, Sequences, FiniteSets, SequencesExt

CONSTANTS Callers,
          MAX_FILEID,       \* size of the process's FIDT
          MAX_PORT,         \* size of Port_Map, entry 0 (NOPORT) included
          MaxSockets,       \* bound on the sockets ever made
          MaxRequests,      \* bound on the calls of Connect() that get to wait
          Reuse             \* may a socket that waits in Connect() be used for
                            \* another Connect(), or for Listen()?

ASSUME SocketsAssumption ==
    /\ {MAX_FILEID, MAX_PORT, MaxSockets, MaxRequests} \subseteq Nat \ {0}
    /\ IsFiniteSet(Callers)
    /\ Reuse \in BOOLEAN

VARIABLES
    FIDT,         \* the socket behind each descriptor, or NULL
    Port_Map,
    sock,         \* the Socket_CBs made so far, in order
    req,          \* the connection requests made so far, in order
    pipe,         \* reader, writer (not NULL) and the number of free()s
    waitset,      \* of each socket's req_available
    spc,
    call,         \* the socket or the request a sleeping call works on
    crashed

socketVars == <<FIDT, Port_Map, sock, req, pipe, waitset, spc, call, crashed>>

NULL == 0
Fids == 0 .. MAX_FILEID - 1
Ports == 1 .. MAX_PORT - 1
Socks == 1 .. MaxSockets
Reqs == 1 .. MaxRequests
Pipes == Reqs \X {"c", "s"}

SocketsInit ==
    /\ FIDT = [f \in Fids |-> NULL]
    /\ Port_Map = [p \in Ports |-> NULL]
    /\ sock = <<>>
    /\ req = <<>>
    /\ pipe = [k \in Pipes |-> [reader |-> FALSE, writer |-> FALSE, frees |-> 0]]
    /\ waitset = [s \in Socks |-> <<>>]
    /\ spc = [t \in Callers |-> "idle"]
    /\ call = [t \in Callers |-> NULL]
    /\ crashed = "no"

-----------------------------------------------------------------------------
(* Socket control blocks and their pipes.                                  *)

\* What sys_Socket() puts in a new control block.  conn is NULL until the
\* socket is a peer; then <<n, side>> says which end of connection n it is.
NewSocket(p) ==
    [type |-> "UNBOUND", port |-> p, refcount |-> 0, freed |-> FALSE,
     queue |-> <<>>, conn |-> <<NULL, "c">>, peer |-> NULL]

read_pipe(s) == sock[s].conn
write_pipe(s) == <<sock[s].conn[1], IF sock[s].conn[2] = "c" THEN "s" ELSE "c">>

\* FCB_reserve(1): the lowest free descriptor, if there is one.
FreeFids == {f \in Fids : FIDT[f] = NULL}
LowestFree == CHOOSE f \in FreeFids : \A g \in FreeFids : f <= g

\* pipe_reader_close() or pipe_writer_close() on the pipes pp: free the pipe
\* when the other end is closed already.  What is in a pipe after it was freed
\* is undefined, so it may be freed again (again = 1) or not.
CloseEnd(pp, k, end, again) ==
    [pp EXCEPT ![k] =
        LET q == [@ EXCEPT ![end] = FALSE]
        IN  IF q.reader \/ q.writer THEN q
            ELSE [q EXCEPT !.frees = IF @ = 0 THEN 1 ELSE @ + again]]

Freed(k) == pipe[k].frees > 0
PipeUsed(K) == crashed' = IF \E k \in K : Freed(k) THEN "pipe" ELSE crashed

\* Is there a Connect() with socket s that has not returned?
InConnect == {"connect", "connect_woken", "connect_late"}
Connecting(s) == \E t \in Callers : spc[t] \in InConnect /\ req[call[t]].peer = s

\* The calls that a transfer of bytes is under way on.
OtherEnd == [read |-> "writer", write |-> "reader"]
Moving == {"read", "write", "read_woken", "write_woken"}
Transfers(s) == {t \in Callers : spc[t] \in Moving /\ call[t] = s}

\* wakeup(): those of ts that sleep wake up.
AfterSignal == [accept |-> "accept_woken", connect |-> "connect_woken",
                read |-> "read_woken", write |-> "write_woken"]
Woken(ts) == [t \in Callers |-> IF t \in ts /\ spc[t] \in DOMAIN AfterSignal
                                THEN AfterSignal[spc[t]] ELSE spc[t]]

\* Faulty variant: Close() does not wake the threads that sleep in Accept().
NoBroadcast(s) == spc' = spc /\ UNCHANGED waitset

\* kernel_broadcast(&req_available)
WakeAll(s) ==
    /\ spc' = Woken(ToSet(waitset[s]))
    /\ waitset' = [waitset EXCEPT ![s] = <<>>]

\* cv_signal() goes through a ring up to its first thread that sleeps: one
\* whose timer went off is taken off the ring and passed over.
Reached(ring) ==
    LET asleep == {i \in DOMAIN ring : spc[ring[i]] \in {"accept", "connect"}}
    IN  IF asleep = {} THEN Len(ring)
        ELSE CHOOSE i \in asleep : \A j \in asleep : i <= j
Signalled(ring) == {ring[i] : i \in 1 .. Reached(ring)}
Unreached(ring) == SubSeq(ring, Reached(ring) + 1, Len(ring))

\* The threads that sleep in Read() or Write() (dir) of pipe k, and those that
\* the close of one end wakes.
PipeOf(s, dir) == IF dir = "read" THEN read_pipe(s) ELSE write_pipe(s)
Sleepers(k, dir) == {t \in Callers : spc[t] = dir /\ PipeOf(call[t], dir) = k}
CloseWakes(k, end) ==
    IF end = "writer" /\ pipe[k].reader THEN Sleepers(k, "read")
    ELSE IF end = "reader" /\ pipe[k].writer THEN Sleepers(k, "write") ELSE {}

-----------------------------------------------------------------------------
(* The calls that do not wait.                                             *)

Socket(p) ==
    /\ Len(sock) < MaxSockets
    /\ FreeFids # {}
    /\ sock' = Append(sock, NewSocket(p))
    /\ FIDT' = [FIDT EXCEPT ![LowestFree] = Len(sock) + 1]
    /\ UNCHANGED <<Port_Map, req, pipe, waitset, spc, call, crashed>>

\* Faulty variant: the port's present listener is not looked at.
ListenAnyway(f) ==
    LET s == FIDT[f] IN
    /\ s # NULL
    /\ sock[s].type = "UNBOUND" /\ sock[s].port # NULL
    /\ Reuse \/ ~ Connecting(s)
    /\ sock' = [sock EXCEPT ![s].type = "LISTENER"]
    /\ Port_Map' = [Port_Map EXCEPT ![sock[s].port] = s]
    /\ UNCHANGED <<FIDT, req, pipe, waitset, spc, call, crashed>>

Listen(f) ==
    LET s == FIDT[f] IN
    /\ s # NULL
    /\ sock[s].type = "UNBOUND" /\ sock[s].port # NULL
    /\ ~ (/\ Port_Map[sock[s].port] # NULL
          /\ sock[Port_Map[sock[s].port]].type # "UNBOUND")
    /\ Reuse \/ ~ Connecting(s)
    /\ sock' = [sock EXCEPT ![s].type = "LISTENER"]
    /\ Port_Map' = [Port_Map EXCEPT ![sock[s].port] = s]
    /\ UNCHANGED <<FIDT, req, pipe, waitset, spc, call, crashed>>

\* Faulty variant: the read direction stays open.
ClosePeerHalf(s) ==
    /\ \E again \in {0, 1} : pipe' = CloseEnd(pipe, write_pipe(s), "writer", again)
    /\ sock' = [sock EXCEPT ![s].freed = (sock[s].refcount = 0)]
    /\ PipeUsed({write_pipe(s)})

\* socket_close() of a peer: both its pipes.
ClosePeer(s) ==
    /\ \E again \in {0, 1} :
          pipe' = CloseEnd(CloseEnd(pipe, write_pipe(s), "writer", again),
                           read_pipe(s), "reader", again)
    /\ sock' = [sock EXCEPT ![s].freed = (sock[s].refcount = 0)]
    /\ PipeUsed({write_pipe(s), read_pipe(s)})

\* The threads it wakes, which are those at the other end.
ClosePeerWakes(s) ==
    CloseWakes(write_pipe(s), "writer") \cup CloseWakes(read_pipe(s), "reader")

\* socket_close() of a listener.
CloseListener(s) ==
    /\ Port_Map' = [Port_Map EXCEPT ![sock[s].port] = NULL]
    /\ WakeAll(s)
    /\ sock' = [sock EXCEPT ![s].freed = (sock[s].refcount = 0)]
    /\ UNCHANGED <<pipe, crashed>>

\* sys_Close() of the only descriptor of an FCB.  The stream is closed when no
\* Read() or Write() holds another reference to the FCB.
SocketClose(f) ==
    LET s == FIDT[f] IN
    /\ s # NULL
    /\ FIDT' = [FIDT EXCEPT ![f] = NULL]
    /\ \/ /\ sock[s].type = "UNBOUND"
          /\ sock' = [sock EXCEPT ![s].freed = (sock[s].refcount = 0)]
          /\ UNCHANGED <<Port_Map, pipe, waitset, spc, crashed>>
       \/ sock[s].type = "LISTENER" /\ CloseListener(s)
       \/ /\ sock[s].type = "PEER" /\ Transfers(s) = {}
          /\ ClosePeer(s)
          /\ spc' = Woken(ClosePeerWakes(s))
          /\ UNCHANGED <<Port_Map, waitset>>
       \/ /\ sock[s].type = "PEER" /\ Transfers(s) # {}
          /\ UNCHANGED <<Port_Map, sock, pipe, waitset, spc, crashed>>
    /\ UNCHANGED <<req, call>>

\* sys_ShutDown() of a connected socket; how is a set of directions.
Directions == {{"reader"}, {"writer"}, {"reader", "writer"}}

ShutDown(f, how) ==
    LET s == FIDT[f]
        rp == read_pipe(s)
        wp == write_pipe(s)
    IN
    /\ s # NULL
    /\ sock[s].type = "PEER"
    /\ \E again \in {0, 1} :
          LET afterRead == IF "reader" \in how
                           THEN CloseEnd(pipe, rp, "reader", again) ELSE pipe
          IN  pipe' = IF "writer" \in how
                      THEN CloseEnd(afterRead, wp, "writer", again) ELSE afterRead
    /\ spc' = Woken((IF "reader" \in how THEN CloseWakes(rp, "reader") ELSE {})
                      \cup IF "writer" \in how THEN CloseWakes(wp, "writer") ELSE {})
    /\ PipeUsed((IF "reader" \in how THEN {rp} ELSE {})
                 \cup IF "writer" \in how THEN {wp} ELSE {})
    /\ UNCHANGED <<FIDT, Port_Map, sock, req, waitset, call>>

Crash(why) ==
    /\ crashed' = why
    /\ UNCHANGED <<FIDT, Port_Map, sock, req, pipe, waitset, spc, call>>

-----------------------------------------------------------------------------
(* Read() and Write() of a connected socket.                               *)

\* pipe_read() finds an empty pipe, pipe_write() a full one: so nobody waits
\* there for the opposite.
TransferWaits(t, s, dir) ==
    LET k == PipeOf(s, dir) IN
    /\ pipe[k][OtherEnd[dir]]
    /\ Sleepers(k, IF dir = "read" THEN "write" ELSE "read") = {}
    /\ spc' = [spc EXCEPT ![t] = dir]
    /\ call' = [call EXCEPT ![t] = s]
    /\ UNCHANGED <<sock, pipe, crashed>>

\* The call ends, with bytes, at the end of the data (read) or because nobody
\* reads (write); the first two wake the other end.  It gives back its
\* reference to the FCB, which may be the last one.
TransferEnds(t, s, dir) ==
    LET k == PipeOf(s, dir)
        last == s \notin {FIDT[f] : f \in Fids} /\ Transfers(s) \subseteq {t}
        other == IF dir = "read" THEN Sleepers(k, "write")
                 ELSE IF pipe[k].reader THEN Sleepers(k, "read") ELSE {}
        woken == other \cup IF last THEN ClosePeerWakes(s) ELSE {}
    IN
    /\ pipe[k][OtherEnd[dir]] => Sleepers(k, dir) = {}
    /\ spc' = [Woken(woken) EXCEPT ![t] = "idle"]
    /\ call' = [call EXCEPT ![t] = NULL]
    /\ IF last THEN ClosePeer(s) ELSE UNCHANGED <<sock, pipe, crashed>>

TransferLoop(t, s, dir) ==
    \/ Freed(PipeOf(s, dir)) /\ Crash("pipe")
    \/ /\ ~ Freed(PipeOf(s, dir))
       /\ TransferWaits(t, s, dir) \/ TransferEnds(t, s, dir)
       /\ UNCHANGED <<FIDT, Port_Map, req, waitset>>

\* A call that fails at once, for an end that is closed, changes nothing.
Transfer(t, f, dir) ==
    LET s == FIDT[f] IN
    /\ spc[t] = "idle"
    /\ s # NULL
    /\ sock[s].type = "PEER"
    /\ LET q == pipe[PipeOf(s, dir)]
       IN  \/ q.frees > 0
           \/ q.reader /\ (dir = "write" => q.writer)
    /\ TransferLoop(t, s, dir)

TransferResume(t) ==
    \E dir \in {"read", "write"} :
        spc[t] = AfterSignal[dir] /\ TransferLoop(t, call[t], dir)

-----------------------------------------------------------------------------
(* Connect()                                                               *)

\* The request n was put there by a Connect() that has returned.
Dangling(n) == req[n].result # 1

\* sys_Connect() up to kernel_timedwait().  The request goes to the front of
\* the listener's queue, which links it to the request that is there.
Connect(t, f, p) ==
    LET c == FIDT[f]
        l == Port_Map[p]
        n == Len(req) + 1
    IN
    /\ spc[t] = "idle"
    /\ Len(req) < MaxRequests
    /\ l # NULL /\ c # NULL
    /\ sock[l].type = "LISTENER" /\ sock[c].type = "UNBOUND"
    /\ Reuse \/ ~ Connecting(c)
    /\ \/ /\ sock[l].queue # <<>> /\ Dangling(Head(sock[l].queue))
          /\ Crash("request")
       \/ /\ sock[l].queue # <<>> => ~ Dangling(Head(sock[l].queue))
          /\ req' = Append(req, [admitted |-> FALSE, peer |-> c, listener |-> l,
                                 caller |-> t, result |-> 1])
          /\ sock' = [sock EXCEPT ![c].refcount = @ + 1, ![l].queue = <<n>> \o @]
          /\ spc' = [Woken(Signalled(waitset[l])) EXCEPT ![t] = "connect"]
          /\ waitset' = [waitset EXCEPT ![l] = Append(Unreached(@), t)]
          /\ call' = [call EXCEPT ![t] = n]
          /\ UNCHANGED <<FIDT, Port_Map, pipe, crashed>>

\* The timeout of kernel_timedwait() makes the thread run again.
ConnectTimeout(t) ==
    /\ spc[t] = "connect"
    /\ spc' = [spc EXCEPT ![t] = "connect_late"]
    /\ UNCHANGED <<FIDT, Port_Map, sock, req, pipe, waitset, call, crashed>>

\* remove_from_ring(): thread t leaves the ring of s, unless a signal that
\* passed it over took it off.
Unlinked(t, s) ==
    LET at == {i \in DOMAIN waitset[s] : waitset[s][i] = t}
    IN  IF at = {} THEN waitset
        ELSE [waitset EXCEPT ![s] = RemoveAt(@, CHOOSE i \in at : TRUE)]

\* Faulty variant: the timeout's return forgets the reference.
ConnectReturnReferenced(t) ==
    /\ spc[t] \in {"connect_woken", "connect_late"}
    /\ req' = [req EXCEPT ![call[t]].result = -1]
    /\ waitset' = Unlinked(t, req[call[t]].listener)
    /\ spc' = [spc EXCEPT ![t] = "idle"]
    /\ call' = [call EXCEPT ![t] = NULL]
    /\ UNCHANGED <<FIDT, Port_Map, sock, pipe, crashed>>

\* The rest of sys_Connect().  The thread first locks waitset_lock of the
\* listener, and the kernel semaphore only then.  So when the listener was
\* freed, by a Close() that came after the wakeup, the lock was either before
\* that or in freed memory.  A timeout is a failure, a signal is looked into;
\* the request stays in the queue if Accept() has not taken it.
ConnectReturn(t) ==
    LET n == call[t]
        l == req[n].listener
    IN
    /\ spc[t] \in {"connect_woken", "connect_late"}
    /\ \/ sock[l].freed /\ Crash("listener")
       \/ /\ waitset' = Unlinked(t, l)
          /\ req' = [req EXCEPT ![n].result =
                        IF spc[t] = "connect_woken" /\ req[n].admitted THEN 0 ELSE -1]
          /\ sock' = [sock EXCEPT ![req[n].peer].refcount = @ - 1]
          /\ spc' = [spc EXCEPT ![t] = "idle"]
          /\ call' = [call EXCEPT ![t] = NULL]
          /\ UNCHANGED <<FIDT, Port_Map, pipe, crashed>>

-----------------------------------------------------------------------------
(* Accept()                                                                *)

\* Accept() makes peers of the socket that asked and of a new one, crossed
\* over by two new pipes.  su: the sockets, with the queue already popped.
Joined(su, n, s) ==
    LET c == req[n].peer
        a == Len(sock) + 1
    IN  [Append(su, [NewSocket(sock[s].port) EXCEPT
                        !.type = "PEER", !.conn = <<n, "s">>, !.peer = c])
         EXCEPT ![c].type = "PEER", ![c].conn = <<n, "c">>, ![c].peer = a]

\* sys_Accept() behind its loop, with the first request of the queue.  To take
\* it writes to the next one, too.
Take(t, s, d) ==
    LET n == Head(sock[s].queue)
        su == [sock EXCEPT ![s].queue = Tail(@), ![s].refcount = @ + d - 1]
        touched == {sock[s].queue[i] : i \in {1, 2} \cap DOMAIN sock[s].queue}
    IN
    \/ /\ \E m \in touched : Dangling(m)
       /\ Crash("request")
    \/ /\ \A m \in touched : ~ Dangling(m)
       /\ req' = [req EXCEPT ![n].admitted = TRUE]
       /\ \/ /\ FreeFids = {}
             /\ sock' = su
             /\ UNCHANGED <<FIDT, pipe>>
          \/ /\ FreeFids # {}
             /\ Len(sock) < MaxSockets
             /\ sock' = Joined(su, n, s)
             /\ FIDT' = [FIDT EXCEPT ![LowestFree] = Len(sock) + 1]
             /\ pipe' = [k \in Pipes |-> IF k[1] = n
                            THEN [reader |-> TRUE, writer |-> TRUE, frees |-> 0]
                            ELSE pipe[k]]
       /\ spc' = [spc EXCEPT ![t] = "idle"]
       /\ call' = [call EXCEPT ![t] = NULL]
       /\ UNCHANGED <<Port_Map, waitset, crashed>>

\* The loop around kernel_wait() and what follows it; d is 1 when the call
\* has yet to count itself in refcount, and 0 after a wait.
AcceptLoop(t, s, d) ==
    LET p == sock[s].port IN
    \/ /\ sock[s].queue = <<>> /\ Port_Map[p] # NULL
       /\ sock' = [sock EXCEPT ![s].refcount = @ + d]
       /\ spc' = [spc EXCEPT ![t] = "accept"]
       /\ call' = [call EXCEPT ![t] = s]
       /\ waitset' = [waitset EXCEPT ![s] = Append(@, t)]
       /\ UNCHANGED <<FIDT, Port_Map, req, pipe, crashed>>
    \/ /\ Port_Map[p] = NULL
       /\ sock' = [sock EXCEPT ![s].refcount = @ + d - 1]
       /\ spc' = [spc EXCEPT ![t] = "idle"]
       /\ call' = [call EXCEPT ![t] = NULL]
       /\ UNCHANGED <<FIDT, Port_Map, req, pipe, waitset, crashed>>
    \/ /\ sock[s].queue # <<>> /\ Port_Map[p] # NULL
       /\ Take(t, s, d)

Accept(t, f) ==
    LET s == FIDT[f] IN
    /\ spc[t] = "idle"
    /\ s # NULL
    /\ sock[s].type = "LISTENER"
    /\ AcceptLoop(t, s, 1)

\* The thread has the kernel semaphore again.
AcceptResume(t) == spc[t] = "accept_woken" /\ AcceptLoop(t, call[t], 0)

-----------------------------------------------------------------------------

Resumes(t) == ConnectReturn(t) \/ AcceptResume(t) \/ TransferResume(t)

Calls ==
    \/ \E p \in {NULL} \cup Ports : Socket(p)
    \/ \E f \in Fids :
          \/ Listen(f) \/ SocketClose(f)
          \/ \E how \in Directions : ShutDown(f, how)
          \/ \E t \in Callers :
                \/ Accept(t, f)
                \/ \E p \in Ports : Connect(t, f, p)
                \/ \E dir \in {"read", "write"} : Transfer(t, f, dir)
    \/ \E t \in Callers : Resumes(t) \/ ConnectTimeout(t)

SocketsNext == crashed = "no" /\ Calls

\* A thread that was woken goes on: the model makes a call one step, so the
\* kernel semaphore is free whenever a thread could take it.  Timers go off.
SocketsFairness ==
    \A t \in Callers : /\ WF_socketVars(crashed = "no" /\ Resumes(t))
                       /\ WF_socketVars(crashed = "no" /\ ConnectTimeout(t))

SocketsSpec == SocketsInit /\ [][SocketsNext]_socketVars /\ SocketsFairness

-----------------------------------------------------------------------------
(* Properties.                                                             *)

Opened == {s \in 1 .. Len(sock) : \E f \in Fids : FIDT[f] = s}

(* Each port has at most one listener, and Port_Map is the set of the      *)
(* listeners that are open: neither Listen(), nor Close() of a listener    *)
(* that Accept() still uses, leaves a stale or a missing entry.            *)
PortMapSound ==
    /\ \A p \in Ports : Port_Map[p] # NULL =>
          /\ Port_Map[p] \in Opened
          /\ sock[Port_Map[p]].type = "LISTENER" /\ sock[Port_Map[p]].port = p
    /\ \A s \in Opened : sock[s].type = "LISTENER" => Port_Map[sock[s].port] = s

\* The calls that refcount counts, and all the calls that go on in a socket:
\* Connect() sleeps in the listener, too, and a transfer in a peer.
Counted(s) == {t \in Callers :
                \/ spc[t] \in {"accept", "accept_woken"} /\ call[t] = s
                \/ spc[t] \in InConnect /\ req[call[t]].peer = s}
CallsOn(s) ==
    Counted(s) \cup Transfers(s)
       \cup {t \in Callers : spc[t] \in InConnect /\ req[call[t]].listener = s}

(* refcount counts the calls of Accept(), and of Connect() with the socket *)
(* it connects, on every path through them, so no socket is freed under    *)
(* one of those, under a transfer, nor while a descriptor still leads to   *)
(* it.  It does not count the Connect() that sleeps in a listener: the     *)
(* calls that the free of a socket overtakes are exactly of this kind, and *)
(* awake already.                                                          *)
SocketsProtected ==
    \A s \in 1 .. Len(sock) :
      /\ sock[s].refcount = Cardinality(Counted(s))
      /\ sock[s].freed =>
            /\ s \notin Opened
            /\ \A t \in CallsOn(s) : /\ spc[t] \in {"connect_woken", "connect_late"}
                                     /\ req[call[t]].listener = s
                                     /\ req[call[t]].peer # s

(* The two sockets of a connection name each other and share two pipes in  *)
(* opposite directions, each with one reader and one writer; a pipe is     *)
(* gone exactly when both its ends were closed, by Close() or ShutDown(),  *)
(* and a socket that is gone has closed its two ends.  That a pipe is      *)
(* freed only once is not so: ShutDownFreesOnce.                           *)
ConnectionSound ==
    \A s \in 1 .. Len(sock) : sock[s].type = "PEER" =>
        LET o == sock[s].peer
            q == pipe[read_pipe(s)]
        IN
        /\ sock[o].type = "PEER" /\ sock[o].peer = s
        /\ read_pipe(s) = write_pipe(o) /\ write_pipe(s) = read_pipe(o)
        /\ q.frees > 0 <=> ~ q.reader /\ ~ q.writer
        /\ sock[s].freed => ~ q.reader /\ ~ pipe[write_pipe(s)].writer

(* A thread that sleeps in Accept() when the listener is closed leaves the *)
(* call.  The loop in Accept() looks at the port and not at its own        *)
(* socket, so nothing is said when another socket listens, or has          *)
(* listened, on the port.                                                  *)
AcceptLeaves ==
    \A t \in Callers :
        []<>( \/ spc[t] \notin {"accept", "accept_woken"}
              \/ call[t] \in Opened
              \/ \E o \in 1 .. Len(sock) \ {call[t]} :
                    sock[o].type = "LISTENER" /\ sock[o].port = sock[call[t]].port
              \/ crashed # "no")

(* ShutDown() frees no pipe that was freed before, however often it is     *)
(* called: "shutting down multiple times is not an error".  But            *)
(* pipe_reader_close() and pipe_writer_close() do not look whether their   *)
(* end is closed already, nor can they once the pipe is gone.              *)
ShutDownFreesOnce ==
    [][(\E f \in Fids : \E how \in Directions : ShutDown(f, how))
          => \A k \in Pipes : pipe'[k].frees <= 1]_socketVars

(* Connect() returns 0 when its request was admitted before it returned    *)
(* and so the socket is connected ("0 on success and -1 on error").        *)
ConnectReportsSuccess ==
    [][\A n \in 1 .. Len(req) :
          (req[n].result = 1 /\ req[n].admitted /\ req'[n].result # 1)
              => req'[n].result = 0]_socketVars

(* A listening socket stays one until it is closed: it "is not possible to *)
(* call any other functions on it except Accept, Close and Dup2()".        *)
(* Listen() and Accept() alone decide; Accept() makes a peer of the socket *)
(* that asked, which may have been given to Listen() meanwhile.            *)
ListenersStay ==
    [][\A s \in 1 .. Len(sock) :
          sock[s].type = "LISTENER" => sock'[s].type = "LISTENER"]_socketVars
=============================================================================
