--------------------------- MODULE SocketsProofs ---------------------------
(***************************************************************************)
(* Proofs about Sockets, for every number of threads, descriptors, ports,  *)
(* sockets and requests, of processes that do not use a socket for another *)
(* call while it waits in Connect() (Reuse = FALSE): Port_Map, the         *)
(* reference counts and the connections are sound.                         *)
(***************************************************************************)
EXTENDS Sockets, Lists, FiniteSetTheorems, SequenceTheorems,
        WellFoundedInduction, TLAPS

-----------------------------------------------------------------------------
(* The inductive invariant.                                                *)

Made == 1 .. Len(sock)
Asked == 1 .. Len(req)
Accepting == {"accept", "accept_woken"}
PCs == {"idle"} \cup Accepting \cup InConnect \cup Moving

SocketRecord ==
    [type : {"UNBOUND", "LISTENER", "PEER"}, port : {NULL} \cup Ports,
     refcount : Int, freed : BOOLEAN, queue : Seq(Reqs),
     conn : ({NULL} \cup Reqs) \X {"c", "s"}, peer : {NULL} \cup Socks]

RequestRecord ==
    [admitted : BOOLEAN, peer : Socks, listener : Socks, caller : Callers,
     result : {1, 0, -1}]

PipeRecord == [reader : BOOLEAN, writer : BOOLEAN, frees : Nat]

SocketTypes ==
    /\ FIDT \in [Fids -> {NULL} \cup Socks]
    /\ Port_Map \in [Ports -> {NULL} \cup Socks]
    /\ sock \in Seq(SocketRecord) /\ Len(sock) <= MaxSockets
    /\ req \in Seq(RequestRecord) /\ Len(req) <= MaxRequests
    /\ pipe \in [Pipes -> PipeRecord]
    /\ waitset \in [Socks -> Seq(Callers)]
    /\ spc \in [Callers -> PCs]
    /\ call \in [Callers -> Nat]

\* A descriptor leads to a socket that is there, and no other one does.
FidInv ==
    /\ \A f \in Fids : FIDT[f] # NULL => FIDT[f] \in Made
    /\ \A f, g \in Fids : FIDT[f] = FIDT[g] /\ FIDT[f] # NULL => f = g

\* A request is waited for exactly as long as it has no result.
RequestInv ==
    /\ \A n \in Asked : /\ req[n].peer \in Made
                        /\ req[n].result = 1 =>
                              /\ spc[req[n].caller] \in InConnect
                              /\ call[req[n].caller] = n
    /\ \A t \in Callers : spc[t] \in InConnect =>
          call[t] \in Asked /\ req[call[t]].caller = t /\ req[call[t]].result = 1

\* A request in a listener's queue is not admitted yet, and is there only once.
BacklogInv ==
    /\ \A s \in Made :
          /\ Distinct(sock[s].queue)
          /\ \A n \in Members(sock[s].queue) : n \in Asked /\ ~ req[n].admitted
    /\ \A s, r \in Made :
          Members(sock[s].queue) \cap Members(sock[r].queue) # {} => s = r

\* Accept() works on a listener, which has a port, and Connect() asks one.
ListenerInv ==
    /\ \A s \in Made : sock[s].type = "LISTENER" => sock[s].port \in Ports
    /\ \A t \in Callers : spc[t] \in Accepting =>
          call[t] \in Made /\ sock[call[t]].type = "LISTENER"
    /\ \A n \in Asked :
          req[n].listener \in Made /\ sock[req[n].listener].type = "LISTENER"

\* Read() and Write() work on a peer.
TransferInv == \A t \in Callers : spc[t] \in Moving =>
    call[t] \in Made /\ sock[call[t]].type = "PEER"

\* A thread that sleeps in Connect() is in the ring of the listener.
Asleep(s) == {t \in Callers : spc[t] = "connect" /\ req[call[t]].listener = s}
SleepInv == \A s \in Socks : Asleep(s) \subseteq Members(waitset[s])

\* One Connect() at a time waits with a socket, which is nothing else until
\* the request is admitted.
PendingInv ==
    /\ \A t \in Callers : spc[t] \in InConnect /\ ~ req[call[t]].admitted =>
          sock[req[call[t]].peer].type = "UNBOUND"
    /\ \A t, u \in Callers :
          /\ spc[t] \in InConnect /\ spc[u] \in InConnect
          /\ req[call[t]].peer = req[call[u]].peer
          => t = u

\* A connection was a request that has been admitted.
PeerInv == \A s \in Made : sock[s].type = "PEER" =>
    /\ sock[s].conn[1] \in Asked /\ req[sock[s].conn[1]].admitted
    /\ sock[s].peer \in Made

\* A socket that is gone has no descriptor and no counted call, nobody moves
\* bytes through it, and nobody sleeps in it.
Unused(s) == Counted(s) = {} /\ Transfers(s) = {} /\ Asleep(s) = {}
ProtectInv == \A s \in Made :
    /\ sock[s].refcount = Cardinality(Counted(s))
    /\ sock[s].freed => s \notin Opened /\ Unused(s)

SocketIInv ==
    /\ SocketTypes /\ FidInv /\ RequestInv /\ BacklogInv /\ ListenerInv
    /\ TransferInv /\ SleepInv /\ PendingInv /\ PeerInv
    /\ PortMapSound /\ ProtectInv /\ ConnectionSound

-----------------------------------------------------------------------------
(* Facts about numbers, descriptors and the counted calls.                 *)

\* A set of natural numbers has a least one.
LEMMA LeastNumber ==
    ASSUME NEW T \in SUBSET Nat, T # {}
    PROVE  \E x \in T : \A y \in T : x <= y
<1> DEFINE R == {ss \in Nat \X Nat : ss[1] < ss[2]}
<1>1. IsWellFoundedOn(OpToRel(<, Nat), Nat)
  BY NatLessThanWellFounded
<1>2. OpToRel(<, Nat) = R
  BY DEF OpToRel
<1>3. IsWellFoundedOn(R, Nat)
  BY <1>1, <1>2
<1>4. \A x, y \in Nat : <<y, x>> \in R <=> y < x
  <2> TAKE x, y \in Nat
  <2>1. <<y, x>> \in R <=> <<y, x>> \in Nat \X Nat /\ <<y, x>>[1] < <<y, x>>[2]
    OBVIOUS
  <2>2. <<y, x>>[1] = y /\ <<y, x>>[2] = x /\ <<y, x>> \in Nat \X Nat
    OBVIOUS
  <2> QED  BY <2>1, <2>2
<1> HIDE DEF R
<1>5. PICK x \in T : \A y \in T : ~ (<<y, x>> \in R)
  BY <1>3, WFMin
<1>6. \A y \in T : ~ (y < x) /\ x \in Nat /\ y \in Nat
  BY <1>4, <1>5
<1>7. \A y \in T : x <= y
  BY <1>6
<1> QED  BY <1>7

\* LowestFree is a free descriptor.
LEMMA LowestFreeIsFree == FreeFids # {} => LowestFree \in FreeFids
<1> SUFFICES ASSUME FreeFids # {} PROVE LowestFree \in FreeFids
  OBVIOUS
<1>1. FreeFids \in SUBSET Nat
  BY SocketsAssumption DEF FreeFids, Fids
<1>2. \E f \in FreeFids : \A g \in FreeFids : f <= g
  BY <1>1, LeastNumber
<1> QED  BY <1>2 DEF LowestFree

\* The bounds are numbers, at least 1.
LEMMA ConstantFacts ==
    /\ {MAX_FILEID, MAX_PORT, MaxSockets, MaxRequests} \subseteq Nat
    /\ NULL \notin Socks /\ NULL \notin Reqs /\ NULL \notin Ports
    /\ Socks \subseteq Nat /\ Reqs \subseteq Nat
    /\ NULL = 0
  BY SocketsAssumption DEF NULL, Socks, Reqs, Ports

\* What the types say of the parts.
LEMMA Parts ==
    ASSUME SocketTypes
    PROVE  /\ Len(sock) \in Nat /\ Made \subseteq Socks
           /\ sock \in [Made -> SocketRecord]
           /\ \A s \in Made :
                 /\ sock[s] \in SocketRecord
                 /\ sock[s].refcount \in Int
                 /\ sock[s].queue \in Seq(Reqs)
                 /\ sock[s].conn \in ({NULL} \cup Reqs) \X {"c", "s"}
           /\ Len(req) \in Nat /\ Asked \subseteq Reqs
           /\ req \in [Asked -> RequestRecord]
           /\ \A n \in Asked : /\ req[n] \in RequestRecord
                               /\ req[n].caller \in Callers
<1>1. /\ Len(sock) \in Nat /\ sock \in [Made -> SocketRecord]
      /\ Len(req) \in Nat /\ req \in [Asked -> RequestRecord]
  BY DEF SocketTypes, Made, Asked
<1>2. Made \subseteq Socks /\ Asked \subseteq Reqs
  BY <1>1, ConstantFacts DEF SocketTypes, Made, Asked, Socks, Reqs
<1>3. /\ \A s \in Made : sock[s] \in SocketRecord
      /\ \A n \in Asked : req[n] \in RequestRecord
  BY <1>1
<1> QED  BY <1>1, <1>2, <1>3 DEF SocketRecord, RequestRecord

\* Only finitely many calls work on a socket, so they can be counted.
LEMMA CallsFinite == \A s : IsFiniteSet(Counted(s))
<1> TAKE s
<1>1. Counted(s) \in SUBSET Callers /\ IsFiniteSet(Callers)
  BY SocketsAssumption DEF Counted
<1> QED  BY <1>1, FS_Subset

-----------------------------------------------------------------------------
(* The initial state.                                                      *)

\* Before any call there is no socket, no request and no connection.
LEMMA InitEstablishes == SocketsInit => SocketIInv
<1> SUFFICES ASSUME SocketsInit PROVE SocketIInv
  OBVIOUS
<1>1. /\ sock = <<>> /\ req = <<>> /\ Made = {} /\ Asked = {}
      /\ \A t \in Callers : spc[t] = "idle"
      /\ \A f \in Fids : FIDT[f] = NULL
      /\ \A p \in Ports : Port_Map[p] = NULL
      /\ waitset = [s \in Socks |-> <<>>]
  BY DEF SocketsInit, Made, Asked
<1>2. SocketTypes
  <2>1. NULL \in Nat /\ 0 <= MaxSockets /\ 0 <= MaxRequests
    BY ConstantFacts
  <2>2. <<>> \in Seq(SocketRecord) /\ <<>> \in Seq(RequestRecord)
        /\ <<>> \in Seq(Callers) /\ Len(<<>>) = 0
    OBVIOUS
  <2>3. pipe \in [Pipes -> PipeRecord]
    BY DEF SocketsInit, PipeRecord
  <2> QED  BY <1>1, <2>1, <2>2, <2>3 DEF SocketsInit, SocketTypes, PCs
<1>3. FidInv /\ RequestInv /\ BacklogInv /\ ListenerInv /\ PendingInv /\ PeerInv
  BY <1>1 DEF FidInv, RequestInv, BacklogInv, ListenerInv, PendingInv, PeerInv,
     Accepting, InConnect
<1>4. SleepInv /\ TransferInv
  BY <1>1 DEF SleepInv, TransferInv, Asleep, Moving
<1>5. PortMapSound
  BY <1>1 DEF PortMapSound, Opened
<1>6. ProtectInv /\ ConnectionSound
  BY <1>1 DEF ProtectInv, ConnectionSound, Made
<1> QED  BY <1>2, <1>3, <1>4, <1>5, <1>6 DEF SocketIInv

-----------------------------------------------------------------------------
(* Steps in which threads go on, or are woken, in the calls they are in.   *)

SameCalls ==
    /\ \A t \in Callers :
          /\ call'[t] = call[t]
          /\ spc'[t] \in InConnect <=> spc[t] \in InConnect
          /\ spc'[t] \in Accepting <=> spc[t] \in Accepting
          /\ spc'[t] \in Moving <=> spc[t] \in Moving
          /\ spc'[t] = "connect" => spc[t] = "connect"
    /\ \A n \in Asked : req'[n].peer = req[n].peer /\ req'[n].listener = req[n].listener

CallsKept(r) ==
    /\ Counted(r)' = Counted(r)
    /\ Transfers(r)' = Transfers(r)
    /\ Asleep(r)' \subseteq Asleep(r)

\* The states of a call, by the sets they belong to.
LEMMA CallSets ==
    ASSUME NEW r, NEW t \in Callers
    PROVE  /\ t \in Counted(r) <=>
                 \/ spc[t] \in Accepting /\ call[t] = r
                 \/ spc[t] \in InConnect /\ req[call[t]].peer = r
           /\ t \in Transfers(r) <=> spc[t] \in Moving /\ call[t] = r
           /\ t \in Asleep(r) <=> spc[t] = "connect" /\ req[call[t]].listener = r
           /\ t \in Asleep(r) => spc[t] \in InConnect
  BY DEF Counted, Transfers, Asleep, Accepting, InConnect

\* The same in the next state.
LEMMA CallSetsNext ==
    ASSUME NEW r, NEW t \in Callers
    PROVE  /\ t \in Counted(r)' <=>
                 \/ spc'[t] \in Accepting /\ call'[t] = r
                 \/ spc'[t] \in InConnect /\ req'[call'[t]].peer = r
           /\ t \in Transfers(r)' <=> spc'[t] \in Moving /\ call'[t] = r
           /\ t \in Asleep(r)' <=> spc'[t] = "connect" /\ req'[call'[t]].listener = r
           /\ t \in Asleep(r)' => spc'[t] \in InConnect
  BY DEF Counted, Transfers, Asleep, Accepting, InConnect

\* They are sets of threads.
LEMMA CallSubsets ==
    ASSUME NEW r
    PROVE  /\ Counted(r) \subseteq Callers /\ Counted(r)' \subseteq Callers
           /\ Transfers(r) \subseteq Callers /\ Transfers(r)' \subseteq Callers
           /\ Asleep(r) \subseteq Callers /\ Asleep(r)' \subseteq Callers
  BY DEF Counted, Transfers, Asleep

\* In such a step no call begins or ends, and nobody falls asleep in Connect().
LEMMA SameCallsEffect ==
    ASSUME SocketIInv, SameCalls, NEW r
    PROVE  CallsKept(r)
<1>1. \A t \in Callers : spc[t] \in InConnect =>
         /\ req'[call[t]].peer = req[call[t]].peer
         /\ req'[call[t]].listener = req[call[t]].listener
  BY DEF SocketIInv, RequestInv, SameCalls
<1>2. ASSUME NEW t \in Callers
      PROVE  /\ t \in Counted(r)' <=> t \in Counted(r)
             /\ t \in Transfers(r)' <=> t \in Transfers(r)
             /\ t \in Asleep(r)' => t \in Asleep(r)
  <2>1. /\ call'[t] = call[t]
        /\ spc'[t] \in InConnect <=> spc[t] \in InConnect
        /\ spc'[t] \in Accepting <=> spc[t] \in Accepting
        /\ spc'[t] \in Moving <=> spc[t] \in Moving
        /\ spc'[t] = "connect" => spc[t] = "connect"
    BY DEF SameCalls
  <2>2. spc[t] = "connect" => spc[t] \in InConnect
    BY DEF InConnect
  <2> QED  BY <1>1, <2>1, <2>2, CallSets, CallSetsNext
<1> QED  BY <1>2, CallSubsets DEF CallsKept

FreedRightly == \A r \in Made :
    /\ sock'[r].refcount = sock[r].refcount
    /\ r \in Opened' => r \in Opened
    /\ sock'[r].freed => \/ sock[r].freed
                         \/ /\ sock[r].refcount = 0 /\ r \notin Opened'
                            /\ Transfers(r)' = {} /\ Asleep(r)' = {}

\* What such a step frees was unused.
LEMMA ProtectKept ==
    ASSUME SocketIInv, \A r : CallsKept(r), Made' = Made, FreedRightly
    PROVE  ProtectInv'
<1> SUFFICES ASSUME NEW r \in Made
             PROVE  /\ sock'[r].refcount = Cardinality(Counted(r)')
                    /\ sock'[r].freed => r \notin Opened' /\ Unused(r)'
  BY DEF ProtectInv
<1>1. /\ sock[r].refcount = Cardinality(Counted(r))
      /\ sock[r].freed => r \notin Opened /\ Unused(r)
  BY DEF SocketIInv, ProtectInv
<1>2. CallsKept(r)
  OBVIOUS
<1>3. Cardinality(Counted(r)) = 0 => Counted(r) = {}
  BY CallsFinite, FS_EmptySet
<1>4. sock'[r].refcount = Cardinality(Counted(r)')
  BY <1>1, <1>2 DEF FreedRightly, CallsKept
<1>5. CASE sock[r].freed
  BY <1>1, <1>2, <1>4, <1>5 DEF FreedRightly, CallsKept, Unused
<1>6. CASE ~ sock[r].freed
  BY <1>1, <1>2, <1>3, <1>4, <1>6 DEF FreedRightly, CallsKept, Unused
<1> QED  BY <1>5, <1>6

\* Read() and Write() keep their peers, and sleepers their rings.
LEMMA SameCallsKept ==
    ASSUME SocketIInv, SameCalls, Made \subseteq Made',
           \A r \in Made : sock[r].type = "PEER" => sock'[r].type = "PEER"
    PROVE  /\ TransferInv'
           /\ waitset' = waitset => SleepInv'
<1>1. TransferInv'
  BY DEF SocketIInv, TransferInv, SameCalls
<1>2. ASSUME waitset' = waitset PROVE SleepInv'
  <2>1. \A r : Asleep(r)' \subseteq Asleep(r)
    BY SameCallsEffect DEF CallsKept
  <2>2. \A r \in Socks : Asleep(r) \subseteq Members(waitset[r])
    BY DEF SocketIInv, SleepInv
  <2>3. ASSUME NEW r \in Socks PROVE Asleep(r)' \subseteq Members(waitset'[r])
    BY <1>2, <2>1, <2>2
  <2> QED  BY <2>3 DEF SleepInv
<1> QED  BY <1>1, <1>2

\* A step that leaves the calls and the requests alone.
LEMMA QuietCalls ==
    ASSUME UNCHANGED <<req, spc, call>>
    PROVE  SameCalls
  BY DEF SameCalls

-----------------------------------------------------------------------------
(* Each step preserves the invariant.                                      *)

\* Socket() puts an unbound socket behind a free descriptor.
LEMMA SocketPreserves ==
    ASSUME SocketIInv, NEW p \in {NULL} \cup Ports, Socket(p)
    PROVE  SocketIInv'
<1> DEFINE a == Len(sock) + 1
           x == NewSocket(p)
<1>i. /\ SocketTypes /\ FidInv /\ RequestInv /\ BacklogInv /\ ListenerInv
      /\ TransferInv /\ SleepInv /\ PendingInv /\ PeerInv
      /\ PortMapSound /\ ProtectInv /\ ConnectionSound
  BY DEF SocketIInv
<1>u. UNCHANGED <<Port_Map, req, pipe, waitset, spc, call, crashed>>
  BY DEF Socket
<1>1. a \in Socks /\ a \notin Made /\ a # NULL
  BY <1>i, Parts, ConstantFacts DEF Socket, Socks, Made
<1>2. x \in SocketRecord /\ x.type = "UNBOUND" /\ x.refcount = 0 /\ ~ x.freed
      /\ x.queue = <<>> /\ x.freed = FALSE
  BY DEF NewSocket, SocketRecord
<1>3. LowestFree \in Fids /\ FIDT[LowestFree] = NULL
  BY LowestFreeIsFree DEF Socket, FreeFids
<1>4. /\ sock' \in Seq(SocketRecord) /\ Len(sock') = a
      /\ Made' = Made \cup {a}
      /\ \A s \in Made : sock'[s] = sock[s]
      /\ sock'[a] = x
  <2>1. sock \in Seq(SocketRecord) /\ sock' = Append(sock, x)
    BY <1>i DEF SocketTypes, Socket
  <2> HIDE DEF x
  <2>2. /\ sock' \in Seq(SocketRecord) /\ Len(sock') = a
        /\ \A s \in 1 .. Len(sock) : sock'[s] = sock[s]
        /\ sock'[a] = x
    BY <1>2, <2>1
  <2>3. 1 .. Len(sock') = 1 .. Len(sock) \cup {a}
    BY <1>i, <2>2, Parts
  <2> QED  BY <2>2, <2>3 DEF Made
<1>5. /\ FIDT' = [FIDT EXCEPT ![LowestFree] = a]
      /\ FIDT \in [Fids -> {NULL} \cup Socks]
  BY <1>i DEF Socket, SocketTypes
<1>6. \A f \in Fids : FIDT'[f] = IF f = LowestFree THEN a ELSE FIDT[f]
  BY <1>3, <1>5
<1>7. Opened' = Opened \cup {a}
  <2>1. \A s : (\E f \in Fids : FIDT'[f] = s) <=>
               (s = a \/ \E f \in Fids \ {LowestFree} : FIDT[f] = s)
    BY <1>3, <1>6
  <2>2. \A s \in Made : (\E f \in Fids \ {LowestFree} : FIDT[f] = s) <=>
                        (\E f \in Fids : FIDT[f] = s)
    BY <1>3, <1>i, ConstantFacts, Parts
  <2>3. Opened = {s \in Made : \E f \in Fids : FIDT[f] = s}
    BY DEF Opened, Made
  <2>4. Opened' = {s \in Made' : \E f \in Fids : FIDT'[f] = s}
    BY DEF Opened, Made
  <2>5. ASSUME NEW f \in Fids, FIDT[f] = a PROVE FALSE
    BY <1>1, <1>i, <2>5 DEF FidInv
  <2> QED  BY <1>4, <2>1, <2>2, <2>3, <2>4, <2>5
<1> HIDE DEF x, a
<1>8. SocketTypes'
  <2>1. FIDT' \in [Fids -> {NULL} \cup Socks]
    BY <1>1, <1>5
  <2>2. a <= MaxSockets
    BY <1>1, ConstantFacts DEF Socks
  <2> QED  BY <1>4, <1>i, <1>u, <2>1, <2>2 DEF SocketTypes
<1>9. FidInv'
  BY <1>1, <1>4, <1>6, <1>i DEF FidInv
<1>10. RequestInv'
  BY <1>4, <1>i, <1>u DEF RequestInv, Asked
<1>11. BacklogInv'
  <2>1. Members(<<>>) = {} /\ Distinct(<<>>)
    BY DEF Members, Distinct
  <2>2. Members(sock'[a].queue) = {} /\ Distinct(sock'[a].queue)
    BY <1>2, <1>4, <2>1
  <2> QED  BY <1>4, <1>i, <1>u, <2>2 DEF BacklogInv, Asked
<1>12. ListenerInv'
  BY <1>2, <1>4, <1>i, <1>u DEF ListenerInv, Asked
<1>13. TransferInv' /\ SleepInv'
  BY <1>4, <1>u, QuietCalls, SameCallsKept
<1>14. PendingInv'
  <2>1. \A t \in Callers : spc[t] \in InConnect =>
           sock'[req[call[t]].peer] = sock[req[call[t]].peer]
    BY <1>4, <1>i DEF RequestInv
  <2> QED  BY <1>i, <1>u, <2>1 DEF PendingInv
<1>15. PeerInv'
  BY <1>2, <1>4, <1>i, <1>u DEF PeerInv, Asked
<1>16. PortMapSound'
  BY <1>2, <1>4, <1>7, <1>i, <1>u DEF PortMapSound, Opened, Made
<1>17. ProtectInv'
  <2>1. Counted(a) = {}
    <3>1. \A t \in Callers : t \notin Counted(a)
      BY <1>1, <1>i, CallSets DEF RequestInv, ListenerInv
    <3> QED  BY <3>1, CallSubsets
  <2>2. \A r : Counted(r)' = Counted(r) /\ Unused(r)' = Unused(r)
    BY <1>u DEF Counted, Unused, Transfers, Asleep
  <2>3. Cardinality({}) = 0
    BY FS_EmptySet
  <2> QED  BY <1>1, <1>2, <1>4, <1>7, <1>i, <1>u, <2>1, <2>2, <2>3 DEF ProtectInv
<1>18. ConnectionSound'
  <2>1. ASSUME NEW s \in Made', sock'[s].type = "PEER"
        PROVE  /\ s \in Made /\ sock'[s] = sock[s] /\ sock[s].type = "PEER"
               /\ sock[s].peer \in Made
               /\ sock'[sock[s].peer] = sock[sock[s].peer]
    BY <1>2, <1>4, <1>i, <2>1 DEF PeerInv
  <2> QED  BY SMTT(30), <1>i, <1>u, <2>1 DEF ConnectionSound, Made, read_pipe, write_pipe
<1> QED  BY <1>8, <1>9, <1>10, <1>11, <1>12, <1>13, <1>14, <1>15, <1>16, <1>17,
            <1>18 DEF SocketIInv

\* Listen() makes a socket that no call works on the listener of its port.
LEMMA ListenPreserves ==
    ASSUME SocketIInv, ~ Reuse, NEW f \in Fids, Listen(f)
    PROVE  SocketIInv'
<1> DEFINE s == FIDT[f]
           port == sock[s].port
<1>i. /\ SocketTypes /\ FidInv /\ RequestInv /\ BacklogInv /\ ListenerInv
      /\ TransferInv /\ SleepInv /\ PendingInv /\ PeerInv
      /\ PortMapSound /\ ProtectInv /\ ConnectionSound
  BY DEF SocketIInv
<1>u. UNCHANGED <<FIDT, req, pipe, waitset, spc, call, crashed>>
  BY DEF Listen
<1>1. /\ s \in Made /\ s \in Opened /\ sock[s].type = "UNBOUND"
      /\ port # NULL /\ ~ Connecting(s)
      /\ ~ (Port_Map[port] # NULL /\ sock[Port_Map[port]].type # "UNBOUND")
  BY <1>i DEF Listen, FidInv, Opened, Made
<1>2. port \in Ports
  <2>1. sock[s] \in SocketRecord
    BY <1>1, <1>i, Parts
  <2> QED  BY <1>1, <2>1 DEF SocketRecord
<1>3. Port_Map[port] = NULL
  BY <1>1, <1>2, <1>i DEF PortMapSound
<1>4. /\ sock' \in Seq(SocketRecord) /\ Len(sock') = Len(sock) /\ Made' = Made
      /\ \A r \in Made :
            /\ sock'[r].type = IF r = s THEN "LISTENER" ELSE sock[r].type
            /\ sock'[r].port = sock[r].port
            /\ sock'[r].refcount = sock[r].refcount
            /\ sock'[r].freed = sock[r].freed
            /\ sock'[r].queue = sock[r].queue
            /\ sock'[r].conn = sock[r].conn
            /\ sock'[r].peer = sock[r].peer
  <2> DEFINE x == [sock[s] EXCEPT !.type = "LISTENER"]
  <2>1. sock \in Seq(SocketRecord) /\ s \in 1 .. Len(sock)
    BY <1>1, <1>i DEF SocketTypes, Made
  <2>2. sock' = [sock EXCEPT ![s] = x]
    BY DEF Listen
  <2>3. /\ x \in SocketRecord /\ x.type = "LISTENER" /\ x.port = sock[s].port
        /\ x.refcount = sock[s].refcount /\ x.freed = sock[s].freed
        /\ x.queue = sock[s].queue /\ x.conn = sock[s].conn /\ x.peer = sock[s].peer
    <3>1. sock[s] \in SocketRecord
      BY <1>1, <1>i, Parts
    <3> QED  BY <3>1 DEF SocketRecord
  <2> HIDE DEF s, x
  <2> QED  BY <2>1, <2>2, <2>3, ExceptSeq DEF Made
<1>5. /\ Port_Map' = [Port_Map EXCEPT ![port] = s]
      /\ Port_Map \in [Ports -> {NULL} \cup Socks]
  BY <1>i DEF Listen, SocketTypes
<1>6. s \in Socks /\ s # NULL
  BY <1>1, <1>i, ConstantFacts, Parts
<1>7. Opened' = Opened
  BY <1>4, <1>u DEF Opened, Made
<1> HIDE DEF s, port
<1>8. SocketTypes'
  BY <1>2, <1>4, <1>5, <1>6, <1>i, <1>u DEF SocketTypes
<1>9. /\ FidInv' /\ RequestInv' /\ BacklogInv'
      /\ TransferInv' /\ SleepInv'
  <2>1. FidInv' /\ RequestInv'
    BY <1>4, <1>i, <1>u DEF FidInv, RequestInv, Asked
  <2>2. \A r \in Made : sock'[r].queue = sock[r].queue
    BY <1>4
  <2>3. BacklogInv'
    BY <1>4, <1>i, <1>u, <2>2 DEF BacklogInv, Asked
  <2>4. \A r \in Made : sock[r].type = "PEER" => sock'[r].type = "PEER"
    BY <1>1, <1>4
  <2>5. TransferInv' /\ SleepInv'
    BY <1>4, <1>u, <2>4, QuietCalls, SameCallsKept
  <2> QED  BY <2>1, <2>3, <2>5
<1>10. port = sock[s].port
  BY DEF port
<1>11. ListenerInv'
  BY <1>2, <1>4, <1>10, <1>i, <1>u DEF ListenerInv, Asked
<1>12. PendingInv'
  <2>1. \A t \in Callers : spc[t] \in InConnect => req[call[t]].peer # s
    BY <1>1 DEF Connecting
  <2>2. \A t \in Callers : spc[t] \in InConnect => req[call[t]].peer \in Made
    BY <1>i DEF RequestInv
  <2> QED  BY <1>4, <1>i, <1>u, <2>1, <2>2 DEF PendingInv
<1>13. PeerInv'
  BY <1>4, <1>i, <1>u DEF PeerInv, Asked
<1>14. PortMapSound'
  <2>1. \A p \in Ports : Port_Map'[p] = IF p = port THEN s ELSE Port_Map[p]
    BY <1>2, <1>5
  <2>2. Opened \subseteq Made
    BY DEF Opened, Made
  <2>3. \A p \in Ports : Port_Map[p] # NULL => Port_Map[p] # s
    BY <1>1, <1>i DEF PortMapSound
  <2>4. ASSUME NEW p \in Ports, Port_Map'[p] # NULL
        PROVE  /\ Port_Map'[p] \in Opened'
               /\ sock'[Port_Map'[p]].type = "LISTENER"
               /\ sock'[Port_Map'[p]].port = p
    BY <1>1, <1>4, <1>7, <1>10, <1>i, <2>1, <2>2, <2>4 DEF PortMapSound
  <2>5. ASSUME NEW r \in Opened', sock'[r].type = "LISTENER"
        PROVE  Port_Map'[sock'[r].port] = r
    <3>1. CASE r = s
      BY <1>1, <1>2, <1>4, <1>10, <2>1, <3>1
    <3>2. CASE r # s
      <4>1. r \in Opened /\ r \in Made /\ sock[r].type = "LISTENER"
            /\ sock'[r].port = sock[r].port
        BY <1>4, <1>7, <2>2, <2>5, <3>2
      <4>2. Port_Map[sock[r].port] = r /\ sock[r].port \in Ports
        BY <1>i, <4>1 DEF PortMapSound, ListenerInv
      <4>3. r # NULL
        BY <1>i, <4>1, ConstantFacts, Parts
      <4> QED  BY <1>3, <2>1, <4>1, <4>2, <4>3
    <3> QED  BY <3>1, <3>2
  <2> QED  BY <2>4, <2>5 DEF PortMapSound
<1>15. ProtectInv'
  <2>1. \A r : CallsKept(r)
    BY <1>u, QuietCalls, SameCallsEffect
  <2>2. FreedRightly
    BY <1>4, <1>7 DEF FreedRightly
  <2> QED  BY <1>4, <2>1, <2>2, ProtectKept
<1>16. ConnectionSound'
  <2>1. ASSUME NEW r \in Made, sock'[r].type = "PEER"
        PROVE  sock[r].type = "PEER" /\ sock[r].peer \in Made /\ sock[r].peer # s
    <3>1. sock[r].type = "PEER"
      BY <1>4, <2>1
    <3>2. sock[r].peer \in Made /\ sock[sock[r].peer].type = "PEER"
      BY <1>i, <3>1 DEF PeerInv, ConnectionSound, Made
    <3> QED  BY <1>1, <3>1, <3>2
  <2> QED  BY SMTT(30), <1>4, <1>i, <1>u, <2>1 DEF ConnectionSound, Made, read_pipe, write_pipe
<1> QED  BY <1>8, <1>9, <1>11, <1>12, <1>13, <1>14, <1>15, <1>16 DEF SocketIInv

\* The threads that are woken stay in the call they are in.
LEMMA WokenEffect ==
    ASSUME SocketTypes, NEW ts, NEW pc, pc = Woken(ts)
    PROVE  /\ pc \in [Callers -> PCs]
           /\ \A t \in Callers :
                 /\ t \notin ts => pc[t] = spc[t]
                 /\ pc[t] \in InConnect <=> spc[t] \in InConnect
                 /\ pc[t] \in Accepting <=> spc[t] \in Accepting
                 /\ pc[t] \in Moving <=> spc[t] \in Moving
                 /\ pc[t] = "connect" => spc[t] = "connect" /\ t \notin ts
<1>1. DOMAIN AfterSignal = {"accept", "connect", "read", "write"}
  BY DEF AfterSignal
<1>2. /\ AfterSignal["accept"] = "accept_woken" /\ AfterSignal["connect"] = "connect_woken"
      /\ AfterSignal["read"] = "read_woken" /\ AfterSignal["write"] = "write_woken"
  BY DEF AfterSignal
<1>3. \A t \in Callers : pc[t] = IF t \in ts /\ spc[t] \in DOMAIN AfterSignal
                                  THEN AfterSignal[spc[t]] ELSE spc[t]
  BY DEF Woken
<1>4. pc = [t \in Callers |-> pc[t]] /\ spc \in [Callers -> PCs]
  BY DEF Woken, SocketTypes
<1>5. ASSUME NEW t \in Callers
      PROVE  /\ pc[t] \in PCs
             /\ t \notin ts => pc[t] = spc[t]
             /\ pc[t] \in InConnect <=> spc[t] \in InConnect
             /\ pc[t] \in Accepting <=> spc[t] \in Accepting
             /\ pc[t] \in Moving <=> spc[t] \in Moving
             /\ pc[t] = "connect" => spc[t] = "connect" /\ t \notin ts
  <2>1. CASE t \in ts /\ spc[t] \in {"accept", "connect", "read", "write"}
    <3>1. pc[t] = AfterSignal[spc[t]]
      BY <1>1, <1>3, <2>1
    <3> QED  BY <1>2, <2>1, <3>1 DEF PCs, InConnect, Accepting, Moving
  <2>2. CASE ~ (t \in ts /\ spc[t] \in {"accept", "connect", "read", "write"})
    <3>1. pc[t] = spc[t]
      BY <1>1, <1>3, <2>2
    <3> QED  BY <1>4, <2>2, <3>1
  <2> QED  BY <2>1, <2>2
<1> QED  BY <1>4, <1>5

\* So a step that wakes some threads begins and ends no call.
LEMMA WakingEffect ==
    ASSUME SocketTypes, NEW ts, spc' = Woken(ts), UNCHANGED <<req, call>>
    PROVE  /\ SameCalls
           /\ spc' \in [Callers -> PCs]
           /\ \A t \in Callers : spc'[t] = "connect" => t \notin ts
  BY WokenEffect DEF SameCalls

\* kernel_broadcast() empties one ring and wakes the threads that were in it.
LEMMA WakeAllEffect ==
    ASSUME SocketIInv, NEW s \in Socks, WakeAll(s), UNCHANGED <<req, call>>
    PROVE  /\ SleepInv' /\ SameCalls
           /\ waitset' \in [Socks -> Seq(Callers)]
           /\ spc' \in [Callers -> PCs]
           /\ Asleep(s)' = {}
<1> DEFINE ts == Members(waitset[s])
<1>1. SocketTypes /\ waitset \in [Socks -> Seq(Callers)]
  BY DEF SocketIInv, SocketTypes
<1>2. ToSet(waitset[s]) = ts
  BY <1>1 DEF ToSet, Members
<1>3. spc' = Woken(ts) /\ waitset' = [waitset EXCEPT ![s] = <<>>]
  BY <1>2 DEF WakeAll
<1>4. \A r \in Socks : Asleep(r) \subseteq Members(waitset[r])
  BY DEF SocketIInv, SleepInv
<1>5. Asleep(s) \subseteq ts
  BY <1>4
<1> HIDE DEF ts
<1>6. /\ SameCalls /\ spc' \in [Callers -> PCs]
      /\ \A t \in Callers : spc'[t] = "connect" => t \notin ts
  BY <1>1, <1>3, WakingEffect
<1>7. \A r : Asleep(r)' \subseteq Asleep(r)
  BY <1>6, SameCallsEffect DEF CallsKept
<1>8. Asleep(s)' = {}
  <2>1. \A t \in Callers : t \in Asleep(s)' => t \notin ts
    BY <1>6, CallSetsNext
  <2> QED  BY <1>5, <1>7, <2>1, CallSubsets
<1>9. /\ waitset' \in [Socks -> Seq(Callers)]
      /\ \A r \in Socks : r # s => waitset'[r] = waitset[r]
  <2>1. <<>> \in Seq(Callers)
    OBVIOUS
  <2> QED  BY <1>1, <1>3, <2>1
<1>10. SleepInv'
  <2>1. ASSUME NEW r \in Socks PROVE Asleep(r)' \subseteq Members(waitset'[r])
    <3>1. CASE r = s
      BY <1>8, <3>1
    <3>2. CASE r # s
      BY <1>4, <1>7, <1>9, <3>2
    <3> QED  BY <3>1, <3>2
  <2> QED  BY <2>1 DEF SleepInv
<1> QED  BY <1>6, <1>8, <1>9, <1>10

\* A pipe that has been freed exactly when both its ends are closed.
Good(q) == q.frees > 0 <=> ~ q.reader /\ ~ q.writer

AnEnd(end) == end \in {"reader", "writer"}
EndClosed(pp, k, end, qq) ==
    /\ qq \in [Pipes -> PipeRecord]
    /\ \A j \in Pipes : j # k => qq[j] = pp[j]
    /\ qq[k].reader => pp[k].reader
    /\ qq[k].writer => pp[k].writer
    /\ ~ qq[k][end]
    /\ Good(pp[k]) => Good(qq[k])

\* pipe_reader_close(), pipe_writer_close(): one end of one pipe is closed.
LEMMA CloseEndEffect ==
    ASSUME NEW pp \in [Pipes -> PipeRecord], NEW k \in Pipes,
           NEW end, AnEnd(end), NEW again \in {0, 1},
           NEW qq, qq = CloseEnd(pp, k, end, again)
    PROVE  EndClosed(pp, k, end, qq)
<1> DEFINE q == [pp[k] EXCEPT ![end] = FALSE]
           more == IF q.frees = 0 THEN 1 ELSE q.frees + again
           x == IF q.reader \/ q.writer THEN q ELSE [q EXCEPT !.frees = more]
<1>1. pp[k] \in PipeRecord
  OBVIOUS
<1>2. qq = [pp EXCEPT ![k] = x]
  BY DEF CloseEnd
<1>3. /\ q \in PipeRecord /\ q.frees = pp[k].frees
      /\ end = "reader" => q.reader = FALSE /\ q.writer = pp[k].writer
      /\ end = "writer" => q.writer = FALSE /\ q.reader = pp[k].reader
  BY <1>1 DEF PipeRecord, AnEnd
<1> HIDE DEF q
<1>4. q.frees \in Nat /\ more \in Nat /\ more > 0
  BY <1>3 DEF PipeRecord
<1> HIDE DEF more
<1>5. /\ x \in PipeRecord /\ x.reader = q.reader /\ x.writer = q.writer
      /\ q.reader \/ q.writer => x.frees = q.frees
      /\ ~ (q.reader \/ q.writer) => x.frees > 0
  BY <1>3, <1>4 DEF PipeRecord
<1> HIDE DEF x
<1>6. /\ qq \in [Pipes -> PipeRecord] /\ qq[k] = x
      /\ \A j \in Pipes : j # k => qq[j] = pp[j]
  BY <1>2, <1>5
<1>7. ASSUME Good(pp[k]) PROVE Good(x)
  BY <1>3, <1>5, <1>7 DEF Good, AnEnd
<1>8. q[end] = FALSE /\ x[end] = FALSE
  BY <1>3, <1>5 DEF AnEnd
<1>9. (x.reader => pp[k].reader) /\ (x.writer => pp[k].writer)
  BY <1>3, <1>5 DEF AnEnd
<1> QED  BY <1>5, <1>6, <1>7, <1>8, <1>9 DEF EndClosed

\* Connections stay sound when only their pipes are closed.
LEMMA ConnectionKept ==
    ASSUME ConnectionSound, PeerInv, Made' = Made,
           \A r \in Made : /\ sock'[r].type = sock[r].type
                           /\ sock'[r].conn = sock[r].conn
                           /\ sock'[r].peer = sock[r].peer,
           \A r \in Made : sock[r].type = "PEER" =>
              /\ Good(pipe[read_pipe(r)]) => Good(pipe'[read_pipe(r)])
              /\ sock'[r].freed => /\ ~ pipe'[read_pipe(r)].reader
                                   /\ ~ pipe'[write_pipe(r)].writer
    PROVE  ConnectionSound'
<1> DEFINE Cross(k) == <<k[1], IF k[2] = "c" THEN "s" ELSE "c">>
<1>1. ASSUME NEW r \in Made, sock'[r].type = "PEER"
      PROVE  LET o == sock'[r].peer
                 q == pipe'[sock'[r].conn]
             IN  /\ sock'[o].type = "PEER" /\ sock'[o].peer = r
                 /\ sock'[r].conn = Cross(sock'[o].conn)
                 /\ Cross(sock'[r].conn) = sock'[o].conn
                 /\ q.frees > 0 <=> ~ q.reader /\ ~ q.writer
                 /\ sock'[r].freed =>
                       ~ q.reader /\ ~ pipe'[Cross(sock'[r].conn)].writer
  <2> DEFINE o == sock[r].peer
  <2>1. /\ sock[r].type = "PEER" /\ o \in Made /\ sock[o].type = "PEER"
        /\ sock[o].peer = r
        /\ sock[r].conn = Cross(sock[o].conn) /\ Cross(sock[r].conn) = sock[o].conn
        /\ Good(pipe[sock[r].conn])
    <3>1. sock[r].type = "PEER"
      BY <1>1
    <3>2. o \in Made
      BY <3>1 DEF PeerInv
    <3>3. /\ sock[o].type = "PEER" /\ sock[o].peer = r
          /\ sock[r].conn = Cross(sock[o].conn) /\ Cross(sock[r].conn) = sock[o].conn
      BY <3>1 DEF ConnectionSound, Made, read_pipe, write_pipe
    <3>4. Good(pipe[sock[r].conn])
      BY <3>1 DEF ConnectionSound, Made, Good, read_pipe
    <3> QED  BY <3>1, <3>2, <3>3, <3>4
  <2>2. /\ sock'[r].conn = sock[r].conn /\ sock'[o].conn = sock[o].conn
        /\ sock'[r].peer = o /\ sock'[o].peer = r /\ sock'[o].type = "PEER"
    BY <2>1
  <2>3. /\ Good(pipe'[sock[r].conn])
        /\ sock'[r].freed => /\ ~ pipe'[sock[r].conn].reader
                             /\ ~ pipe'[Cross(sock[r].conn)].writer
    BY <2>1 DEF read_pipe, write_pipe
  <2> QED  BY <2>1, <2>2, <2>3 DEF Good
<1> QED  BY <1>1 DEF ConnectionSound, Made, read_pipe, write_pipe

\* Pipes that are only closed, and freed when both ends are.
PipesClose ==
    /\ pipe' \in [Pipes -> PipeRecord]
    /\ \A k \in Pipes : /\ pipe'[k].reader => pipe[k].reader
                        /\ pipe'[k].writer => pipe[k].writer
                        /\ Good(pipe[k]) => Good(pipe'[k])

\* The pipes of a peer are two.
LEMMA PeerPipes ==
    ASSUME SocketTypes, PeerInv, NEW s \in Made, sock[s].type = "PEER"
    PROVE  read_pipe(s) \in Pipes /\ write_pipe(s) \in Pipes
           /\ read_pipe(s) # write_pipe(s)
<1>1. sock[s].conn \in ({NULL} \cup Reqs) \X {"c", "s"} /\ sock[s].conn[1] \in Reqs
  BY Parts DEF PeerInv
<1> QED  BY <1>1 DEF read_pipe, write_pipe, Pipes

\* Closing the two pipes of a peer.
LEMMA ClosePeerPipes ==
    ASSUME SocketTypes, PeerInv, NEW s \in Made,
           sock[s].type = "PEER", NEW again \in {0, 1},
           pipe' = CloseEnd(CloseEnd(pipe, write_pipe(s), "writer", again),
                            read_pipe(s), "reader", again)
    PROVE  /\ PipesClose
           /\ ~ pipe'[read_pipe(s)].reader /\ ~ pipe'[write_pipe(s)].writer
<1> DEFINE rp == read_pipe(s)
           wp == write_pipe(s)
           mid == CloseEnd(pipe, wp, "writer", again)
<1>1. rp \in Pipes /\ wp \in Pipes /\ rp # wp
  BY PeerPipes
<1>2. pipe \in [Pipes -> PipeRecord]
  BY DEF SocketTypes
<1> HIDE DEF rp, wp
<1>3. EndClosed(pipe, wp, "writer", mid)
  <2>1. AnEnd("writer") /\ mid = CloseEnd(pipe, wp, "writer", again)
    BY DEF AnEnd
  <2> HIDE DEF mid
  <2> QED  BY <1>1, <1>2, <2>1, CloseEndEffect
<1>4. pipe' = CloseEnd(mid, rp, "reader", again) /\ AnEnd("reader")
  BY DEF rp, wp, AnEnd
<1> HIDE DEF mid
<1>5. EndClosed(mid, rp, "reader", pipe')
  <2>1. mid \in [Pipes -> PipeRecord]
    BY <1>3 DEF EndClosed
  <2> QED  BY <1>1, <1>4, <2>1, CloseEndEffect
<1>6. PipesClose
  <2>1. ASSUME NEW k \in Pipes
        PROVE  /\ pipe'[k].reader => pipe[k].reader
               /\ pipe'[k].writer => pipe[k].writer
               /\ Good(pipe[k]) => Good(pipe'[k])
    <3>1. CASE k = rp
      BY <1>1, <1>3, <1>5, <3>1 DEF EndClosed
    <3>2. CASE k = wp
      BY <1>1, <1>3, <1>5, <3>2 DEF EndClosed
    <3>3. CASE k # rp /\ k # wp
      BY <1>3, <1>5, <3>3 DEF EndClosed
    <3> QED  BY <3>1, <3>2, <3>3
  <2> QED  BY <1>5, <2>1 DEF PipesClose, EndClosed
<1>7. ~ pipe'[rp].reader /\ ~ pipe'[wp].writer
  BY <1>1, <1>3, <1>5 DEF EndClosed
<1> QED  BY <1>6, <1>7 DEF rp, wp

\* Steps that free sockets, close pipes and move bytes: Accept() and Connect()
\* are as they were, but for being woken.
SockSame ==
    /\ Made' = Made /\ sock' \in Seq(SocketRecord) /\ Len(sock') = Len(sock)
    /\ \A r \in Made : /\ sock'[r].type = sock[r].type
                       /\ sock'[r].port = sock[r].port
                       /\ sock'[r].refcount = sock[r].refcount
                       /\ sock'[r].queue = sock[r].queue
                       /\ sock'[r].conn = sock[r].conn
                       /\ sock'[r].peer = sock[r].peer

CallsStay ==
    /\ req' = req
    /\ spc' \in [Callers -> PCs] /\ call' \in [Callers -> Nat]
    /\ \A t \in Callers :
          /\ spc'[t] \in InConnect <=> spc[t] \in InConnect
          /\ spc'[t] \in Accepting <=> spc[t] \in Accepting
          /\ spc'[t] = "connect" => spc[t] = "connect"
          /\ spc[t] \in InConnect \cup Accepting => call'[t] = call[t]

EndsClosed ==
    \A r \in Made : sock[r].type = "PEER" /\ sock'[r].freed /\ ~ sock[r].freed =>
        ~ pipe'[read_pipe(r)].reader /\ ~ pipe'[write_pipe(r)].writer

MovesRightly == \A r \in Made :
    /\ r \in Opened' => r \in Opened
    /\ sock[r].freed => Transfers(r)' = {}
    /\ sock'[r].freed => \/ sock[r].freed
                         \/ /\ sock[r].refcount = 0 /\ r \notin Opened'
                            /\ Transfers(r)' = {} /\ Asleep(r)' = {}

\* Such a step changes no counted call, and nobody falls asleep in Connect().
LEMMA StayEffect ==
    ASSUME CallsStay
    PROVE  \A r : Counted(r)' = Counted(r) /\ Asleep(r)' \subseteq Asleep(r)
<1> SUFFICES ASSUME NEW r
             PROVE  Counted(r)' = Counted(r) /\ Asleep(r)' \subseteq Asleep(r)
  OBVIOUS
<1>1. ASSUME NEW t \in Callers
      PROVE  /\ t \in Counted(r)' <=> t \in Counted(r)
             /\ t \in Asleep(r)' => t \in Asleep(r)
  <2>1. /\ req' = req
        /\ spc'[t] \in InConnect <=> spc[t] \in InConnect
        /\ spc'[t] \in Accepting <=> spc[t] \in Accepting
        /\ spc'[t] = "connect" => spc[t] = "connect"
        /\ spc[t] \in InConnect \cup Accepting => call'[t] = call[t]
    BY DEF CallsStay
  <2>2. spc[t] = "connect" => spc[t] \in InConnect
    BY DEF InConnect
  <2> QED  BY <2>1, <2>2, CallSets, CallSetsNext
<1> QED  BY <1>1, CallSubsets

\* The parts of the invariant that it preserves.
LEMMA ClosingKeeps ==
    ASSUME SocketIInv, SockSame, CallsStay, PipesClose, EndsClosed
    PROVE  /\ RequestInv' /\ BacklogInv' /\ ListenerInv' /\ PendingInv' /\ PeerInv'
           /\ ConnectionSound'
<1>i. /\ SocketTypes /\ RequestInv /\ BacklogInv /\ ListenerInv
      /\ PendingInv /\ PeerInv /\ ConnectionSound
  BY DEF SocketIInv
<1>1. /\ Made' = Made /\ Asked' = Asked /\ req' = req
      /\ \A r \in Made : /\ sock'[r].type = sock[r].type
                         /\ sock'[r].port = sock[r].port
                         /\ sock'[r].queue = sock[r].queue
                         /\ sock'[r].conn = sock[r].conn
                         /\ sock'[r].peer = sock[r].peer
  BY DEF SockSame, CallsStay, Asked
<1>2. \A t \in Callers :
          /\ spc'[t] \in InConnect <=> spc[t] \in InConnect
          /\ spc'[t] \in Accepting <=> spc[t] \in Accepting
          /\ spc[t] \in InConnect => call'[t] = call[t]
          /\ spc[t] \in Accepting => call'[t] = call[t]
  BY DEF CallsStay
<1>3. RequestInv'
  <2>1. \A n \in Asked : req[n].caller \in Callers
    BY <1>i, Parts
  <2> QED  BY <1>1, <1>2, <1>i, <2>1 DEF RequestInv
<1>4. BacklogInv'
  BY <1>1, <1>i DEF BacklogInv
<1>5. ListenerInv'
  <2>1. \A r \in Made : sock'[r].type = "LISTENER" => sock'[r].port \in Ports
    BY <1>1, <1>i DEF ListenerInv
  <2>2. \A t \in Callers : spc'[t] \in Accepting =>
           call'[t] \in Made' /\ sock'[call'[t]].type = "LISTENER"
    BY <1>1, <1>2, <1>i DEF ListenerInv
  <2>3. \A n \in Asked :
           req'[n].listener \in Made' /\ sock'[req'[n].listener].type = "LISTENER"
    BY <1>1, <1>i DEF ListenerInv
  <2> QED  BY <1>1, <2>1, <2>2, <2>3 DEF ListenerInv
<1>6. PendingInv'
  <2>1. \A t \in Callers : spc[t] \in InConnect => req[call[t]].peer \in Made
    BY <1>i DEF RequestInv
  <2> QED  BY <1>1, <1>2, <1>i, <2>1 DEF PendingInv
<1>7. PeerInv'
  BY <1>1, <1>i DEF PeerInv
<1>8. ConnectionSound'
  <2>1. \A r \in Made : sock[r].type = "PEER" =>
           read_pipe(r) \in Pipes /\ write_pipe(r) \in Pipes
    BY <1>i, PeerPipes
  <2>2. \A r \in Made : sock[r].type = "PEER" =>
           (sock[r].freed => ~ pipe[read_pipe(r)].reader /\ ~ pipe[write_pipe(r)].writer)
    BY <1>i DEF ConnectionSound, Made
  <2>3. \A r \in Made : sock[r].type = "PEER" =>
           /\ Good(pipe[read_pipe(r)]) => Good(pipe'[read_pipe(r)])
           /\ sock'[r].freed => /\ ~ pipe'[read_pipe(r)].reader
                                /\ ~ pipe'[write_pipe(r)].writer
    BY <2>1, <2>2 DEF PipesClose, EndsClosed
  <2> QED  BY <1>1, <1>i, <2>3, ConnectionKept
<1> QED  BY <1>3, <1>4, <1>5, <1>6, <1>7, <1>8

\* What it frees was unused.
LEMMA ClosingProtects ==
    ASSUME SocketIInv, SockSame, CallsStay, MovesRightly
    PROVE  ProtectInv'
<1> SUFFICES ASSUME NEW r \in Made
             PROVE  /\ sock'[r].refcount = Cardinality(Counted(r)')
                    /\ sock'[r].freed => r \notin Opened' /\ Unused(r)'
  BY DEF ProtectInv, SockSame
<1>1. /\ sock[r].refcount = Cardinality(Counted(r))
      /\ sock[r].freed => r \notin Opened /\ Unused(r)
  BY DEF SocketIInv, ProtectInv
<1>2. Counted(r)' = Counted(r) /\ Asleep(r)' \subseteq Asleep(r)
  BY StayEffect
<1>3. Cardinality(Counted(r)) = 0 => Counted(r) = {}
  BY CallsFinite, FS_EmptySet
<1>4. sock'[r].refcount = Cardinality(Counted(r)')
  BY <1>1, <1>2 DEF SockSame
<1>5. CASE sock[r].freed
  BY <1>1, <1>2, <1>4, <1>5 DEF MovesRightly, Unused
<1>6. CASE ~ sock[r].freed
  BY <1>1, <1>2, <1>3, <1>4, <1>6 DEF MovesRightly, Unused
<1> QED  BY <1>5, <1>6

\* Nobody sleeps in Connect() in anything but a listener.
LEMMA SleepInListeners ==
    ASSUME SocketIInv, NEW s \in Made, sock[s].type # "LISTENER"
    PROVE  Asleep(s) = {}
<1> SUFFICES ASSUME NEW t \in Callers, t \in Asleep(s) PROVE FALSE
  BY CallSubsets
<1>1. spc[t] \in InConnect /\ req[call[t]].listener = s
  BY CallSets
<1>2. call[t] \in Asked
  BY <1>1 DEF SocketIInv, RequestInv
<1> QED  BY <1>1, <1>2 DEF SocketIInv, ListenerInv

\* And nobody moves bytes through anything but a peer.
LEMMA TransfersOfPeers ==
    ASSUME SocketIInv, NEW s \in Made, sock[s].type # "PEER"
    PROVE  Transfers(s) = {}
  BY DEF SocketIInv, TransferInv, Transfers

\* The effect of setting the mark freed of one socket.
LEMMA FreedEffect ==
    ASSUME SocketTypes, NEW s \in Made,
           sock' = [sock EXCEPT ![s].freed = (sock[s].refcount = 0)]
    PROVE  /\ SockSame
           /\ \A r \in Made : r # s => sock'[r].freed = sock[r].freed
           /\ sock'[s].freed => sock[s].refcount = 0
<1> DEFINE x == [sock[s] EXCEPT !.freed = (sock[s].refcount = 0)]
<1>1. sock \in Seq(SocketRecord) /\ s \in 1 .. Len(sock) /\ sock[s] \in SocketRecord
  BY Parts DEF SocketTypes, Made
<1>2. sock' = [sock EXCEPT ![s] = x]
  OBVIOUS
<1>3. /\ x \in SocketRecord /\ x.type = sock[s].type /\ x.port = sock[s].port
      /\ x.refcount = sock[s].refcount /\ x.freed = (sock[s].refcount = 0)
      /\ x.queue = sock[s].queue /\ x.conn = sock[s].conn /\ x.peer = sock[s].peer
  BY <1>1 DEF SocketRecord
<1> HIDE DEF x
<1>4. /\ sock' \in Seq(SocketRecord) /\ Len(sock') = Len(sock)
      /\ \A r \in 1 .. Len(sock) : sock'[r] = IF r = s THEN x ELSE sock[r]
  BY <1>1, <1>2, <1>3, ExceptSeq
<1>5. Made' = Made /\ \A r \in Made : sock'[r] = IF r = s THEN x ELSE sock[r]
  BY <1>4 DEF Made
<1>6. \A r \in Made : /\ sock'[r].type = sock[r].type
                      /\ sock'[r].port = sock[r].port
                      /\ sock'[r].refcount = sock[r].refcount
                      /\ sock'[r].queue = sock[r].queue
                      /\ sock'[r].conn = sock[r].conn
                      /\ sock'[r].peer = sock[r].peer
  BY <1>3, <1>5
<1> QED  BY <1>3, <1>4, <1>5, <1>6 DEF SockSame

\* The control blocks are not written to.
LEMMA SockUnchanged ==
    ASSUME SocketTypes, sock' = sock
    PROVE  SockSame
  BY DEF SocketTypes, SockSame, Made

\* Waking threads leaves every call as it was.
LEMMA WokenStay ==
    ASSUME SocketTypes, SameCalls, UNCHANGED <<req, call>>, spc' \in [Callers -> PCs]
    PROVE  CallsStay
  BY DEF SameCalls, CallsStay, SocketTypes

\* Pipes that are left alone.
LEMMA PipesUnchanged ==
    ASSUME SocketTypes, pipe' = pipe
    PROVE  PipesClose
  BY DEF SocketTypes, PipesClose

\* Close() of a descriptor, whatever the kind of its socket.
LEMMA ClosePreserves ==
    ASSUME SocketIInv, NEW f \in Fids, SocketClose(f)
    PROVE  SocketIInv'
<1>0. PICK s : s = FIDT[f]
  OBVIOUS
<1>i. /\ SocketTypes /\ FidInv /\ RequestInv /\ BacklogInv /\ ListenerInv
      /\ TransferInv /\ SleepInv /\ PendingInv /\ PeerInv
      /\ PortMapSound /\ ProtectInv /\ ConnectionSound
  BY DEF SocketIInv
<1>u. UNCHANGED <<req, call>>
  BY DEF SocketClose
<1>1. /\ s \in Made /\ s \in Opened /\ s # NULL /\ s \in Socks
      /\ sock[s] \in SocketRecord
  BY <1>0, <1>i, Parts DEF SocketClose, FidInv, Opened, Made
<1>2. /\ FIDT' \in [Fids -> {NULL} \cup Socks]
      /\ \A g \in Fids : FIDT'[g] = IF g = f THEN NULL ELSE FIDT[g]
  <2>1. FIDT' = [FIDT EXCEPT ![f] = NULL] /\ FIDT \in [Fids -> {NULL} \cup Socks]
    BY <1>i DEF SocketClose, SocketTypes
  <2> QED  BY <2>1
<1>3. /\ SockSame
      /\ \A r \in Made : r # s => sock'[r].freed = sock[r].freed
      /\ sock'[s].freed /\ ~ sock[s].freed => sock[s].refcount = 0 /\ sock' # sock
  <2>1. CASE sock' = sock
    BY <1>i, <2>1, SockUnchanged
  <2>2. CASE sock' = [sock EXCEPT ![s].freed = (sock[s].refcount = 0)]
    <3>1. /\ SockSame
          /\ \A r \in Made : r # s => sock'[r].freed = sock[r].freed
          /\ sock'[s].freed => sock[s].refcount = 0
      BY <1>1, <1>i, <2>2, FreedEffect
    <3> QED  BY <3>1
  <2> QED  BY <1>0, <2>1, <2>2 DEF SocketClose, CloseListener, ClosePeer
<1>4. /\ SleepInv' /\ waitset' \in [Socks -> Seq(Callers)]
      /\ SameCalls /\ spc' \in [Callers -> PCs]
      /\ sock[s].type = "LISTENER" => Asleep(s)' = {}
  <2>1. CASE UNCHANGED <<waitset, spc>> /\ sock[s].type # "LISTENER"
    <3>1. SameCalls
      BY <1>u, <2>1, QuietCalls
    <3>2. SleepInv'
      BY <1>i, <1>u, <2>1 DEF SleepInv, Asleep
    <3> QED  BY <1>i, <2>1, <3>1, <3>2 DEF SocketTypes
  <2>2. CASE WakeAll(s)
    BY <1>1, <1>u, <2>2, WakeAllEffect
  <2>3. CASE /\ waitset' = waitset /\ sock[s].type # "LISTENER"
             /\ spc' = Woken(ClosePeerWakes(s))
    <3>1. SameCalls /\ spc' \in [Callers -> PCs]
      BY <1>i, <1>u, <2>3, WakingEffect
    <3>2. SleepInv'
      BY <1>3, <2>3, <3>1, SameCallsKept DEF SockSame
    <3> QED  BY <1>i, <2>3, <3>1, <3>2 DEF SocketTypes
  <2> QED  BY <1>0, <2>1, <2>2, <2>3 DEF SocketClose, CloseListener
<1>5. CallsStay /\ TransferInv' /\ \A r : CallsKept(r)
  BY <1>3, <1>4, <1>i, <1>u, WokenStay, SameCallsKept, SameCallsEffect DEF SockSame
<1>6. /\ Port_Map' \in [Ports -> {NULL} \cup Socks]
      /\ sock[s].type = "LISTENER" =>
            /\ sock[s].port \in Ports
            /\ \A p \in Ports :
                  Port_Map'[p] = IF p = sock[s].port THEN NULL ELSE Port_Map[p]
      /\ sock[s].type # "LISTENER" => Port_Map' = Port_Map
  <2>1. Port_Map \in [Ports -> {NULL} \cup Socks]
    BY <1>i DEF SocketTypes
  <2>2. CASE sock[s].type = "LISTENER"
    <3>1. Port_Map' = [Port_Map EXCEPT ![sock[s].port] = NULL]
      BY <1>0, <2>2 DEF SocketClose, CloseListener
    <3>2. sock[s].port \in Ports
      BY <1>1, <1>i, <2>2 DEF ListenerInv
    <3> QED  BY <2>1, <2>2, <3>1, <3>2
  <2>3. CASE sock[s].type # "LISTENER"
    BY <1>0, <2>1, <2>3 DEF SocketClose
  <2> QED  BY <2>2, <2>3
<1>7. /\ PipesClose
      /\ sock[s].type = "PEER" /\ sock' # sock =>
            ~ pipe'[read_pipe(s)].reader /\ ~ pipe'[write_pipe(s)].writer
  <2>1. CASE sock[s].type = "PEER" /\ ClosePeer(s)
    <3>1. PICK again \in {0, 1} :
             pipe' = CloseEnd(CloseEnd(pipe, write_pipe(s), "writer", again),
                              read_pipe(s), "reader", again)
      BY <2>1 DEF ClosePeer
    <3> QED  BY <1>1, <1>i, <2>1, <3>1, ClosePeerPipes
  <2>2. CASE pipe' = pipe /\ (sock[s].type = "PEER" => sock' = sock)
    BY <1>i, <2>2, PipesUnchanged
  <2> QED  BY <1>0, <2>1, <2>2 DEF SocketClose, CloseListener
<1>8. Opened' = Opened \ {s}
  <2>1. \A r \in Made : (\E g \in Fids : FIDT'[g] = r) <=>
                        (r # s /\ \E g \in Fids : FIDT[g] = r)
    BY <1>0, <1>1, <1>2, <1>i, ConstantFacts, Parts DEF FidInv
  <2> QED  BY <1>3, <2>1 DEF Opened, Made, SockSame
<1>9. sock[s].type = "PEER" /\ sock' # sock => Transfers(s) = {}
  BY <1>0 DEF SocketClose
<1>10. EndsClosed
  BY <1>3, <1>7 DEF EndsClosed
<1>11. MovesRightly
  <2>1. ASSUME NEW r \in Made, sock[r].freed PROVE Transfers(r)' = {}
    BY <1>5, <1>i, <2>1 DEF ProtectInv, Unused, CallsKept
  <2>2. ASSUME NEW r \in Made, sock'[r].freed, ~ sock[r].freed
        PROVE  /\ sock[r].refcount = 0 /\ r \notin Opened'
               /\ Transfers(r)' = {} /\ Asleep(r)' = {}
    <3>1. r = s /\ sock[s].refcount = 0 /\ sock' # sock
      BY <1>3, <2>2
    <3>2. CallsKept(s)
      BY <1>5
    <3>3. Transfers(s) = {}
      BY <1>1, <1>9, <3>1, TransfersOfPeers
    <3>4. Asleep(s)' = {}
      <4>1. CASE sock[s].type = "LISTENER"
        BY <1>4, <4>1
      <4>2. CASE sock[s].type # "LISTENER"
        BY <1>1, <3>2, <4>2, SleepInListeners DEF CallsKept
      <4> QED  BY <4>1, <4>2
    <3> QED  BY <1>8, <3>1, <3>2, <3>3, <3>4 DEF CallsKept
  <2> QED  BY <1>8, <2>1, <2>2 DEF MovesRightly
<1>12. /\ RequestInv' /\ BacklogInv' /\ ListenerInv' /\ PendingInv' /\ PeerInv'
       /\ ConnectionSound'
  BY <1>3, <1>5, <1>7, <1>10, ClosingKeeps
<1>13. ProtectInv'
  BY <1>3, <1>5, <1>11, ClosingProtects
<1>14. SocketTypes'
  BY <1>2, <1>3, <1>4, <1>6, <1>7, <1>i, <1>u DEF SocketTypes, SockSame, PipesClose
<1>15. FidInv'
  BY <1>2, <1>3, <1>i DEF FidInv, SockSame
<1>16. PortMapSound'
  <2>1. Opened \subseteq Made
    BY DEF Opened, Made
  <2>0. \A r \in Made : sock'[r].type = sock[r].type /\ sock'[r].port = sock[r].port
    BY <1>3 DEF SockSame
  <2>2. ASSUME NEW p \in Ports, Port_Map'[p] # NULL
        PROVE  /\ Port_Map'[p] \in Opened'
               /\ sock'[Port_Map'[p]].type = "LISTENER"
               /\ sock'[Port_Map'[p]].port = p
    <3>1. Port_Map'[p] = Port_Map[p] /\ (sock[s].type = "LISTENER" => p # sock[s].port)
      BY <1>6, <2>2
    <3>2. /\ Port_Map[p] \in Opened /\ sock[Port_Map[p]].type = "LISTENER"
          /\ sock[Port_Map[p]].port = p
      BY <1>i, <2>2, <3>1 DEF PortMapSound
    <3>3. Port_Map[p] # s
      BY <3>1, <3>2
    <3> QED  BY <1>8, <2>0, <2>1, <3>1, <3>2, <3>3
  <2>3. ASSUME NEW r \in Opened', sock'[r].type = "LISTENER"
        PROVE  Port_Map'[sock'[r].port] = r
    <3>1. r \in Opened /\ r \in Made /\ r # s /\ sock[r].type = "LISTENER"
          /\ sock'[r].port = sock[r].port /\ sock[r].port \in Ports
      BY <1>8, <1>i, <2>0, <2>1, <2>3 DEF ListenerInv
    <3>2. Port_Map[sock[r].port] = r
      BY <1>i, <3>1 DEF PortMapSound
    <3>3. sock[s].type = "LISTENER" => sock[s].port # sock[r].port
      BY <1>1, <1>i, <3>1, <3>2 DEF PortMapSound
    <3> QED  BY <1>6, <3>1, <3>2, <3>3
  <2> QED  BY <2>2, <2>3 DEF PortMapSound
<1> QED  BY <1>4, <1>5, <1>12, <1>13, <1>14, <1>15, <1>16 DEF SocketIInv

\* Steps that leave descriptors, ports and rings alone.
LEMMA BytesPreserve ==
    ASSUME SocketIInv, UNCHANGED <<FIDT, Port_Map, req, waitset>>,
           SockSame, CallsStay, PipesClose, EndsClosed, MovesRightly, TransferInv'
    PROVE  SocketIInv'
<1>i. SocketTypes /\ FidInv /\ SleepInv /\ PortMapSound
  BY DEF SocketIInv
<1>1. /\ RequestInv' /\ BacklogInv' /\ ListenerInv' /\ PendingInv' /\ PeerInv'
      /\ ConnectionSound'
  BY ClosingKeeps
<1>2. ProtectInv'
  BY ClosingProtects
<1>3. SocketTypes'
  BY <1>i DEF SocketTypes, SockSame, CallsStay, PipesClose
<1>4. FidInv'
  BY <1>i DEF FidInv, SockSame
<1>5. SleepInv'
  <2>1. \A r : Asleep(r)' \subseteq Asleep(r)
    BY StayEffect
  <2>2. ASSUME NEW r \in Socks PROVE Asleep(r)' \subseteq Members(waitset'[r])
    BY <1>i, <2>1 DEF SleepInv
  <2> QED  BY <2>2 DEF SleepInv
<1>6. PortMapSound'
  <2>1. Opened \subseteq Made /\ Opened' = Opened
    BY DEF Opened, Made, SockSame
  <2>2. \A r \in Made : sock'[r].type = sock[r].type /\ sock'[r].port = sock[r].port
    BY DEF SockSame
  <2> QED  BY <1>i, <2>1, <2>2 DEF PortMapSound
<1> QED  BY <1>1, <1>2, <1>3, <1>4, <1>5, <1>6 DEF SocketIInv

\* Of the state of a connection only its pipes change, and they only close.
LEMMA PipesOnly ==
    ASSUME SocketIInv, UNCHANGED <<FIDT, Port_Map, sock, req, waitset, call>>,
           SameCalls, spc' \in [Callers -> PCs], PipesClose
    PROVE  SocketIInv'
<1>i. SocketTypes /\ ProtectInv
  BY DEF SocketIInv
<1>1. SockSame /\ CallsStay /\ \A r : CallsKept(r)
  BY <1>i, SockUnchanged, WokenStay, SameCallsEffect
<1>2. TransferInv'
  BY SameCallsKept DEF Made
<1>3. EndsClosed
  BY DEF EndsClosed
<1>4. MovesRightly
  BY <1>1, <1>i DEF MovesRightly, CallsKept, ProtectInv, Unused, Opened
<1> QED  BY <1>1, <1>2, <1>3, <1>4, BytesPreserve

\* At undefined behaviour the model stops, and nothing is written.
LEMMA CrashPreserves ==
    ASSUME SocketIInv, NEW why, Crash(why)
    PROVE  SocketIInv'
<1>1. UNCHANGED <<FIDT, Port_Map, sock, req, pipe, waitset, spc, call>>
  BY DEF Crash
<1>2. SocketTypes
  BY DEF SocketIInv
<1>3. SameCalls /\ PipesClose /\ spc' \in [Callers -> PCs]
  BY <1>1, <1>2, QuietCalls, PipesUnchanged DEF SocketTypes
<1> QED  BY <1>1, <1>3, PipesOnly

\* The end of a pipe that a Read() or a Write() waits at.
Transferring(t) == spc[t] \notin InConnect /\ spc[t] \notin Accepting

\* Read() and Write() go to sleep in a socket that is there.
LEMMA WaitsPreserve ==
    ASSUME SocketIInv, NEW t \in Callers, Transferring(t),
           NEW s \in Made, sock[s].type = "PEER", ~ sock[s].freed,
           NEW dir \in {"read", "write"}, TransferWaits(t, s, dir),
           UNCHANGED <<FIDT, Port_Map, req, waitset>>
    PROVE  SocketIInv'
<1>i. SocketTypes /\ ProtectInv /\ TransferInv
  BY DEF SocketIInv
<1>1. /\ UNCHANGED <<sock, pipe>>
      /\ spc' = [spc EXCEPT ![t] = dir] /\ call' = [call EXCEPT ![t] = s]
  BY DEF TransferWaits
<1>2. SockSame /\ PipesClose /\ EndsClosed
  BY <1>1, <1>i, SockUnchanged, PipesUnchanged DEF EndsClosed
<1>3. /\ spc' \in [Callers -> PCs] /\ call' \in [Callers -> Nat]
      /\ spc'[t] = dir /\ call'[t] = s
      /\ \A u \in Callers : u # t => spc'[u] = spc[u] /\ call'[u] = call[u]
  <2>1. dir \in PCs /\ s \in Nat
    BY <1>i, Parts, ConstantFacts DEF PCs, Moving
  <2>2. spc \in [Callers -> PCs] /\ call \in [Callers -> Nat]
    BY <1>i DEF SocketTypes
  <2> QED  BY <1>1, <2>1, <2>2
<1>4. dir \notin InConnect /\ dir \notin Accepting /\ dir # "connect" /\ dir \in Moving
  BY DEF InConnect, Accepting, Moving
<1>5. CallsStay
  BY <1>3, <1>4 DEF CallsStay, Transferring
<1>6. TransferInv'
  BY <1>1, <1>3, <1>i DEF TransferInv, Made
<1>7. MovesRightly
  <2>1. ASSUME NEW r \in Made, sock[r].freed PROVE Transfers(r)' = {}
    <3>1. Transfers(r) = {} /\ r # s
      BY <1>i, <2>1 DEF ProtectInv, Unused
    <3>2. \A u \in Callers : u \notin Transfers(r)'
      BY <1>3, <3>1, CallSets, CallSetsNext
    <3> QED  BY <3>2, CallSubsets
  <2>2. Opened' = Opened
    BY <1>1 DEF Opened
  <2> QED  BY <1>1, <2>1, <2>2 DEF MovesRightly
<1> QED  BY <1>2, <1>5, <1>6, <1>7, BytesPreserve

\* Read() and Write() end; the last of them closes a socket without descriptor.
LEMMA EndsPreserve ==
    ASSUME SocketIInv, NEW t \in Callers, Transferring(t),
           NEW s \in Made, sock[s].type = "PEER",
           NEW dir \in {"read", "write"}, TransferEnds(t, s, dir),
           UNCHANGED <<FIDT, Port_Map, req, waitset>>
    PROVE  SocketIInv'
<1>i. SocketTypes /\ ProtectInv /\ TransferInv /\ PeerInv
  BY DEF SocketIInv
<1>1. PICK ts : /\ spc' = [Woken(ts) EXCEPT ![t] = "idle"]
                /\ call' = [call EXCEPT ![t] = NULL]
  BY DEF TransferEnds
<1>2. PICK pc : pc = Woken(ts)
  OBVIOUS
<1>3. /\ pc \in [Callers -> PCs]
      /\ \A u \in Callers : /\ pc[u] \in InConnect <=> spc[u] \in InConnect
                            /\ pc[u] \in Accepting <=> spc[u] \in Accepting
                            /\ pc[u] \in Moving <=> spc[u] \in Moving
                            /\ pc[u] = "connect" => spc[u] = "connect"
  BY <1>2, <1>i, WokenEffect
<1>4. /\ spc' \in [Callers -> PCs] /\ call' \in [Callers -> Nat]
      /\ spc'[t] = "idle"
      /\ \A u \in Callers : u # t => spc'[u] = pc[u] /\ call'[u] = call[u]
  <2>1. spc' = [pc EXCEPT ![t] = "idle"]
    BY <1>1, <1>2
  <2>2. "idle" \in PCs /\ NULL \in Nat /\ call \in [Callers -> Nat]
    BY <1>i DEF PCs, NULL, SocketTypes
  <2> QED  BY <1>1, <1>3, <2>1, <2>2
<1>5. "idle" \notin InConnect /\ "idle" \notin Accepting /\ "idle" \notin Moving
  BY DEF InConnect, Accepting, Moving
<1>6. CallsStay
  BY <1>3, <1>4, <1>5 DEF CallsStay, Transferring
<1>7. /\ SockSame /\ PipesClose /\ EndsClosed
      /\ \A r \in Made : r # s => sock'[r].freed = sock[r].freed
      /\ sock'[s].freed /\ ~ sock[s].freed =>
            /\ sock[s].refcount = 0 /\ Transfers(s) \subseteq {t}
            /\ s \notin {FIDT[f] : f \in Fids}
  <2>1. CASE UNCHANGED <<sock, pipe>>
    BY <1>i, <2>1, SockUnchanged, PipesUnchanged DEF EndsClosed
  <2>2. CASE ClosePeer(s) /\ s \notin {FIDT[f] : f \in Fids} /\ Transfers(s) \subseteq {t}
    <3>1. PICK again \in {0, 1} :
             pipe' = CloseEnd(CloseEnd(pipe, write_pipe(s), "writer", again),
                              read_pipe(s), "reader", again)
      BY <2>2 DEF ClosePeer
    <3>2. /\ PipesClose
          /\ ~ pipe'[read_pipe(s)].reader /\ ~ pipe'[write_pipe(s)].writer
      BY <1>i, <3>1, ClosePeerPipes
    <3>3. /\ SockSame
          /\ \A r \in Made : r # s => sock'[r].freed = sock[r].freed
          /\ sock'[s].freed => sock[s].refcount = 0
      BY <1>i, <2>2, FreedEffect DEF ClosePeer
    <3>4. EndsClosed
      BY <3>2, <3>3 DEF EndsClosed
    <3> QED  BY <2>2, <3>2, <3>3, <3>4
  <2> QED  BY <2>1, <2>2 DEF TransferEnds
<1>8. TransferInv'
  BY <1>3, <1>4, <1>5, <1>7, <1>i DEF TransferInv, SockSame
<1>9. MovesRightly
  <2>1. \A r : Transfers(r)' \subseteq Transfers(r) \ {t}
    <3> SUFFICES ASSUME NEW r, NEW u \in Callers, u \in Transfers(r)'
                 PROVE  u \in Transfers(r) /\ u # t
      BY CallSubsets
    <3>1. spc'[u] \in Moving /\ call'[u] = r
      BY CallSetsNext
    <3>2. u # t
      BY <1>4, <1>5, <3>1
    <3> QED  BY <1>3, <1>4, <3>1, <3>2, CallSets
  <2>2. Opened' = Opened /\ (s \in Opened => s \in {FIDT[f] : f \in Fids})
    BY <1>7 DEF Opened, SockSame, Made
  <2>3. ASSUME NEW r \in Made, sock[r].freed PROVE Transfers(r)' = {}
    <3>1. Transfers(r) = {}
      BY <1>i, <2>3 DEF ProtectInv, Unused
    <3> QED  BY <2>1, <3>1
  <2>4. ASSUME NEW r \in Made, sock'[r].freed, ~ sock[r].freed
        PROVE  /\ sock[r].refcount = 0 /\ r \notin Opened'
               /\ Transfers(r)' = {} /\ Asleep(r)' = {}
    <3>1. /\ r = s /\ sock[s].refcount = 0 /\ Transfers(s) \subseteq {t}
          /\ s \notin {FIDT[f] : f \in Fids}
      BY <1>7, <2>4
    <3>2. Asleep(s) = {}
      BY SleepInListeners
    <3>3. Asleep(r)' = {}
      BY <1>6, <3>1, <3>2, StayEffect
    <3> QED  BY <2>1, <2>2, <3>1, <3>3
  <2> QED  BY <2>2, <2>3, <2>4 DEF MovesRightly
<1> QED  BY <1>6, <1>7, <1>8, <1>9, BytesPreserve

\* So does every step of a call of Read() or Write().
LEMMA TransferLoopPreserves ==
    ASSUME SocketIInv, NEW t \in Callers, Transferring(t),
           NEW s \in Made, sock[s].type = "PEER", ~ sock[s].freed,
           NEW dir \in {"read", "write"}, TransferLoop(t, s, dir)
    PROVE  SocketIInv'
  BY CrashPreserves, WaitsPreserve, EndsPreserve DEF TransferLoop

\* Read() and Write() begin.
LEMMA TransferPreserves ==
    ASSUME SocketIInv, NEW t \in Callers, NEW f \in Fids,
           NEW dir \in {"read", "write"}, Transfer(t, f, dir)
    PROVE  SocketIInv'
<1>1. PICK s : s = FIDT[f]
  OBVIOUS
<1>2. s \in Made /\ s \in Opened /\ sock[s].type = "PEER" /\ TransferLoop(t, s, dir)
  BY <1>1 DEF Transfer, SocketIInv, FidInv, Opened, Made
<1>3. ~ sock[s].freed
  BY <1>2 DEF SocketIInv, ProtectInv
<1>4. Transferring(t)
  BY DEF Transfer, Transferring, InConnect, Accepting
<1> QED  BY <1>2, <1>3, <1>4, TransferLoopPreserves

\* Read() and Write() go on after they slept.
LEMMA TransferResumePreserves ==
    ASSUME SocketIInv, NEW t \in Callers, TransferResume(t)
    PROVE  SocketIInv'
<1>1. PICK dir \in {"read", "write"} :
         spc[t] = AfterSignal[dir] /\ TransferLoop(t, call[t], dir)
  BY DEF TransferResume
<1>2. PICK s : s = call[t]
  OBVIOUS
<1>3. spc[t] \in {"read_woken", "write_woken"}
  BY <1>1 DEF AfterSignal
<1>4. Transferring(t) /\ spc[t] \in Moving
  BY <1>3 DEF Transferring, InConnect, Accepting, Moving
<1>5. s \in Made /\ sock[s].type = "PEER"
  BY <1>2, <1>4 DEF SocketIInv, TransferInv
<1>6. ~ sock[s].freed
  <2>1. t \in Transfers(s)
    BY <1>2, <1>4, CallSets
  <2> QED  BY <1>5, <2>1 DEF SocketIInv, ProtectInv, Unused
<1> QED  BY <1>1, <1>2, <1>4, <1>5, <1>6, TransferLoopPreserves

\* ShutDown() closes ends of the two pipes of a connection.
LEMMA ShutDownPreserves ==
    ASSUME SocketIInv, NEW f \in Fids, NEW how \in Directions, ShutDown(f, how)
    PROVE  SocketIInv'
<1> DEFINE s == FIDT[f]
           rp == read_pipe(s)
           wp == write_pipe(s)
<1>1. UNCHANGED <<FIDT, Port_Map, sock, req, waitset, call>>
  BY DEF ShutDown
<1>2. pipe \in [Pipes -> PipeRecord]
  BY DEF SocketIInv, SocketTypes
<1>3. rp \in Pipes /\ wp \in Pipes
  <2>1. s \in Made /\ sock[s].type = "PEER"
    BY DEF ShutDown, SocketIInv, FidInv
  <2> QED  BY <2>1, PeerPipes DEF SocketIInv
<1>4. SameCalls /\ spc' \in [Callers -> PCs]
  <2>1. PICK ts : spc' = Woken(ts)
    BY DEF ShutDown
  <2> QED  BY <1>1, <2>1, WakingEffect DEF SocketIInv
<1>5. PICK again \in {0, 1} :
         pipe' = LET afterRead == IF "reader" \in how
                                  THEN CloseEnd(pipe, rp, "reader", again) ELSE pipe
                 IN  IF "writer" \in how
                     THEN CloseEnd(afterRead, wp, "writer", again) ELSE afterRead
  BY DEF ShutDown
<1> DEFINE mid == IF "reader" \in how THEN CloseEnd(pipe, rp, "reader", again) ELSE pipe
<1>6. pipe' = IF "writer" \in how THEN CloseEnd(mid, wp, "writer", again) ELSE mid
  BY <1>5
<1> HIDE DEF rp, wp
<1>7. /\ mid \in [Pipes -> PipeRecord]
      /\ \A k \in Pipes : /\ mid[k].reader => pipe[k].reader
                          /\ mid[k].writer => pipe[k].writer
                          /\ Good(pipe[k]) => Good(mid[k])
  <2>1. CASE "reader" \in how
    <3>1. mid = CloseEnd(pipe, rp, "reader", again) /\ AnEnd("reader")
      BY <2>1 DEF AnEnd
    <3> HIDE DEF mid
    <3>2. EndClosed(pipe, rp, "reader", mid)
      BY <1>2, <1>3, <3>1, CloseEndEffect
    <3> QED  BY <1>3, <3>2 DEF EndClosed
  <2>2. CASE ~ ("reader" \in how)
    BY <1>2, <2>2
  <2> QED  BY <2>1, <2>2
<1> HIDE DEF mid
<1>8. PipesClose
  <2>1. CASE "writer" \in how
    <3>1. pipe' = CloseEnd(mid, wp, "writer", again) /\ AnEnd("writer")
      BY <1>6, <2>1 DEF AnEnd
    <3>2. EndClosed(mid, wp, "writer", pipe')
      BY <1>3, <1>7, <3>1, CloseEndEffect
    <3> QED  BY <1>3, <1>7, <3>2 DEF EndClosed, PipesClose
  <2>2. CASE ~ ("writer" \in how)
    BY <1>6, <1>7, <2>2 DEF PipesClose
  <2> QED  BY <2>1, <2>2
<1> QED  BY <1>1, <1>4, <1>8, PipesOnly

\* Connections stay sound when neither their ends nor their pipes change.
LEMMA ConnectionSame ==
    ASSUME ConnectionSound, PeerInv, Made' = Made, pipe' = pipe,
           \A r \in Made : /\ sock'[r].type = sock[r].type
                           /\ sock'[r].conn = sock[r].conn
                           /\ sock'[r].peer = sock[r].peer
                           /\ sock'[r].freed = sock[r].freed
    PROVE  ConnectionSound'
<1>1. \A r \in Made : sock[r].type = "PEER" =>
         /\ Good(pipe[read_pipe(r)]) => Good(pipe'[read_pipe(r)])
         /\ sock'[r].freed => /\ ~ pipe'[read_pipe(r)].reader
                              /\ ~ pipe'[write_pipe(r)].writer
  BY DEF ConnectionSound, Made
<1> QED  BY <1>1, ConnectionKept

\* Steps in which one thread begins or ends a call, and may wake others.
OthersStay(t) ==
    /\ \A u \in Callers : u # t =>
          /\ call'[u] = call[u]
          /\ spc'[u] \in InConnect <=> spc[u] \in InConnect
          /\ spc'[u] \in Accepting <=> spc[u] \in Accepting
          /\ spc'[u] \in Moving <=> spc[u] \in Moving
          /\ spc'[u] = "connect" => spc[u] = "connect"
    /\ \A n \in Asked : req'[n].peer = req[n].peer /\ req'[n].listener = req[n].listener

\* The calls of the others are what they were.
LEMMA OthersEffect ==
    ASSUME SocketIInv, NEW t \in Callers, OthersStay(t), NEW r, NEW u \in Callers, u # t
    PROVE  /\ u \in Counted(r)' <=> u \in Counted(r)
           /\ u \in Transfers(r)' <=> u \in Transfers(r)
           /\ u \in Asleep(r)' => u \in Asleep(r)
<1>1. spc[u] \in InConnect =>
         /\ req'[call[u]].peer = req[call[u]].peer
         /\ req'[call[u]].listener = req[call[u]].listener
  BY DEF SocketIInv, RequestInv, OthersStay
<1>2. /\ call'[u] = call[u]
      /\ spc'[u] \in InConnect <=> spc[u] \in InConnect
      /\ spc'[u] \in Accepting <=> spc[u] \in Accepting
      /\ spc'[u] \in Moving <=> spc[u] \in Moving
      /\ spc'[u] = "connect" => spc[u] = "connect"
  BY DEF OthersStay
<1>3. spc[u] = "connect" => spc[u] \in InConnect
  BY DEF InConnect
<1> QED  BY <1>1, <1>2, <1>3, CallSets, CallSetsNext

\* A call of Accept() or Connect() is no transfer, and peers stay peers.
LEMMA OthersTransfer ==
    ASSUME SocketIInv, NEW t \in Callers, OthersStay(t), spc'[t] \notin Moving,
           Made \subseteq Made',
           \A r \in Made : sock[r].type = "PEER" => sock'[r].type = "PEER"
    PROVE  TransferInv'
  BY DEF SocketIInv, TransferInv, OthersStay

\* cv_signal() reaches a part of the ring.
LEMMA ReachedIsPart ==
    ASSUME NEW ring \in Seq(Callers)
    PROVE  Reached(ring) \in 0 .. Len(ring)
<1> DEFINE asleep == {i \in DOMAIN ring : spc[ring[i]] \in {"accept", "connect"}}
<1>1. DOMAIN ring = 1 .. Len(ring) /\ Len(ring) \in Nat
  OBVIOUS
<1>2. asleep \in SUBSET Nat /\ asleep \subseteq 1 .. Len(ring)
  BY <1>1
<1>3. Reached(ring) = IF asleep = {} THEN Len(ring)
                      ELSE CHOOSE i \in asleep : \A j \in asleep : i <= j
  BY DEF Reached
<1> HIDE DEF asleep
<1>4. CASE asleep = {}
  BY <1>1, <1>3, <1>4
<1>5. CASE asleep # {}
  <2>1. \E i \in asleep : \A j \in asleep : i <= j
    BY <1>2, <1>5, LeastNumber
  <2>2. Reached(ring) \in asleep
    BY <1>3, <1>5, <2>1
  <2>3. Reached(ring) \in 1 .. Len(ring)
    BY <1>2, <2>2
  <2> HIDE DEF asleep
  <2> QED  BY <1>1, <2>3
<1> QED  BY <1>4, <1>5

\* Those it did not reach stay in the ring, and a new one is added.
LEMMA RingEffect ==
    ASSUME NEW ring \in Seq(Callers), NEW t \in Callers,
           NEW after, after = Append(Unreached(ring), t)
    PROVE  /\ after \in Seq(Callers) /\ t \in Members(after)
           /\ Members(ring) \ Signalled(ring) \subseteq Members(after)
<1> DEFINE rest == Unreached(ring)
<1>0. PICK k \in 0 .. Len(ring) : k = Reached(ring)
  BY ReachedIsPart
<1>1. Len(ring) \in Nat /\ k \in Nat
  OBVIOUS
<1>2. /\ rest \in Seq(Callers) /\ Len(rest) = Len(ring) - k
      /\ \A i \in 1 .. Len(ring) - k : rest[i] = ring[i + k]
  <2>1. \A i \in 1 .. Len(ring) : ring[i] \in Callers
    OBVIOUS
  <2>0. rest = SubSeq(ring, k + 1, Len(ring))
    BY <1>0 DEF Unreached
  <2> HIDE DEF rest
  <2>2. rest = [i \in 1 .. (IF k + 1 <= Len(ring) THEN Len(ring) - k ELSE 0)
                   |-> ring[i + k]]
    BY <1>1, <2>0
  <2>3. (IF k + 1 <= Len(ring) THEN Len(ring) - k ELSE 0) = Len(ring) - k
        /\ Len(ring) - k \in Nat
    BY <1>1
  <2>4. rest = [i \in 1 .. Len(ring) - k |-> ring[i + k]]
    BY <2>2, <2>3
  <2>5. \A i \in 1 .. Len(ring) - k : ring[i + k] \in Callers
    BY <1>1, <2>1
  <2> QED  BY <2>3, <2>4, <2>5
<1>3. \A u \in Members(ring) \ Signalled(ring) : u \in Members(rest)
  <2> SUFFICES ASSUME NEW i \in 1 .. Len(ring), ring[i] \notin {ring[j] : j \in 1 .. k}
               PROVE  ring[i] \in Members(rest)
    BY <1>0 DEF Members, Signalled
  <2>1. i \notin 1 .. k
    OBVIOUS
  <2>2. i - k \in 1 .. Len(ring) - k /\ (i - k) + k = i
    BY <1>1, <2>1
  <2> HIDE DEF rest
  <2>3. rest[i - k] = ring[i] /\ i - k \in 1 .. Len(rest)
    BY <1>2, <2>2
  <2> QED  BY <2>3 DEF Members
<1> HIDE DEF rest
<1>4. after = Append(rest, t)
  BY DEF rest
<1>5. after \in Seq(Callers) /\ Members(after) = Members(rest) \cup {t}
  <2>1. rest \in Seq(Callers)
    BY <1>2
  <2>2. /\ Append(rest, t) \in Seq(Callers)
        /\ Members(Append(rest, t)) = Members(rest) \cup {t}
    BY <2>1, AppendMembers
  <2> QED  BY <1>4, <2>2
<1> QED  BY <1>3, <1>5

\* Connect() c of t, with request n to the listener l, in whose ring w others
\* wait.
Queued(t, f, p, c, l, n, w) ==
    /\ c = FIDT[f] /\ l = Port_Map[p] /\ n = Len(req) + 1
    /\ w = waitset[l]
    /\ spc[t] = "idle" /\ Len(req) < MaxRequests /\ l # NULL /\ c # NULL
    /\ sock[l].type = "LISTENER" /\ sock[c].type = "UNBOUND" /\ ~ Connecting(c)
    /\ req' = Append(req, [admitted |-> FALSE, peer |-> c, listener |-> l,
                           caller |-> t, result |-> 1])
    /\ sock' = [sock EXCEPT ![c].refcount = @ + 1, ![l].queue = <<n>> \o @]
    /\ spc' = [Woken(Signalled(w)) EXCEPT ![t] = "connect"]
    /\ waitset' = [waitset EXCEPT ![l] = Append(Unreached(w), t)]
    /\ call' = [call EXCEPT ![t] = n]
    /\ UNCHANGED <<FIDT, Port_Map, pipe>>

\* It queues a request, wakes a thread of the listener and waits.
LEMMA ConnectQueues ==
    ASSUME SocketIInv, ~ Reuse, NEW t \in Callers, NEW f \in Fids, NEW p \in Ports,
           NEW c, NEW l, NEW n, NEW w, Queued(t, f, p, c, l, n, w)
    PROVE  SocketIInv'
<1> DEFINE ts == Signalled(w)
           after == Append(Unreached(w), t)
           rec == [admitted |-> FALSE, peer |-> c, listener |-> l, caller |-> t,
                   result |-> 1]
<1>i. /\ SocketTypes /\ FidInv /\ RequestInv /\ BacklogInv /\ ListenerInv
      /\ TransferInv /\ SleepInv /\ PendingInv /\ PeerInv
      /\ PortMapSound /\ ProtectInv /\ ConnectionSound
  BY DEF SocketIInv
<1>u. UNCHANGED <<FIDT, Port_Map, pipe>>
  BY DEF Queued
<1>1. /\ c \in Made /\ c \in Opened /\ c \in Socks /\ sock[c].type = "UNBOUND"
      /\ l \in Made /\ l \in Opened /\ l \in Socks /\ sock[l].type = "LISTENER"
      /\ c # l /\ ~ Connecting(c) /\ spc[t] = "idle"
  <2>1. /\ c # NULL /\ l # NULL /\ sock[c].type = "UNBOUND"
        /\ sock[l].type = "LISTENER" /\ ~ Connecting(c) /\ spc[t] = "idle"
    BY DEF Queued
  <2>2. c \in Made /\ c \in Opened
    BY <1>i, <2>1 DEF Queued, FidInv, Opened, Made
  <2>3. l \in Made /\ l \in Opened
    BY <1>i, <2>1 DEF Queued, PortMapSound, Opened, Made
  <2> QED  BY <1>i, <2>1, <2>2, <2>3, Parts
<1>2. /\ n \in Reqs /\ n \notin Asked /\ n \in Nat
  BY <1>i, Parts, ConstantFacts DEF Queued, Reqs, Asked
<1>3. /\ req' \in Seq(RequestRecord) /\ Len(req') = n /\ Asked' = Asked \cup {n}
      /\ \A m \in Asked : req'[m] = req[m]
      /\ req'[n] = rec
  <2>1. rec \in RequestRecord
    BY <1>1 DEF RequestRecord
  <2>2. req \in Seq(RequestRecord) /\ req' = Append(req, rec)
    BY <1>i DEF SocketTypes, Queued
  <2> HIDE DEF rec
  <2>3. /\ req' \in Seq(RequestRecord) /\ Len(req') = n
        /\ \A m \in 1 .. Len(req) : req'[m] = req[m]
        /\ req'[n] = rec /\ n = Len(req) + 1
    BY <2>1, <2>2 DEF Queued
  <2>4. 1 .. Len(req') = 1 .. Len(req) \cup {n}
    BY <1>i, <2>3, Parts
  <2> QED  BY <2>3, <2>4 DEF Asked
<1>4. /\ rec.admitted = FALSE /\ rec.peer = c /\ rec.listener = l
      /\ rec.caller = t /\ rec.result = 1
  OBVIOUS
<1>5. /\ <<n>> \o sock[l].queue \in Seq(Reqs)
      /\ Members(<<n>> \o sock[l].queue) = {n} \cup Members(sock[l].queue)
      /\ Distinct(<<n>> \o sock[l].queue)
  <2>1. n \notin Members(sock[l].queue) /\ Distinct(sock[l].queue)
    BY <1>1, <1>2, <1>i DEF BacklogInv
  <2>2. sock[l].queue \in Seq(Reqs)
    BY <1>1, <1>i, Parts
  <2> QED  BY <1>2, <2>1, <2>2, FrontMembers
<1>6. /\ sock' \in Seq(SocketRecord) /\ Len(sock') = Len(sock) /\ Made' = Made
      /\ \A r \in Made :
            /\ sock'[r].type = sock[r].type
            /\ sock'[r].port = sock[r].port
            /\ sock'[r].refcount = IF r = c THEN sock[r].refcount + 1
                                   ELSE sock[r].refcount
            /\ sock'[r].freed = sock[r].freed
            /\ sock'[r].queue = IF r = l THEN <<n>> \o sock[r].queue
                                ELSE sock[r].queue
            /\ sock'[r].conn = sock[r].conn
            /\ sock'[r].peer = sock[r].peer
  <2> DEFINE qu == <<n>> \o sock[l].queue
             xc == [sock[c] EXCEPT !.refcount = @ + 1]
             xl == [sock[l] EXCEPT !.queue = qu]
             mid == [sock EXCEPT ![c] = xc]
  <2>1. sock[c] \in SocketRecord /\ sock[l] \in SocketRecord /\ qu \in Seq(Reqs)
    BY <1>1, <1>5, <1>i, Parts
  <2>2. sock[c].refcount + 1 \in Int
    BY <1>1, <1>i, Parts
  <2>3. sock \in Seq(SocketRecord) /\ sock \in [Made -> SocketRecord]
    BY <1>i, Parts DEF SocketTypes
  <2>4. sock' = [mid EXCEPT ![l] = xl]
    BY <1>1, <2>3 DEF Queued
  <2> HIDE DEF qu
  <2>5. /\ xc \in SocketRecord /\ xc.type = sock[c].type /\ xc.port = sock[c].port
        /\ xc.refcount = sock[c].refcount + 1 /\ xc.freed = sock[c].freed
        /\ xc.queue = sock[c].queue /\ xc.conn = sock[c].conn /\ xc.peer = sock[c].peer
    BY <2>1, <2>2 DEF SocketRecord
  <2>6. /\ xl \in SocketRecord /\ xl.type = sock[l].type /\ xl.port = sock[l].port
        /\ xl.refcount = sock[l].refcount /\ xl.freed = sock[l].freed
        /\ xl.queue = qu /\ xl.conn = sock[l].conn /\ xl.peer = sock[l].peer
    BY <2>1 DEF SocketRecord
  <2> HIDE DEF xc, xl
  <2>7. /\ mid \in Seq(SocketRecord) /\ Len(mid) = Len(sock)
        /\ \A r \in 1 .. Len(sock) : mid[r] = IF r = c THEN xc ELSE sock[r]
    BY <1>1, <2>3, <2>5, ExceptSeq DEF Made
  <2> HIDE DEF mid
  <2>8. l \in 1 .. Len(mid)
    BY <1>1, <2>7 DEF Made
  <2>9. /\ sock' \in Seq(SocketRecord) /\ Len(sock') = Len(mid)
        /\ \A r \in 1 .. Len(mid) : sock'[r] = IF r = l THEN xl ELSE mid[r]
    BY <2>4, <2>6, <2>7, <2>8, ExceptSeq
  <2>10. Made' = Made
    BY <2>7, <2>9 DEF Made
  <2>11. \A r \in Made :
            sock'[r] = IF r = l THEN xl ELSE IF r = c THEN xc ELSE sock[r]
    BY <2>7, <2>9 DEF Made
  <2> QED  BY <1>1, <2>5, <2>6, <2>7, <2>9, <2>10, <2>11 DEF qu
<1>7. w \in Seq(Callers)
  BY <1>1, <1>i DEF SocketTypes, Queued
<1>8. /\ after \in Seq(Callers) /\ t \in Members(after)
      /\ Members(w) \ ts \subseteq Members(after)
  <2>1. after = Append(Unreached(w), t)
    OBVIOUS
  <2> HIDE DEF after
  <2> QED  BY <1>7, <2>1, RingEffect
<1> HIDE DEF rec
<1>10. /\ spc' = [Woken(ts) EXCEPT ![t] = "connect"]
       /\ waitset' = [waitset EXCEPT ![l] = after]
       /\ call' = [call EXCEPT ![t] = n]
  BY DEF Queued
<1> HIDE DEF ts, after
<1>11. /\ waitset' \in [Socks -> Seq(Callers)]
       /\ \A r \in Socks : waitset'[r] = IF r = l THEN after ELSE waitset[r]
  <2>1. waitset \in [Socks -> Seq(Callers)]
    BY <1>i DEF SocketTypes
  <2> QED  BY <1>1, <1>8, <1>10, <2>1
<1>12. /\ spc' \in [Callers -> PCs]
       /\ spc'[t] = "connect"
       /\ \A u \in Callers : u # t =>
             /\ spc'[u] \in InConnect <=> spc[u] \in InConnect
             /\ spc'[u] \in Accepting <=> spc[u] \in Accepting
             /\ spc'[u] \in Moving <=> spc[u] \in Moving
             /\ spc'[u] = "connect" => spc[u] = "connect" /\ u \notin ts
  <2>1. PICK pc : pc = Woken(ts)
    OBVIOUS
  <2>2. spc' = [pc EXCEPT ![t] = "connect"]
    BY <1>10, <2>1
  <2>4. /\ pc \in [Callers -> PCs]
        /\ \A u \in Callers :
              /\ pc[u] \in InConnect <=> spc[u] \in InConnect
              /\ pc[u] \in Accepting <=> spc[u] \in Accepting
              /\ pc[u] \in Moving <=> spc[u] \in Moving
              /\ pc[u] = "connect" => spc[u] = "connect" /\ u \notin ts
    BY <1>i, <2>1, WokenEffect
  <2>5. "connect" \in PCs
    BY DEF PCs, InConnect
  <2>6. \A u \in Callers : spc'[u] = IF u = t THEN "connect" ELSE pc[u]
    BY <2>2, <2>4
  <2>7. spc' \in [Callers -> PCs]
    BY <2>2, <2>4, <2>5
  <2> QED  BY <2>4, <2>6, <2>7
<1>13. /\ call' \in [Callers -> Nat]
       /\ \A u \in Callers : call'[u] = IF u = t THEN n ELSE call[u]
  BY <1>2, <1>10, <1>i DEF SocketTypes
<1>14. Opened' = Opened
  BY <1>6, <1>u DEF Opened, Made
<1>15. /\ spc[t] \notin Accepting /\ spc[t] \notin InConnect /\ spc[t] \notin Moving
       /\ spc'[t] \notin Accepting /\ spc'[t] \in InConnect /\ spc'[t] \notin Moving
  BY <1>1, <1>12 DEF Accepting, InConnect, Moving
<1>o. OthersStay(t)
  BY <1>3, <1>12, <1>13 DEF OthersStay
<1>16. SocketTypes'
  <2>1. Len(req') <= MaxRequests
    BY <1>2, <1>3, ConstantFacts DEF Reqs
  <2> QED  BY <1>3, <1>6, <1>11, <1>12, <1>13, <1>i, <1>u, <2>1 DEF SocketTypes
<1>17. FidInv' /\ PortMapSound'
  <2>1. Opened \subseteq Made
    BY DEF Opened, Made
  <2>2. FidInv'
    BY <1>6, <1>i, <1>u DEF FidInv
  <2> QED  BY <1>6, <1>14, <1>i, <1>u, <2>1, <2>2 DEF PortMapSound
<1>18. RequestInv'
  <2>1. ASSUME NEW m \in Asked
        PROVE  /\ req'[m].peer \in Made'
               /\ req'[m].result = 1 => /\ spc'[req'[m].caller] \in InConnect
                                        /\ call'[req'[m].caller] = m
    <3>1. /\ req'[m] = req[m] /\ req[m].peer \in Made /\ req[m].caller \in Callers
          /\ req[m].result = 1 => /\ spc[req[m].caller] \in InConnect
                                  /\ call[req[m].caller] = m
      BY <1>3, <1>i, Parts DEF RequestInv
    <3> QED  BY <1>6, <1>12, <1>13, <1>15, <3>1
  <2>2. /\ req'[n].peer \in Made' /\ req'[n].caller = t /\ req'[n].result = 1
        /\ spc'[t] \in InConnect /\ call'[t] = n /\ n \in Asked'
    BY <1>1, <1>3, <1>4, <1>6, <1>13, <1>15
  <2>3. ASSUME NEW u \in Callers, u # t, spc'[u] \in InConnect
        PROVE  call'[u] \in Asked' /\ req'[call'[u]].caller = u
               /\ req'[call'[u]].result = 1
    <3>1. call'[u] = call[u] /\ call[u] \in Asked /\ req[call[u]].caller = u
          /\ req[call[u]].result = 1
      BY <1>12, <1>13, <1>i, <2>3 DEF RequestInv
    <3> QED  BY <1>3, <3>1
  <2> QED  BY <1>3, <2>1, <2>2, <2>3 DEF RequestInv
<1>19. BacklogInv'
  <2>1. \A r \in Made : Members(sock[r].queue) \subseteq Asked
    BY <1>i DEF BacklogInv
  <2>2. \A r \in Made :
           /\ r # l => sock'[r].queue = sock[r].queue
           /\ r = l => /\ Members(sock'[r].queue) = {n} \cup Members(sock[r].queue)
                       /\ Distinct(sock'[r].queue)
    BY <1>5, <1>6
  <2>3. \A r \in Made : Distinct(sock'[r].queue)
    BY <1>i, <2>2 DEF BacklogInv
  <2>4. \A r \in Made : Members(sock'[r].queue) =
           IF r = l THEN {n} \cup Members(sock[r].queue) ELSE Members(sock[r].queue)
    BY <2>2
  <2>5. \A r \in Made : \A m \in Members(sock'[r].queue) :
           m \in Asked' /\ ~ req'[m].admitted
    BY <1>3, <1>4, <1>i, <2>4 DEF BacklogInv
  <2>6. ASSUME NEW r \in Made, NEW q \in Made, NEW m,
               m \in Members(sock'[r].queue), m \in Members(sock'[q].queue)
        PROVE  r = q
    <3>1. CASE m = n
      <4>1. \A m1 \in Made : n \notin Members(sock[m1].queue)
        BY <1>2, <2>1
      <4> QED  BY <2>4, <2>6, <3>1, <4>1
    <3>2. CASE m # n
      <4>1. m \in Members(sock[r].queue) /\ m \in Members(sock[q].queue)
        BY <2>4, <2>6, <3>2
      <4> QED  BY <1>i, <4>1 DEF BacklogInv
    <3> QED  BY <3>1, <3>2
  <2> QED  BY <1>6, <2>3, <2>5, <2>6 DEF BacklogInv
<1>20. ListenerInv'
  <2>1. \A r \in Made : sock'[r].type = "LISTENER" => sock'[r].port \in Ports
    BY <1>6, <1>i DEF ListenerInv
  <2>2. \A u \in Callers : spc'[u] \in Accepting =>
           u # t /\ spc[u] \in Accepting /\ call'[u] = call[u]
    BY <1>12, <1>13, <1>15
  <2>3. \A u \in Callers : spc'[u] \in Accepting =>
           call'[u] \in Made /\ sock'[call'[u]].type = "LISTENER"
    BY <1>6, <1>i, <2>2 DEF ListenerInv
  <2>4. ASSUME NEW m \in Asked'
        PROVE  req'[m].listener \in Made' /\ sock'[req'[m].listener].type = "LISTENER"
    <3>1. CASE m = n
      BY <1>1, <1>3, <1>4, <1>6, <3>1
    <3>2. CASE m # n
      <4>1. m \in Asked /\ req'[m] = req[m]
        BY <1>3, <3>2
      <4> QED  BY <1>6, <1>i, <4>1 DEF ListenerInv
    <3> QED  BY <3>1, <3>2
  <2> QED  BY <1>6, <2>1, <2>3, <2>4 DEF ListenerInv
<1>21. TransferInv' /\ SleepInv'
  <2>1. TransferInv'
    BY <1>6, <1>15, <1>o, OthersTransfer
  <2>2. ASSUME NEW r \in Socks, NEW u \in Callers, u \in Asleep(r)'
        PROVE  u \in Members(waitset'[r])
    <3>1. spc'[u] = "connect" /\ req'[call'[u]].listener = r
      BY <2>2, CallSetsNext
    <3>2. CASE u = t
      <4>1. r = l
        BY <1>3, <1>4, <1>13, <3>1, <3>2
      <4> QED  BY <1>8, <1>11, <3>2, <4>1
    <3>3. CASE u # t
      <4>1. u \in Asleep(r) /\ u \notin ts
        BY <1>12, <1>o, <2>2, <3>1, <3>3, OthersEffect
      <4>2. u \in Members(waitset[r])
        BY <1>i, <4>1 DEF SleepInv
      <4>3. CASE r = l
        BY <1>8, <1>11, <4>1, <4>2, <4>3 DEF Queued
      <4>4. CASE r # l
        BY <1>11, <4>2, <4>4
      <4> QED  BY <4>3, <4>4
    <3> QED  BY <3>2, <3>3
  <2> QED  BY <2>1, <2>2, CallSubsets DEF SleepInv
<1>22. PendingInv'
  <2>1. \A u \in Callers : u # t /\ spc'[u] \in InConnect =>
           /\ spc[u] \in InConnect /\ call'[u] = call[u]
           /\ req'[call[u]] = req[call[u]]
           /\ req[call[u]].peer \in Made /\ req[call[u]].peer # c
    <3>1. \A u \in Callers : spc[u] \in InConnect =>
             call[u] \in Asked /\ req[call[u]].peer \in Made /\ req[call[u]].peer # c
      BY <1>1, <1>i DEF RequestInv, Connecting
    <3> QED  BY <1>3, <1>12, <1>13, <3>1
  <2>2. call'[t] = n /\ req'[n].peer = c /\ sock'[c].type = "UNBOUND"
    BY <1>1, <1>3, <1>4, <1>6, <1>13
  <2>3. ASSUME NEW u \in Callers, spc'[u] \in InConnect, ~ req'[call'[u]].admitted
        PROVE  sock'[req'[call'[u]].peer].type = "UNBOUND"
    BY <1>6, <1>i, <2>1, <2>2, <2>3 DEF PendingInv
  <2>4. ASSUME NEW u \in Callers, NEW v \in Callers, spc'[u] \in InConnect,
               spc'[v] \in InConnect, req'[call'[u]].peer = req'[call'[v]].peer
        PROVE  u = v
    BY <1>i, <2>1, <2>2, <2>4 DEF PendingInv
  <2> QED  BY <2>3, <2>4 DEF PendingInv
<1>23. PeerInv'
  BY <1>3, <1>6, <1>i DEF PeerInv
<1>24. ProtectInv'
  <2>1. call'[t] = n /\ req'[n].peer = c /\ req'[n].listener = l
    BY <1>3, <1>4, <1>13
  <2>2. \A r : /\ t \in Counted(r)' <=> r = c
               /\ t \notin Counted(r) /\ t \notin Transfers(r)'
               /\ t \in Asleep(r)' => r = l
    BY <1>15, <2>1, CallSets, CallSetsNext
  <2>3. \A r : \A u \in Callers : u # t =>
           /\ u \in Counted(r)' <=> u \in Counted(r)
           /\ u \in Transfers(r)' <=> u \in Transfers(r)
           /\ u \in Asleep(r)' => u \in Asleep(r)
    BY <1>o, OthersEffect
  <2>4. \A r : r = c => Counted(r)' = Counted(r) \cup {t}
    BY <2>2, <2>3, CallSubsets
  <2>5. \A r : r # c => Counted(r)' = Counted(r)
    BY <2>2, <2>3, CallSubsets
  <2>6. Cardinality(Counted(c) \cup {t}) = Cardinality(Counted(c)) + 1
    BY <2>2, CallsFinite, FS_AddElement
  <2>7. \A r \in Made : /\ sock[r].refcount = Cardinality(Counted(r))
                        /\ sock[r].freed => r \notin Opened /\ Unused(r)
    BY <1>i DEF ProtectInv
  <2>8. ASSUME NEW r \in Made
        PROVE  /\ sock'[r].refcount = Cardinality(Counted(r)')
               /\ sock'[r].freed => r \notin Opened' /\ Unused(r)'
    <3>1. CASE r = c
      <4>1. /\ sock'[r].refcount = sock[r].refcount + 1
            /\ sock[r].refcount = Cardinality(Counted(r))
        BY <1>1, <1>6, <2>7, <3>1
      <4>2. Cardinality(Counted(r)') = Cardinality(Counted(r)) + 1
        BY <2>4, <2>6, <3>1
      <4>3. ~ sock'[r].freed
        BY <1>1, <1>6, <2>7, <3>1
      <4> QED  BY <4>1, <4>2, <4>3
    <3>2. CASE r # c
      <4>1. sock'[r].refcount = Cardinality(Counted(r)')
        BY <1>6, <2>5, <2>7, <3>2
      <4>2. ASSUME sock'[r].freed PROVE r \notin Opened' /\ Unused(r)'
        <5>1. r \notin Opened /\ Unused(r)
          BY <1>6, <2>7, <4>2
        <5>2. r # l /\ r \notin Opened'
          BY <1>1, <1>14, <5>1
        <5>3. \A u \in Callers : /\ u \notin Counted(r)' /\ u \notin Transfers(r)'
                                 /\ u \notin Asleep(r)'
          BY <2>2, <2>3, <3>2, <5>1, <5>2 DEF Unused
        <5> QED  BY <5>2, <5>3, CallSubsets DEF Unused
      <4> QED  BY <4>1, <4>2
    <3> QED  BY <3>1, <3>2
  <2> QED  BY <1>6, <2>8 DEF ProtectInv
<1>25. ConnectionSound'
  BY <1>6, <1>i, <1>u, ConnectionSame
<1> QED  BY <1>16, <1>17, <1>18, <1>19, <1>20, <1>21, <1>22, <1>23, <1>24, <1>25
         DEF SocketIInv

\* Connect() queues a request, or meets one that is gone.
LEMMA ConnectPreserves ==
    ASSUME SocketIInv, ~ Reuse, NEW t \in Callers, NEW f \in Fids,
           NEW p \in Ports, Connect(t, f, p)
    PROVE  SocketIInv'
<1>1. PICK c, l, n : c = FIDT[f] /\ l = Port_Map[p] /\ n = Len(req) + 1
  OBVIOUS
<1>2. PICK w : w = waitset[l]
  OBVIOUS
<1>3. CASE Crash("request")
  BY <1>3, CrashPreserves
<1>4. CASE ~ Crash("request")
  <2>1. /\ spc[t] = "idle" /\ Len(req) < MaxRequests /\ l # NULL /\ c # NULL
        /\ sock[l].type = "LISTENER" /\ sock[c].type = "UNBOUND" /\ ~ Connecting(c)
    BY <1>1, <1>4 DEF Connect
  <2>2. /\ req' = Append(req, [admitted |-> FALSE, peer |-> c, listener |-> l,
                               caller |-> t, result |-> 1])
        /\ sock' = [sock EXCEPT ![c].refcount = @ + 1, ![l].queue = <<n>> \o @]
        /\ call' = [call EXCEPT ![t] = n]
        /\ UNCHANGED <<FIDT, Port_Map, pipe>>
    BY <1>1, <1>4 DEF Connect
  <2>3. /\ spc' = [Woken(Signalled(w)) EXCEPT ![t] = "connect"]
        /\ waitset' = [waitset EXCEPT ![l] = Append(Unreached(w), t)]
    BY <1>1, <1>2, <1>4 DEF Connect
  <2>4. Queued(t, f, p, c, l, n, w)
    BY <1>1, <1>2, <2>1, <2>2, <2>3 DEF Queued
  <2> QED  BY <2>4, ConnectQueues
<1> QED  BY <1>3, <1>4

\* A timeout makes the thread of Connect() run; the ring stays as it is.
LEMMA TimeoutPreserves ==
    ASSUME SocketIInv, NEW t \in Callers, ConnectTimeout(t)
    PROVE  SocketIInv'
<1>1. /\ UNCHANGED <<FIDT, Port_Map, sock, req, pipe, waitset, call>>
      /\ spc[t] = "connect" /\ spc' = [spc EXCEPT ![t] = "connect_late"]
  BY DEF ConnectTimeout
<1>2. SocketTypes /\ spc \in [Callers -> PCs]
  BY DEF SocketIInv, SocketTypes
<1>3. "connect_late" \in PCs
  BY DEF PCs, InConnect
<1>4. /\ spc' \in [Callers -> PCs]
      /\ \A u \in Callers : spc'[u] = IF u = t THEN "connect_late" ELSE spc[u]
  BY <1>1, <1>2, <1>3
<1>5. SameCalls
  BY <1>1, <1>4 DEF SameCalls, InConnect, Accepting, Moving
<1>6. PipesClose
  BY <1>1, <1>2, PipesUnchanged
<1> QED  BY <1>1, <1>4, <1>5, <1>6, PipesOnly

\* A ring without one of its entries keeps the other threads.
LEMMA RemovedKeeps ==
    ASSUME NEW w \in Seq(Callers), NEW i \in 1 .. Len(w),
           NEW r, r = RemoveAt(w, i)
    PROVE  r \in Seq(Callers) /\ Members(w) \ {w[i]} \subseteq Members(r)
<1>0. PICK x, y : x = SubSeq(w, 1, i - 1) /\ y = SubSeq(w, i + 1, Len(w))
  OBVIOUS
<1>1. /\ Len(w) \in Nat
      /\ x \in Seq(Callers) /\ Len(x) = i - 1
      /\ \A n \in 1 .. i - 1 : x[n] = w[n]
  BY <1>0
<1>2. /\ y \in Seq(Callers) /\ Len(y) = Len(w) - i
      /\ \A n \in 1 .. Len(w) - i : y[n] = w[n + i]
  BY <1>0
<1>3. r = x \o y
  BY <1>0 DEF RemoveAt
<1>4. r \in Seq(Callers) /\ Members(r) = Members(x) \cup Members(y)
  BY <1>1, <1>2, <1>3, ConcatMembers
<1>5. ASSUME NEW n \in 1 .. Len(w), n # i
      PROVE  w[n] \in Members(x) \cup Members(y)
  <2>1. CASE n < i
    BY <1>1, <2>1 DEF Members
  <2>2. CASE n > i
    <3>1. n - i \in 1 .. Len(y) /\ (n - i) + i = n
      BY <1>1, <1>2, <2>2
    <3>2. y[n - i] = w[n]
      BY <1>2, <3>1
    <3> QED  BY <3>1, <3>2 DEF Members
  <2> QED  BY <1>1, <1>5, <2>1, <2>2
<1>6. \A u \in Members(w) \ {w[i]} : u \in Members(x) \cup Members(y)
  BY <1>5 DEF Members
<1> QED  BY <1>4, <1>6

\* A thread that leaves a ring takes nobody else with it.
LEMMA UnlinkedEffect ==
    ASSUME SocketTypes, NEW t \in Callers, NEW s \in Socks, waitset' = Unlinked(t, s)
    PROVE  /\ waitset' \in [Socks -> Seq(Callers)]
           /\ \A r \in Socks : Members(waitset[r]) \ {t} \subseteq Members(waitset'[r])
<1> DEFINE at == {i \in DOMAIN waitset[s] : waitset[s][i] = t}
<1>1. waitset \in [Socks -> Seq(Callers)] /\ waitset[s] \in Seq(Callers)
  BY DEF SocketTypes
<1>2. CASE at = {}
  BY <1>1, <1>2 DEF Unlinked
<1>3. CASE at # {}
  <2>1. PICK i : i \in at /\ waitset' = [waitset EXCEPT ![s] = RemoveAt(@, i)]
    BY <1>3 DEF Unlinked
  <2>2. i \in 1 .. Len(waitset[s]) /\ waitset[s][i] = t
    BY <1>1, <2>1
  <2>3. PICK w : w = RemoveAt(waitset[s], i)
    OBVIOUS
  <2>4. w \in Seq(Callers) /\ Members(waitset[s]) \ {t} \subseteq Members(w)
    BY <1>1, <2>2, <2>3, RemovedKeeps
  <2>5. waitset' = [waitset EXCEPT ![s] = w]
    BY <1>1, <2>1, <2>3
  <2> QED  BY <1>1, <2>4, <2>5
<1> QED  BY <1>2, <1>3

\* Connect() of t returns: its request n, to listener l for socket c, has a
\* result.
Returned(t, n, c, l, res) ==
    /\ n = call[t] /\ c = req[n].peer /\ l = req[n].listener
    /\ spc[t] \in {"connect_woken", "connect_late"}
    /\ res \in {0, -1}
    /\ waitset' = Unlinked(t, l)
    /\ req' = [req EXCEPT ![n].result = res]
    /\ sock' = [sock EXCEPT ![c].refcount = @ - 1]
    /\ spc' = [spc EXCEPT ![t] = "idle"]
    /\ call' = [call EXCEPT ![t] = NULL]
    /\ UNCHANGED <<FIDT, Port_Map, pipe>>

\* The request gets its result and the socket loses a call.
LEMMA ReturnEnds ==
    ASSUME SocketIInv, NEW t \in Callers, NEW n, NEW c, NEW l, NEW res,
           Returned(t, n, c, l, res)
    PROVE  SocketIInv'
<1>i. /\ SocketTypes /\ FidInv /\ RequestInv /\ BacklogInv /\ ListenerInv
      /\ TransferInv /\ SleepInv /\ PendingInv /\ PeerInv
      /\ PortMapSound /\ ProtectInv /\ ConnectionSound
  BY DEF SocketIInv
<1>u. UNCHANGED <<FIDT, Port_Map, pipe>>
  BY DEF Returned
<1>1. /\ spc[t] \in InConnect /\ spc[t] \notin Accepting /\ spc[t] \notin Moving
      /\ n \in Asked /\ c \in Made /\ l \in Socks
      /\ req[n].caller = t /\ req[n].result = 1 /\ call[t] = n /\ req[n].peer = c
  <2>1. spc[t] \in {"connect_woken", "connect_late"} /\ n = call[t]
        /\ c = req[n].peer /\ l = req[n].listener
    BY DEF Returned
  <2>2. spc[t] \in InConnect /\ spc[t] \notin Accepting /\ spc[t] \notin Moving
    BY <2>1 DEF InConnect, Accepting, Moving
  <2>3. /\ n \in Asked /\ c \in Made /\ l \in Made
        /\ req[n].caller = t /\ req[n].result = 1
    BY <1>i, <2>1, <2>2 DEF RequestInv, ListenerInv
  <2> QED  BY <1>i, <2>1, <2>2, <2>3, Parts
<1>2. /\ spc' \in [Callers -> PCs] /\ call' \in [Callers -> Nat]
      /\ spc'[t] \notin Accepting /\ spc'[t] \notin InConnect /\ spc'[t] \notin Moving
      /\ \A u \in Callers : u # t => spc'[u] = spc[u] /\ call'[u] = call[u]
  <2>1. /\ spc' = [spc EXCEPT ![t] = "idle"] /\ call' = [call EXCEPT ![t] = NULL]
        /\ spc \in [Callers -> PCs] /\ "idle" \in PCs
        /\ call \in [Callers -> Nat] /\ NULL \in Nat
    BY <1>i DEF Returned, SocketTypes, NULL, PCs
  <2> QED  BY <2>1 DEF Accepting, InConnect, Moving
<1>3. /\ req' \in Seq(RequestRecord) /\ Len(req') = Len(req) /\ Asked' = Asked
      /\ \A m \in Asked : /\ req'[m].peer = req[m].peer
                          /\ req'[m].listener = req[m].listener
                          /\ req'[m].admitted = req[m].admitted
                          /\ req'[m].caller = req[m].caller
                          /\ m # n => req'[m].result = req[m].result
      /\ req'[n].result # 1
  <2>0. PICK x : x = [req[n] EXCEPT !.result = res]
    OBVIOUS
  <2>1. req \in Seq(RequestRecord) /\ n \in 1 .. Len(req) /\ req[n] \in RequestRecord
    BY <1>1, <1>i, Parts DEF SocketTypes, Asked
  <2>2. req' = [req EXCEPT ![n] = x]
    BY <2>0 DEF Returned
  <2>3. res \in {1, 0, -1} /\ res # 1
    BY DEF Returned
  <2>4. /\ x \in RequestRecord /\ x.peer = req[n].peer /\ x.result = res
        /\ x.listener = req[n].listener
        /\ x.admitted = req[n].admitted /\ x.caller = req[n].caller
    BY <2>0, <2>1, <2>3 DEF RequestRecord
  <2>5. /\ req' \in Seq(RequestRecord) /\ Len(req') = Len(req)
        /\ \A m \in 1 .. Len(req) : req'[m] = IF m = n THEN x ELSE req[m]
    BY <2>1, <2>2, <2>4, ExceptSeq
  <2>6. Asked' = Asked /\ \A m \in Asked : req'[m] = IF m = n THEN x ELSE req[m]
    BY <2>5 DEF Asked
  <2> QED  BY <1>1, <2>3, <2>4, <2>5, <2>6
<1>4. /\ sock' \in Seq(SocketRecord) /\ Len(sock') = Len(sock) /\ Made' = Made
      /\ \A r \in Made :
            /\ sock'[r].type = sock[r].type
            /\ sock'[r].port = sock[r].port
            /\ sock'[r].refcount = IF r = c THEN sock[r].refcount - 1
                                   ELSE sock[r].refcount
            /\ sock'[r].freed = sock[r].freed
            /\ sock'[r].queue = sock[r].queue
            /\ sock'[r].conn = sock[r].conn
            /\ sock'[r].peer = sock[r].peer
  <2>0. PICK x : x = [sock[c] EXCEPT !.refcount = @ - 1]
    OBVIOUS
  <2>1. sock \in Seq(SocketRecord) /\ c \in 1 .. Len(sock) /\ sock[c] \in SocketRecord
    BY <1>1, <1>i, Parts DEF SocketTypes, Made
  <2>2. sock' = [sock EXCEPT ![c] = x]
    BY <2>0 DEF Returned
  <2>3. sock[c].refcount - 1 \in Int
    BY <1>1, <1>i, Parts
  <2>4. /\ x \in SocketRecord /\ x.type = sock[c].type /\ x.port = sock[c].port
        /\ x.refcount = sock[c].refcount - 1 /\ x.freed = sock[c].freed
        /\ x.queue = sock[c].queue /\ x.conn = sock[c].conn /\ x.peer = sock[c].peer
    BY <2>0, <2>1, <2>3 DEF SocketRecord
  <2>5. /\ sock' \in Seq(SocketRecord) /\ Len(sock') = Len(sock)
        /\ \A r \in 1 .. Len(sock) : sock'[r] = IF r = c THEN x ELSE sock[r]
    BY <2>1, <2>2, <2>4, ExceptSeq
  <2>6. Made' = Made /\ \A r \in Made : sock'[r] = IF r = c THEN x ELSE sock[r]
    BY <2>5 DEF Made
  <2> QED  BY <2>4, <2>5, <2>6
<1>5. Opened' = Opened
  BY <1>4, <1>u DEF Opened, Made
<1>o. OthersStay(t)
  BY <1>2, <1>3 DEF OthersStay
<1>6. \A u \in Callers : u # t /\ spc[u] \in InConnect =>
         /\ call[u] \in Asked /\ call[u] # n
         /\ req'[call[u]].caller = u /\ req'[call[u]].result = 1
         /\ req'[call[u]].peer = req[call[u]].peer
         /\ req'[call[u]].admitted = req[call[u]].admitted
  <2>1. \A u \in Callers : u # t /\ spc[u] \in InConnect =>
           call[u] \in Asked /\ call[u] # n /\ req[call[u]].caller = u
           /\ req[call[u]].result = 1
    BY <1>1, <1>i DEF RequestInv
  <2> QED  BY <1>3, <2>1
<1>w. /\ waitset' \in [Socks -> Seq(Callers)]
      /\ \A r \in Socks : Members(waitset[r]) \ {t} \subseteq Members(waitset'[r])
  <2>1. waitset' = Unlinked(t, l)
    BY DEF Returned
  <2> QED  BY <1>1, <1>i, <2>1, UnlinkedEffect
<1>7. SocketTypes'
  BY <1>2, <1>3, <1>4, <1>i, <1>u, <1>w DEF SocketTypes
<1>8. FidInv' /\ PortMapSound'
  <2>1. Opened \subseteq Made
    BY DEF Opened, Made
  <2> QED  BY <1>4, <1>5, <1>i, <1>u, <2>1 DEF FidInv, PortMapSound
<1>9. TransferInv' /\ SleepInv'
  <2>1. TransferInv'
    BY <1>2, <1>4, <1>o, OthersTransfer
  <2>2. ASSUME NEW r \in Socks, NEW u \in Callers, u \in Asleep(r)'
        PROVE  u \in Members(waitset'[r])
    <3>1. u # t
      BY <1>2, <2>2, CallSetsNext
    <3>2. u \in Asleep(r)
      BY <1>o, <2>2, <3>1, OthersEffect
    <3> QED  BY <1>i, <1>w, <3>1, <3>2 DEF SleepInv
  <2> QED  BY <2>1, <2>2, CallSubsets DEF SleepInv
<1>10. RequestInv'
  <2>1. ASSUME NEW m \in Asked
        PROVE  /\ req'[m].peer \in Made'
               /\ req'[m].result = 1 => /\ spc'[req'[m].caller] \in InConnect
                                        /\ call'[req'[m].caller] = m
    <3>1. /\ req[m].peer \in Made /\ req[m].caller \in Callers
          /\ req[m].result = 1 => /\ spc[req[m].caller] \in InConnect
                                  /\ call[req[m].caller] = m
      BY <1>i, Parts DEF RequestInv
    <3>2. req'[m].result = 1 => m # n /\ req[m].result = 1
      BY <1>3
    <3>3. req'[m].result = 1 => req[m].caller # t
      BY <1>1, <3>1, <3>2
    <3> QED  BY <1>2, <1>3, <1>4, <3>1, <3>2, <3>3
  <2>2. \A u \in Callers : spc'[u] \in InConnect =>
           u # t /\ spc[u] \in InConnect /\ call'[u] = call[u]
    BY <1>2
  <2> QED  BY <1>3, <1>6, <2>1, <2>2 DEF RequestInv
<1>11. BacklogInv'
  <2>1. \A r \in Made : sock'[r].queue = sock[r].queue
    BY <1>4
  <2>2. \A m \in Asked : req'[m].admitted = req[m].admitted
    BY <1>3
  <2>3. \A r \in Made : /\ Distinct(sock'[r].queue)
                        /\ \A m \in Members(sock'[r].queue) :
                              m \in Asked /\ ~ req'[m].admitted
    BY <1>i, <2>1, <2>2 DEF BacklogInv
  <2>4. \A r, q \in Made :
           Members(sock'[r].queue) \cap Members(sock'[q].queue) # {} => r = q
    BY <1>i, <2>1 DEF BacklogInv
  <2> QED  BY <1>3, <1>4, <2>3, <2>4 DEF BacklogInv
<1>12. ListenerInv'
  <2>1. \A u \in Callers : spc'[u] \in Accepting =>
           u # t /\ spc[u] \in Accepting /\ call'[u] = call[u]
    BY <1>2
  <2>2. \A m \in Asked : req'[m].listener = req[m].listener
    BY <1>3
  <2> QED  BY <1>3, <1>4, <1>i, <2>1, <2>2 DEF ListenerInv
<1>13. PendingInv'
  <2>1. \A u \in Callers : spc'[u] \in InConnect =>
           u # t /\ spc[u] \in InConnect /\ call'[u] = call[u]
    BY <1>2
  <2>2. \A u \in Callers : spc'[u] \in InConnect =>
           /\ req'[call'[u]].peer = req[call[u]].peer /\ req[call[u]].peer \in Made
           /\ req'[call'[u]].admitted = req[call[u]].admitted
    BY <1>6, <1>i, <2>1 DEF RequestInv
  <2> QED  BY <1>4, <1>i, <2>1, <2>2 DEF PendingInv
<1>14. PeerInv'
  BY SMTT(30), <1>3, <1>4, <1>i DEF PeerInv
<1>15. ProtectInv'
  <2>2. \A r : /\ t \in Counted(r) <=> r = c
               /\ t \notin Counted(r)' /\ t \notin Transfers(r)' /\ t \notin Asleep(r)'
    BY <1>1, <1>2, CallSets, CallSetsNext
  <2>3. \A r : \A u \in Callers : u # t =>
           /\ u \in Counted(r)' <=> u \in Counted(r)
           /\ u \in Transfers(r)' <=> u \in Transfers(r)
           /\ u \in Asleep(r)' => u \in Asleep(r)
    BY <1>o, OthersEffect
  <2>4. \A r : r = c => Counted(r)' = Counted(r) \ {t}
    BY <2>2, <2>3, CallSubsets
  <2>5. \A r : r # c => Counted(r)' = Counted(r)
    BY <2>2, <2>3, CallSubsets
  <2>6. Cardinality(Counted(c) \ {t}) = Cardinality(Counted(c)) - 1
    BY <2>2, CallsFinite, FS_RemoveElement
  <2>7. \A r \in Made : /\ sock[r].refcount = Cardinality(Counted(r))
                        /\ sock[r].freed => r \notin Opened /\ Unused(r)
    BY <1>i DEF ProtectInv
  <2>8. ASSUME NEW r \in Made
        PROVE  /\ sock'[r].refcount = Cardinality(Counted(r)')
               /\ sock'[r].freed => r \notin Opened' /\ Unused(r)'
    <3>1. CASE r = c
      <4>1. sock'[r].refcount = Cardinality(Counted(r)')
        BY <1>4, <2>4, <2>6, <2>7, <3>1
      <4>2. ~ sock'[r].freed
        BY <1>4, <2>2, <2>7, <3>1 DEF Unused
      <4> QED  BY <4>1, <4>2
    <3>2. CASE r # c
      <4>1. sock'[r].refcount = Cardinality(Counted(r)')
        BY <1>4, <2>5, <2>7, <3>2
      <4>2. ASSUME sock'[r].freed PROVE r \notin Opened' /\ Unused(r)'
        <5>1. r \notin Opened' /\ Unused(r)
          BY <1>4, <1>5, <2>7, <4>2
        <5>3. \A u \in Callers : /\ u \notin Counted(r)' /\ u \notin Transfers(r)'
                                 /\ u \notin Asleep(r)'
          BY <2>2, <2>3, <5>1 DEF Unused
        <5> QED  BY <5>1, <5>3, CallSubsets DEF Unused
      <4> QED  BY <4>1, <4>2
    <3> QED  BY <3>1, <3>2
  <2> QED  BY <1>4, <2>8 DEF ProtectInv
<1>16. ConnectionSound'
  BY <1>4, <1>i, <1>u, ConnectionSame
<1> QED  BY <1>7, <1>8, <1>9, <1>10, <1>11, <1>12, <1>13, <1>14, <1>15, <1>16
         DEF SocketIInv

\* Connect() returns, or wakes up in a listener that is gone.
LEMMA ReturnPreserves ==
    ASSUME SocketIInv, NEW t \in Callers, ConnectReturn(t)
    PROVE  SocketIInv'
<1>1. PICK n, c, l : n = call[t] /\ c = req[n].peer /\ l = req[n].listener
  OBVIOUS
<1>2. PICK res \in {0, -1} :
         res = IF spc[t] = "connect_woken" /\ req[n].admitted THEN 0 ELSE -1
  OBVIOUS
<1>3. CASE Crash("listener")
  BY <1>3, CrashPreserves
<1>4. CASE ~ Crash("listener")
  <2>1. Returned(t, n, c, l, res)
    BY <1>1, <1>2, <1>4 DEF ConnectReturn, Returned
  <2> QED  BY <2>1, ReturnEnds
<1> QED  BY <1>3, <1>4

-----------------------------------------------------------------------------
(* Accept(), before its loop (d = 1) and after a wait (d = 0).             *)

InAccept(t, s, d) ==
    /\ s \in Made /\ sock[s].type = "LISTENER" /\ ~ sock[s].freed
    /\ spc[t] \notin InConnect /\ spc[t] \notin Moving
    /\ \/ d = 1 /\ spc[t] = "idle"
       \/ d = 0 /\ spc[t] \in Accepting /\ call[t] = s

\* Only thread t changes its call, which is at most an Accept() on s.
CallMoves(t, s) ==
    /\ spc' \in [Callers -> PCs]
    /\ spc'[t] \notin InConnect /\ spc'[t] \notin Moving
    /\ spc'[t] \in Accepting => call'[t] = s
    /\ \A u \in Callers : u # t => spc'[u] = spc[u] /\ call'[u] = call[u]
    /\ \A n \in Asked : req'[n].peer = req[n].peer /\ req'[n].listener = req[n].listener

\* The calls counted after a step in which only thread t changes its call.
LEMMA CallsMove ==
    ASSUME SocketIInv, NEW t \in Callers, NEW s, NEW d,
           InAccept(t, s, d), CallMoves(t, s)
    PROVE  /\ \A r : r # s => Counted(r)' = Counted(r)
           /\ \A r : r # s /\ Unused(r) => Unused(r)'
           /\ \A r : r = s => Cardinality(Counted(r)') =
                 IF spc'[t] \in Accepting THEN sock[r].refcount + d
                 ELSE sock[r].refcount + d - 1
           /\ \A r \in Made : Cardinality(Counted(r)) = sock[r].refcount
<1>1. OthersStay(t)
  BY DEF CallMoves, OthersStay
<1>3. \A r : Counted(r) \subseteq Callers /\ Counted(r)' \subseteq Callers
  BY CallSubsets
<1>5. \A r : \A u \in Callers : u # t =>
         /\ u \in Counted(r)' <=> u \in Counted(r)
         /\ u \in Transfers(r)' <=> u \in Transfers(r)
         /\ u \in Asleep(r)' => u \in Asleep(r)
  BY <1>1, OthersEffect
<1>6. \A r : (t \in Counted(r) <=> r = s /\ d = 0)
  BY CallSets DEF InAccept, Accepting
<1>7. \A r : /\ t \in Counted(r)' <=> r = s /\ spc'[t] \in Accepting
             /\ t \notin Transfers(r)' /\ t \notin Asleep(r)'
  BY CallSetsNext DEF CallMoves
<1>8. \A r : r # s => Counted(r)' = Counted(r)
  BY <1>3, <1>5, <1>6, <1>7
<1>14. ASSUME NEW r, r # s, Unused(r) PROVE Unused(r)'
  <2>1. Counted(r)' = {}
    BY <1>8, <1>14 DEF Unused
  <2>2. \A u \in Callers : u \notin Transfers(r)' /\ u \notin Asleep(r)'
    BY <1>5, <1>7, <1>14 DEF Unused
  <2> QED  BY <2>1, <2>2, CallSubsets DEF Unused
<1>9. \A r : r = s => Counted(r)' =
         IF spc'[t] \in Accepting THEN Counted(r) \cup {t} ELSE Counted(r) \ {t}
  BY <1>3, <1>5, <1>7
<1>10. \A r : /\ t \notin Counted(r) => Cardinality(Counted(r) \cup {t}) = Cardinality(Counted(r)) + 1
              /\ t \in Counted(r) => Cardinality(Counted(r) \ {t}) = Cardinality(Counted(r)) - 1
              /\ t \notin Counted(r) => Counted(r) \ {t} = Counted(r)
              /\ t \in Counted(r) => Counted(r) \cup {t} = Counted(r)
              /\ Cardinality(Counted(r)) \in Nat
  BY CallsFinite, FS_AddElement, FS_RemoveElement, FS_CardinalityType
<1>11. \A r \in Made : Cardinality(Counted(r)) = sock[r].refcount
  BY DEF SocketIInv, ProtectInv, Made
<1>12. d = 0 \/ d = 1
  BY DEF InAccept
<1>13. ASSUME NEW r, r = s
       PROVE  Cardinality(Counted(r)') =
                 IF spc'[t] \in Accepting THEN sock[r].refcount + d
                 ELSE sock[r].refcount + d - 1
  <2>1. r \in Made /\ Cardinality(Counted(r)) = sock[r].refcount
    BY <1>11, <1>13 DEF InAccept
  <2>2. t \in Counted(r) <=> d = 0
    BY <1>6, <1>13
  <2>3. Cardinality(Counted(r)) \in Nat
    BY <1>10
  <2>4. CASE spc'[t] \in Accepting
    <3>1. Cardinality(Counted(r)') = Cardinality(Counted(r) \cup {t})
      BY <1>9, <1>13, <2>4
    <3>2. CASE d = 0
      <4>1. Counted(r) \cup {t} = Counted(r)
        BY <1>10, <2>2, <3>2
      <4>2. Cardinality(Counted(r)') = Cardinality(Counted(r))
        BY <3>1, <4>1
      <4> QED  BY <2>1, <2>3, <2>4, <3>2, <4>2
    <3>3. CASE d = 1
      BY <1>10, <2>1, <2>2, <2>3, <2>4, <3>1, <3>3
    <3> QED  BY <1>12, <3>2, <3>3
  <2>5. CASE ~ (spc'[t] \in Accepting)
    <3>1. Cardinality(Counted(r)') = Cardinality(Counted(r) \ {t})
      BY <1>9, <1>13, <2>5
    <3>2. CASE d = 0
      BY <1>10, <2>1, <2>2, <2>3, <2>5, <3>1, <3>2
    <3>3. CASE d = 1
      <4>1. Counted(r) \ {t} = Counted(r)
        BY <1>10, <2>2, <3>3
      <4>2. Cardinality(Counted(r)') = Cardinality(Counted(r))
        BY <3>1, <4>1
      <4> QED  BY <2>1, <2>3, <2>5, <3>3, <4>2
    <3> QED  BY <1>12, <3>2, <3>3
  <2> QED  BY <2>4, <2>5
<1> QED  BY <1>8, <1>11, <1>13, <1>14

CountsMove(t, s, d) == \A r \in Made :
    /\ r # s => sock'[r].refcount = sock[r].refcount
    /\ r = s => sock'[r].refcount =
          IF spc'[t] \in Accepting THEN sock[r].refcount + d
          ELSE sock[r].refcount + d - 1
    /\ sock'[r].freed = sock[r].freed
    /\ r \in Opened' <=> r \in Opened

CountsExact == \A r \in Made :
    /\ sock'[r].refcount = Cardinality(Counted(r)')
    /\ sock'[r].freed => r \notin Opened' /\ Unused(r)'

\* The reference counts are right when they move as the calls do.
LEMMA CountsKept ==
    ASSUME SocketIInv, NEW t \in Callers, NEW s, NEW d,
           InAccept(t, s, d), CallMoves(t, s), CountsMove(t, s, d)
    PROVE  CountsExact
<1> SUFFICES ASSUME NEW r \in Made
             PROVE  /\ sock'[r].refcount = Cardinality(Counted(r)')
                    /\ sock'[r].freed => r \notin Opened' /\ Unused(r)'
  BY DEF CountsExact
<1>1. /\ r # s => Counted(r)' = Counted(r)
      /\ r # s /\ Unused(r) => Unused(r)'
      /\ r = s => Cardinality(Counted(r)') =
            IF spc'[t] \in Accepting THEN sock[r].refcount + d
            ELSE sock[r].refcount + d - 1
      /\ Cardinality(Counted(r)) = sock[r].refcount
  BY CallsMove
<1>2. sock[r].freed => r \notin Opened /\ Unused(r)
  BY DEF SocketIInv, ProtectInv, Made
<1>3. CASE r = s
  <2>1. ~ sock'[r].freed
    BY <1>3 DEF InAccept, CountsMove
  <2> QED  BY <1>1, <1>3, <2>1 DEF CountsMove
<1>4. CASE r # s
  BY <1>1, <1>2, <1>4 DEF CountsMove
<1> QED  BY <1>3, <1>4

\* A step of Accept() that makes no socket: what it leaves as it was.
QuietStep(t, s, d) ==
    /\ SocketTypes' /\ BacklogInv'
    /\ \A r \in Socks : Members(waitset[r]) \subseteq Members(waitset'[r])
    /\ UNCHANGED <<FIDT, Port_Map, pipe>>
    /\ spc'[t] \notin InConnect /\ spc'[t] \notin Moving
    /\ spc'[t] \in Accepting => call'[t] = s
    /\ \A u \in Callers : u # t => spc'[u] = spc[u] /\ call'[u] = call[u]
    /\ Asked' = Asked
    /\ \A n \in Asked : /\ req'[n].peer = req[n].peer
                        /\ req'[n].listener = req[n].listener
                        /\ req'[n].caller = req[n].caller
                        /\ req'[n].result = req[n].result
                        /\ req[n].admitted => req'[n].admitted
    /\ Made' = Made
    /\ \A r \in Made :
          /\ sock'[r].type = sock[r].type
          /\ sock'[r].port = sock[r].port
          /\ sock'[r].freed = sock[r].freed
          /\ sock'[r].conn = sock[r].conn
          /\ sock'[r].peer = sock[r].peer
    /\ \A r \in Made :
          /\ r # s => sock'[r].refcount = sock[r].refcount
          /\ r = s => sock'[r].refcount =
                IF spc'[t] \in Accepting THEN sock[r].refcount + d
                ELSE sock[r].refcount + d - 1

\* Such a step preserves the invariant.
LEMMA AcceptQuiet ==
    ASSUME SocketIInv, NEW t \in Callers, NEW s, NEW d,
           InAccept(t, s, d), QuietStep(t, s, d)
    PROVE  SocketIInv'
<1>q. /\ SocketTypes' /\ BacklogInv'
      /\ \A r \in Socks : Members(waitset[r]) \subseteq Members(waitset'[r])
      /\ UNCHANGED <<FIDT, Port_Map, pipe>>
      /\ spc'[t] \notin InConnect /\ spc'[t] \notin Moving
      /\ spc'[t] \in Accepting => call'[t] = s
      /\ \A u \in Callers : u # t => spc'[u] = spc[u] /\ call'[u] = call[u]
      /\ Asked' = Asked /\ Made' = Made
      /\ \A r \in Made :
            /\ sock'[r].type = sock[r].type
            /\ sock'[r].port = sock[r].port
            /\ sock'[r].freed = sock[r].freed
            /\ sock'[r].conn = sock[r].conn
            /\ sock'[r].peer = sock[r].peer
  BY DEF QuietStep
<1>r. \A n \in Asked : /\ req'[n].peer = req[n].peer
                       /\ req'[n].listener = req[n].listener
                       /\ req'[n].caller = req[n].caller
                       /\ req'[n].result = req[n].result
                       /\ req[n].admitted => req'[n].admitted
  BY DEF QuietStep
<1>i. /\ SocketTypes /\ FidInv /\ RequestInv /\ BacklogInv /\ ListenerInv
      /\ TransferInv /\ SleepInv /\ PendingInv /\ PeerInv
      /\ PortMapSound /\ ProtectInv /\ ConnectionSound
  BY DEF SocketIInv
<1>1. Opened' = Opened /\ Opened \subseteq Made
  BY <1>q DEF Opened, Made
<1>2. \A u \in Callers : spc'[u] \in InConnect =>
         /\ u # t /\ spc[u] \in InConnect /\ call'[u] = call[u]
         /\ call[u] \in Asked
  BY <1>i, <1>q DEF RequestInv
<1>3. FidInv' /\ PortMapSound'
  BY <1>1, <1>i, <1>q DEF FidInv, PortMapSound
<1>4. RequestInv'
  <2>1. \A n \in Asked : req[n].result = 1 =>
           req[n].caller \in Callers /\ req[n].caller # t
    BY <1>i, Parts DEF RequestInv, InAccept
  <2>2. \A n \in Asked : /\ req'[n].peer \in Made
                         /\ req'[n].result = 1 =>
                               /\ spc'[req'[n].caller] \in InConnect
                               /\ call'[req'[n].caller] = n
    BY <1>i, <1>q, <1>r, <2>1 DEF RequestInv
  <2>3. \A u \in Callers : spc'[u] \in InConnect =>
           call'[u] \in Asked /\ req'[call'[u]].caller = u /\ req'[call'[u]].result = 1
    BY <1>2, <1>i, <1>q, <1>r DEF RequestInv
  <2> QED  BY <1>q, <2>2, <2>3 DEF RequestInv
<1>5. ListenerInv'
  <2>1. \A u \in Callers : spc'[u] \in Accepting =>
           call'[u] \in Made /\ sock[call'[u]].type = "LISTENER"
    BY <1>i, <1>q DEF ListenerInv, InAccept
  <2>2. \A n \in Asked : req'[n].listener \in Made
                         /\ sock'[req'[n].listener].type = "LISTENER"
    BY <1>i, <1>q, <1>r DEF ListenerInv
  <2> QED  BY <1>i, <1>q, <2>1, <2>2 DEF ListenerInv
<1>6. PendingInv'
  <2>1. \A u \in Callers : spc'[u] \in InConnect =>
           /\ req'[call'[u]].peer = req[call[u]].peer /\ req[call[u]].peer \in Made
           /\ ~ req'[call'[u]].admitted => ~ req[call[u]].admitted
    BY <1>2, <1>i, <1>q, <1>r DEF RequestInv
  <2> QED  BY <1>2, <1>i, <1>q, <2>1 DEF PendingInv
<1>7. PeerInv'
  BY <1>i, <1>q, <1>r DEF PeerInv
<1>c. CallMoves(t, s) /\ OthersStay(t)
  <2>1. spc' \in [Callers -> PCs]
    BY <1>q DEF SocketTypes
  <2> QED  BY <1>q, <1>r, <2>1 DEF CallMoves, OthersStay
<1>8. ProtectInv'
  <2>1. CountsMove(t, s, d)
    BY <1>1, <1>q DEF CountsMove, QuietStep
  <2>2. CountsExact
    BY <1>c, <2>1, CountsKept
  <2> QED  BY <1>q, <2>2 DEF ProtectInv, CountsExact
<1>10. TransferInv' /\ SleepInv'
  <2>1. TransferInv'
    BY <1>c, <1>q, OthersTransfer
  <2>2. ASSUME NEW r \in Socks, NEW u \in Callers, u \in Asleep(r)'
        PROVE  u \in Members(waitset'[r])
    <3>1. u # t
      BY <1>q, <2>2, CallSetsNext
    <3>2. u \in Asleep(r)
      BY <1>c, <2>2, <3>1, OthersEffect
    <3> QED  BY <1>i, <1>q, <3>2 DEF SleepInv
  <2> QED  BY <2>1, <2>2, CallSubsets DEF SleepInv
<1>9. ConnectionSound'
  BY <1>i, <1>q, ConnectionSame
<1> QED  BY <1>3, <1>4, <1>5, <1>6, <1>7, <1>8, <1>9, <1>10, <1>q DEF SocketIInv

\* The socket a call of Accept() works on, after a step of the call.
OneChanged(so, s, e, q) ==
    /\ so \in Seq(SocketRecord) /\ Len(so) = Len(sock)
    /\ \A r \in Made :
          /\ so[r].type = sock[r].type
          /\ so[r].port = sock[r].port
          /\ so[r].refcount = IF r = s THEN sock[r].refcount + e ELSE sock[r].refcount
          /\ so[r].freed = sock[r].freed
          /\ so[r].queue = IF r = s THEN q ELSE sock[r].queue
          /\ so[r].conn = sock[r].conn
          /\ so[r].peer = sock[r].peer

\* The control blocks when one changes in its queue and its count of calls only.
LEMMA OneSocketChanges ==
    ASSUME SocketTypes, NEW s \in Made, NEW e \in Int, NEW q \in Seq(Reqs), NEW x,
           \/ x = [sock[s] EXCEPT !.queue = q, !.refcount = @ + e]
           \/ q = sock[s].queue /\ x = [sock[s] EXCEPT !.refcount = @ + e],
           NEW so, so = [sock EXCEPT ![s] = x]
    PROVE  OneChanged(so, s, e, q)
<1>1. sock \in Seq(SocketRecord) /\ s \in 1 .. Len(sock) /\ sock[s] \in SocketRecord
      /\ sock \in [Made -> SocketRecord]
  BY Parts DEF SocketTypes, Made
<1>2. so = [sock EXCEPT ![s] = x]
  OBVIOUS
<1>3. sock[s].refcount + e \in Int
  BY Parts
<1>4. /\ x \in SocketRecord /\ x.type = sock[s].type /\ x.port = sock[s].port
      /\ x.refcount = sock[s].refcount + e /\ x.freed = sock[s].freed
      /\ x.queue = q /\ x.conn = sock[s].conn /\ x.peer = sock[s].peer
  BY <1>1, <1>3 DEF SocketRecord
<1>5. /\ so \in Seq(SocketRecord) /\ Len(so) = Len(sock)
      /\ \A r \in 1 .. Len(sock) : so[r] = IF r = s THEN x ELSE sock[r]
  <2>1. x \in SocketRecord
    BY <1>4
  <2>2. /\ [sock EXCEPT ![s] = x] \in Seq(SocketRecord)
        /\ Len([sock EXCEPT ![s] = x]) = Len(sock)
        /\ \A r \in 1 .. Len(sock) :
              [sock EXCEPT ![s] = x][r] = IF r = s THEN x ELSE sock[r]
    BY <1>1, <2>1, ExceptSeq
  <2> QED  BY <1>2, <2>2
<1>6. ASSUME NEW r \in Made
      PROVE  /\ so[r].type = sock[r].type
             /\ so[r].port = sock[r].port
             /\ so[r].refcount = IF r = s THEN sock[r].refcount + e
                                 ELSE sock[r].refcount
             /\ so[r].freed = sock[r].freed
             /\ so[r].queue = IF r = s THEN q ELSE sock[r].queue
             /\ so[r].conn = sock[r].conn
             /\ so[r].peer = sock[r].peer
  <2>1. so[r] = IF r = s THEN x ELSE sock[r]
    BY <1>5 DEF Made
  <2> QED  BY <1>4, <2>1
<1> QED  BY <1>5, <1>6 DEF OneChanged

\* Accept() goes to sleep on its listener.
LEMMA AcceptWaits ==
    ASSUME SocketIInv, NEW t \in Callers, NEW s, NEW d,
           InAccept(t, s, d),
           UNCHANGED <<FIDT, Port_Map, req, pipe>>,
           sock' = [sock EXCEPT ![s].refcount = @ + d],
           spc' = [spc EXCEPT ![t] = "accept"],
           call' = [call EXCEPT ![t] = s],
           waitset' = [waitset EXCEPT ![s] = Append(@, t)]
    PROVE  SocketIInv'
<1>i. SocketTypes /\ RequestInv /\ BacklogInv
  BY DEF SocketIInv
<1>1. s \in Made /\ s \in Socks /\ s \in Nat /\ d \in Int
  BY <1>i, Parts, ConstantFacts DEF InAccept
<1>2. /\ spc' \in [Callers -> PCs]
      /\ call' \in [Callers -> Nat]
      /\ spc'[t] = "accept" /\ call'[t] = s
      /\ spc'[t] \notin InConnect /\ spc'[t] \notin Moving /\ spc'[t] \in Accepting
      /\ \A u \in Callers : u # t => spc'[u] = spc[u] /\ call'[u] = call[u]
  <2>1. /\ spc \in [Callers -> PCs]
        /\ call \in [Callers -> Nat]
    BY <1>i DEF SocketTypes
  <2>2. "accept" \in Accepting /\ "accept" \notin InConnect /\ "accept" \notin Moving
        /\ "accept" \in PCs
    BY DEF Accepting, InConnect, Moving, PCs
  <2> QED  BY <1>1, <2>1, <2>2
<1>3. /\ sock' \in Seq(SocketRecord) /\ Len(sock') = Len(sock)
      /\ \A r \in Made :
            /\ sock'[r].type = sock[r].type
            /\ sock'[r].port = sock[r].port
            /\ sock'[r].refcount = IF r = s THEN sock[r].refcount + d
                                   ELSE sock[r].refcount
            /\ sock'[r].freed = sock[r].freed
            /\ sock'[r].queue = sock[r].queue
            /\ sock'[r].conn = sock[r].conn
            /\ sock'[r].peer = sock[r].peer
  <2> DEFINE q == sock[s].queue
             x == [sock[s] EXCEPT !.refcount = @ + d]
  <2>1. sock' = [sock EXCEPT ![s] = x] /\ q \in Seq(Reqs)
    BY <1>1, <1>i, Parts
  <2>2. q = sock[s].queue /\ x = [sock[s] EXCEPT !.refcount = @ + d]
    OBVIOUS
  <2> HIDE DEF x, q
  <2>3. OneChanged(sock', s, d, q)
    BY <1>1, <1>i, <2>1, <2>2, OneSocketChanges
  <2> QED  BY <2>2, <2>3 DEF OneChanged
<1>4. Made' = Made
  BY <1>3 DEF Made
<1>5. Asked' = Asked
  BY DEF Asked
<1>6. /\ waitset' \in [Socks -> Seq(Callers)]
      /\ \A r \in Socks : Members(waitset[r]) \subseteq Members(waitset'[r])
  <2>0. PICK w : w = Append(waitset[s], t)
    OBVIOUS
  <2>1. waitset[s] \in Seq(Callers) /\ waitset \in [Socks -> Seq(Callers)]
    BY <1>1, <1>i DEF SocketTypes
  <2>2. w \in Seq(Callers) /\ Members(waitset[s]) \subseteq Members(w)
    BY <2>0, <2>1, AppendMembers
  <2>3. waitset' = [waitset EXCEPT ![s] = w]
    BY <2>0
  <2> QED  BY <1>1, <2>1, <2>2, <2>3
<1>7. SocketTypes'
  BY <1>2, <1>3, <1>6, <1>i DEF SocketTypes
<1>8. BacklogInv'
  BY <1>3, <1>4, <1>5, <1>i DEF BacklogInv
<1>10. \A r \in Made :
          /\ r # s => sock'[r].refcount = sock[r].refcount
          /\ r = s => sock'[r].refcount =
                IF spc'[t] \in Accepting THEN sock[r].refcount + d
                ELSE sock[r].refcount + d - 1
  BY <1>2, <1>3
<1>q. QuietStep(t, s, d)
  BY <1>2, <1>3, <1>4, <1>5, <1>6, <1>7, <1>8, <1>10 DEF QuietStep
<1> QED  BY <1>q, AcceptQuiet

\* Accept() returns: the thread is in no call any more.
LEMMA AcceptEnds ==
    ASSUME SocketIInv, NEW t \in Callers, NEW s, NEW d, InAccept(t, s, d),
           spc' = [spc EXCEPT ![t] = "idle"],
           call' = [call EXCEPT ![t] = NULL]
    PROVE  /\ spc' \in [Callers -> PCs]
           /\ call' \in [Callers -> Nat]
           /\ spc'[t] = "idle" /\ spc'[t] \notin InConnect /\ spc'[t] \notin Accepting
           /\ spc'[t] \notin Moving
           /\ \A u \in Callers : u # t => spc'[u] = spc[u] /\ call'[u] = call[u]
<1>1. /\ spc \in [Callers -> PCs]
      /\ call \in [Callers -> Nat] /\ NULL \in Nat
      /\ "idle" \notin Accepting /\ "idle" \notin InConnect
      /\ "idle" \notin Moving /\ "idle" \in PCs
  BY DEF SocketIInv, SocketTypes, NULL, Accepting, InConnect, Moving, PCs
<1>2. /\ spc' \in [Callers -> PCs]
      /\ call' \in [Callers -> Nat] /\ spc'[t] = "idle"
      /\ \A u \in Callers : u # t => spc'[u] = spc[u] /\ call'[u] = call[u]
  BY <1>1
<1> QED  BY <1>1, <1>2

\* Accept() finds that its port has no listener any more.
LEMMA AcceptFails ==
    ASSUME SocketIInv, NEW t \in Callers, NEW s, NEW d,
           InAccept(t, s, d),
           UNCHANGED <<FIDT, Port_Map, req, pipe, waitset>>,
           sock' = [sock EXCEPT ![s].refcount = @ + d - 1],
           spc' = [spc EXCEPT ![t] = "idle"],
           call' = [call EXCEPT ![t] = NULL]
    PROVE  SocketIInv'
<1>i. SocketTypes /\ RequestInv /\ BacklogInv
  BY DEF SocketIInv
<1>1. s \in Made /\ d \in Int /\ d - 1 \in Int
  BY DEF InAccept
<1>2. /\ spc' \in [Callers -> PCs]
      /\ call' \in [Callers -> Nat]
      /\ spc'[t] \notin InConnect /\ spc'[t] \notin Accepting
      /\ spc'[t] \notin Moving
      /\ \A u \in Callers : u # t => spc'[u] = spc[u] /\ call'[u] = call[u]
  BY AcceptEnds
<1>3. /\ sock' \in Seq(SocketRecord) /\ Len(sock') = Len(sock)
      /\ \A r \in Made :
            /\ sock'[r].type = sock[r].type
            /\ sock'[r].port = sock[r].port
            /\ sock'[r].refcount = IF r = s THEN sock[r].refcount + (d - 1)
                                   ELSE sock[r].refcount
            /\ sock'[r].freed = sock[r].freed
            /\ sock'[r].queue = sock[r].queue
            /\ sock'[r].conn = sock[r].conn
            /\ sock'[r].peer = sock[r].peer
  <2> DEFINE e == d - 1
             q == sock[s].queue
             x == [sock[s] EXCEPT !.refcount = @ + e]
  <2>0. sock[s].refcount + d - 1 = sock[s].refcount + e
    BY <1>1, <1>i, Parts
  <2>1. sock' = [sock EXCEPT ![s] = x] /\ q \in Seq(Reqs) /\ e \in Int
    BY <1>1, <1>i, <2>0, Parts
  <2>2. q = sock[s].queue /\ x = [sock[s] EXCEPT !.refcount = @ + e]
    OBVIOUS
  <2> HIDE DEF x, q, e
  <2>3. OneChanged(sock', s, e, q)
    BY <1>1, <1>i, <2>1, <2>2, OneSocketChanges
  <2> QED  BY <2>2, <2>3 DEF e, OneChanged
<1>4. Made' = Made
  BY <1>3 DEF Made
<1>5. Asked' = Asked
  BY DEF Asked
<1>6. SocketTypes'
  BY <1>2, <1>3, <1>i DEF SocketTypes
<1>7. BacklogInv'
  BY <1>3, <1>4, <1>5, <1>i DEF BacklogInv
<1>8. \A r \in Made :
         /\ r # s => sock'[r].refcount = sock[r].refcount
         /\ r = s => sock'[r].refcount =
               IF spc'[t] \in Accepting THEN sock[r].refcount + d
               ELSE sock[r].refcount + d - 1
  <2>1. sock[s].refcount \in Int
    BY <1>1, <1>i, Parts
  <2> QED  BY <1>1, <1>2, <1>3, <2>1
<1>q. QuietStep(t, s, d)
  BY <1>2, <1>3, <1>4, <1>5, <1>6, <1>7, <1>8 DEF QuietStep
<1> QED  BY <1>q, AcceptQuiet

\* The first request of the listener's queue, and the queue without it.
LEMMA FirstRequest ==
    ASSUME SocketIInv, NEW s \in Made, sock[s].queue # <<>>,
           NEW n, n = Head(sock[s].queue)
    PROVE  /\ n \in Asked /\ ~ req[n].admitted
           /\ n \in Members(sock[s].queue)
           /\ Tail(sock[s].queue) \in Seq(Reqs)
           /\ Members(Tail(sock[s].queue)) = Members(sock[s].queue) \ {n}
           /\ Distinct(Tail(sock[s].queue))
<1> DEFINE q == sock[s].queue
<1>1. q \in Seq(Reqs) /\ Distinct(q) /\ q # <<>>
  BY Parts DEF SocketIInv, BacklogInv
<1>2. \A m \in Members(q) : m \in Asked /\ ~ req[m].admitted
  BY DEF SocketIInv, BacklogInv
<1>3. n = Head(q)
  OBVIOUS
<1> HIDE DEF q
<1>4. /\ Head(q) \in Members(q) /\ Tail(q) \in Seq(Reqs)
      /\ Members(Tail(q)) = Members(q) \ {Head(q)} /\ Distinct(Tail(q))
  BY <1>1, TailMembers
<1> QED  BY <1>2, <1>3, <1>4 DEF q

\* Only the flag admitted of one request changes.
LEMMA Admitting ==
    ASSUME SocketTypes, NEW n \in Asked, req' = [req EXCEPT ![n].admitted = TRUE]
    PROVE  /\ req' \in Seq(RequestRecord) /\ Len(req') = Len(req) /\ Asked' = Asked
           /\ \A m \in Asked : /\ req'[m].peer = req[m].peer
                               /\ req'[m].listener = req[m].listener
                               /\ req'[m].caller = req[m].caller
                               /\ req'[m].result = req[m].result
                               /\ req[m].admitted => req'[m].admitted
                               /\ m # n => req'[m].admitted = req[m].admitted
           /\ req'[n].admitted
<1> DEFINE x == [req[n] EXCEPT !.admitted = TRUE]
<1>1. req \in Seq(RequestRecord) /\ n \in 1 .. Len(req) /\ req[n] \in RequestRecord
  BY Parts DEF SocketTypes, Asked
<1>2. req' = [req EXCEPT ![n] = x]
  OBVIOUS
<1>3. /\ x \in RequestRecord /\ x.peer = req[n].peer /\ x.result = req[n].result
      /\ x.admitted = TRUE /\ x.caller = req[n].caller
      /\ x.listener = req[n].listener
  BY <1>1 DEF RequestRecord
<1> HIDE DEF x
<1>4. /\ req' \in Seq(RequestRecord) /\ Len(req') = Len(req)
      /\ \A m \in 1 .. Len(req) : req'[m] = IF m = n THEN x ELSE req[m]
  <2>1. /\ [req EXCEPT ![n] = x] \in Seq(RequestRecord)
        /\ Len([req EXCEPT ![n] = x]) = Len(req)
        /\ \A m \in 1 .. Len(req) :
              [req EXCEPT ![n] = x][m] = IF m = n THEN x ELSE req[m]
    BY <1>1, <1>3, ExceptSeq
  <2> QED  BY <1>2, <2>1
<1>5. Asked' = Asked /\ \A m \in Asked : req'[m] = IF m = n THEN x ELSE req[m]
  BY <1>4 DEF Asked
<1> QED  BY <1>3, <1>4, <1>5

\* Accept() finds no descriptor for the new socket.
LEMMA AcceptFull ==
    ASSUME SocketIInv, NEW t \in Callers, NEW s, NEW d,
           InAccept(t, s, d), sock[s].queue # <<>>,
           UNCHANGED <<FIDT, Port_Map, pipe, waitset>>,
           NEW n, n = Head(sock[s].queue),
           req' = [req EXCEPT ![n].admitted = TRUE],
           sock' = [sock EXCEPT ![s].queue = Tail(@), ![s].refcount = @ + d - 1],
           spc' = [spc EXCEPT ![t] = "idle"],
           call' = [call EXCEPT ![t] = NULL]
    PROVE  SocketIInv'
<1>i. SocketTypes /\ RequestInv /\ BacklogInv
  BY DEF SocketIInv
<1>1. s \in Made /\ d \in Int /\ d - 1 \in Int
  BY DEF InAccept
<1>2. /\ spc' \in [Callers -> PCs]
      /\ call' \in [Callers -> Nat]
      /\ spc'[t] \notin InConnect /\ spc'[t] \notin Accepting
      /\ spc'[t] \notin Moving
      /\ \A u \in Callers : u # t => spc'[u] = spc[u] /\ call'[u] = call[u]
  BY AcceptEnds
<1>3. /\ n \in Asked /\ ~ req[n].admitted /\ n \in Members(sock[s].queue)
      /\ Tail(sock[s].queue) \in Seq(Reqs)
      /\ Members(Tail(sock[s].queue)) = Members(sock[s].queue) \ {n}
      /\ Distinct(Tail(sock[s].queue))
  BY <1>1, FirstRequest
<1>4. /\ req' \in Seq(RequestRecord) /\ Len(req') = Len(req) /\ Asked' = Asked
      /\ \A m \in Asked : /\ req'[m].peer = req[m].peer
                          /\ req'[m].listener = req[m].listener
                          /\ req'[m].caller = req[m].caller
                          /\ req'[m].result = req[m].result
                          /\ req[m].admitted => req'[m].admitted
                          /\ m # n => req'[m].admitted = req[m].admitted
  BY <1>3, <1>i, Admitting
<1>5. /\ sock' \in Seq(SocketRecord) /\ Len(sock') = Len(sock)
      /\ \A r \in Made :
            /\ sock'[r].type = sock[r].type
            /\ sock'[r].port = sock[r].port
            /\ sock'[r].refcount = IF r = s THEN sock[r].refcount + (d - 1)
                                   ELSE sock[r].refcount
            /\ sock'[r].freed = sock[r].freed
            /\ sock'[r].queue = IF r = s THEN Tail(sock[r].queue) ELSE sock[r].queue
            /\ sock'[r].conn = sock[r].conn
            /\ sock'[r].peer = sock[r].peer
  <2> DEFINE e == d - 1
             q == Tail(sock[s].queue)
             x == [sock[s] EXCEPT !.queue = q, !.refcount = @ + e]
  <2>0. sock[s].refcount + d - 1 = sock[s].refcount + e
    BY <1>1, <1>i, Parts
  <2>1. sock[s] \in SocketRecord /\ sock \in [Made -> SocketRecord]
    BY <1>1, <1>i, Parts
  <2>2. sock' = [sock EXCEPT ![s] = x] /\ q \in Seq(Reqs) /\ e \in Int
    BY <1>1, <1>3, <2>0, <2>1 DEF SocketRecord
  <2>3. x = [sock[s] EXCEPT !.queue = q, !.refcount = @ + e]
    OBVIOUS
  <2>4. q = Tail(sock[s].queue)
    OBVIOUS
  <2> HIDE DEF x, q, e
  <2>5. OneChanged(sock', s, e, q)
    BY <1>1, <1>i, <2>2, <2>3, OneSocketChanges
  <2> QED  BY <2>4, <2>5 DEF e, OneChanged
<1>6. Made' = Made
  BY <1>5 DEF Made
<1>7. SocketTypes'
  BY <1>2, <1>4, <1>5, <1>i DEF SocketTypes
<1>8. BacklogInv'
  <2>1. \A r \in Made : /\ r = s => sock'[r].queue = Tail(sock[s].queue)
                        /\ r # s => sock'[r].queue = sock[r].queue
    BY <1>5
  <2>2. \A r \in Made : /\ r = s => Members(sock'[r].queue) = Members(sock[r].queue) \ {n}
                        /\ r # s => sock'[r].queue = sock[r].queue
    BY <1>3, <2>1
  <2>3. \A r \in Made : r # s => n \notin Members(sock[r].queue)
    BY <1>1, <1>3, <1>i DEF BacklogInv
  <2>4. \A r \in Made : Distinct(sock'[r].queue)
    BY <1>3, <1>i, <2>1 DEF BacklogInv
  <2>5. ASSUME NEW r \in Made, NEW m, m \in Members(sock'[r].queue)
        PROVE  m \in Members(sock[r].queue) /\ m # n
    BY <2>2, <2>3, <2>5
  <2>6. ASSUME NEW r \in Made, NEW m \in Members(sock'[r].queue)
        PROVE  m \in Asked /\ ~ req'[m].admitted
    <3>1. m \in Members(sock[r].queue) /\ m # n
      BY <2>5
    <3>2. m \in Asked /\ ~ req[m].admitted
      BY <1>i, <3>1 DEF BacklogInv
    <3> QED  BY <1>4, <3>1, <3>2
  <2>7. ASSUME NEW r \in Made, NEW q \in Made, NEW m,
               m \in Members(sock'[r].queue), m \in Members(sock'[q].queue)
        PROVE  r = q
    BY <1>i, <2>5, <2>7 DEF BacklogInv
  <2> QED  BY <1>4, <1>6, <2>4, <2>6, <2>7 DEF BacklogInv
<1>9. \A r \in Made :
         /\ r # s => sock'[r].refcount = sock[r].refcount
         /\ r = s => sock'[r].refcount =
               IF spc'[t] \in Accepting THEN sock[r].refcount + d
               ELSE sock[r].refcount + d - 1
  <2>1. sock[s].refcount \in Int
    BY <1>1, <1>i, Parts
  <2> QED  BY ZenonT(40), <1>1, <1>2, <1>5, <2>1
<1>10. UNCHANGED <<FIDT, Port_Map, pipe>>
  OBVIOUS
<1>11. /\ \A r \in Socks : Members(waitset[r]) \subseteq Members(waitset'[r])
       /\ spc'[t] \in Accepting => call'[t] = s
  BY <1>2
<1>12. \A r \in Made : /\ sock'[r].type = sock[r].type
                       /\ sock'[r].port = sock[r].port
                       /\ sock'[r].freed = sock[r].freed
                       /\ sock'[r].conn = sock[r].conn
                       /\ sock'[r].peer = sock[r].peer
  BY <1>5
<1>13. \A m \in Asked : /\ req'[m].peer = req[m].peer
                        /\ req'[m].listener = req[m].listener
                        /\ req'[m].caller = req[m].caller
                        /\ req'[m].result = req[m].result
                        /\ req[m].admitted => req'[m].admitted
  BY <1>4
<1>q. QuietStep(t, s, d)
  BY <1>2, <1>4, <1>6, <1>7, <1>8, <1>9, <1>10, <1>11, <1>12, <1>13 DEF QuietStep
<1> QED  BY <1>q, AcceptQuiet

\* The sockets after Accept(): n is the request, c the socket that asked, a
\* the new one.
Connected(s, d, n, c, a) ==
    /\ sock' \in Seq(SocketRecord) /\ Len(sock') = a
    /\ Made' = Made \cup {a} /\ a \notin Made /\ a \in Socks
    /\ \A r \in Made :
          /\ sock'[r].type = IF r = c THEN "PEER" ELSE sock[r].type
          /\ sock'[r].port = sock[r].port
          /\ sock'[r].refcount = IF r = s THEN sock[r].refcount + (d - 1)
                                 ELSE sock[r].refcount
          /\ sock'[r].freed = sock[r].freed
          /\ sock'[r].queue = IF r = s THEN Tail(sock[r].queue) ELSE sock[r].queue
          /\ sock'[r].conn = IF r = c THEN <<n, "c">> ELSE sock[r].conn
          /\ sock'[r].peer = IF r = c THEN a ELSE sock[r].peer
    /\ sock'[a].type = "PEER" /\ sock'[a].refcount = 0 /\ sock'[a].freed = FALSE
    /\ sock'[a].queue = <<>> /\ sock'[a].conn = <<n, "s">> /\ sock'[a].peer = c

\* The control blocks behind Joined(): the listener, the two ends, the others.
LEMMA JoinedEffect ==
    ASSUME SocketTypes, NEW s \in Made, NEW d \in Int, NEW n \in Reqs, NEW c \in Made,
           s # c, c = req[n].peer, Tail(sock[s].queue) \in Seq(Reqs),
           sock[s].port \in Ports,
           Len(sock) < MaxSockets, NEW a, a = Len(sock) + 1,
           sock' = Joined([sock EXCEPT ![s].queue = Tail(@),
                                       ![s].refcount = @ + d - 1], n, s)
    PROVE  Connected(s, d, n, c, a)
<1> DEFINE e == d - 1
           q == Tail(sock[s].queue)
           xs == [sock[s] EXCEPT !.queue = q, !.refcount = @ + e]
           su == [sock EXCEPT ![s] = xs]
           xa == [NewSocket(sock[s].port) EXCEPT !.type = "PEER", !.conn = <<n, "s">>,
                                                 !.peer = c]
           xc == [sock[c] EXCEPT !.type = "PEER", !.conn = <<n, "c">>, !.peer = a]
           mid == Append(su, xa)
<1>1. /\ sock \in Seq(SocketRecord) /\ sock \in [Made -> SocketRecord]
      /\ sock[s] \in SocketRecord /\ sock[c] \in SocketRecord
      /\ Len(sock) \in Nat /\ e \in Int
      /\ sock[s].refcount \in Int /\ sock[s].refcount + d - 1 = sock[s].refcount + e
  BY SMTT(30), Parts DEF SocketTypes
<1>2. c \in Socks /\ a \in Socks /\ a \notin Made
  <2>1. MaxSockets \in Nat
    BY ConstantFacts
  <2>2. a \in 1 .. MaxSockets /\ ~ (a \in 1 .. Len(sock))
    BY <1>1, <2>1
  <2> QED  BY <2>2, Parts DEF Socks, Made
<1>3. [sock EXCEPT ![s].queue = Tail(@), ![s].refcount = @ + d - 1] = su
  BY <1>1 DEF SocketRecord
<1>5. sock' = [mid EXCEPT ![c].type = "PEER", ![c].conn = <<n, "c">>, ![c].peer = a]
  BY <1>3, <1>1 DEF Joined
<1>6. OneChanged(su, s, e, q)
  <2>1. xs = [sock[s] EXCEPT !.queue = q, !.refcount = @ + e] /\ q \in Seq(Reqs)
        /\ su = [sock EXCEPT ![s] = xs]
    OBVIOUS
  <2> HIDE DEF xs, su, q, e
  <2> QED  BY <1>1, <2>1, OneSocketChanges
<1>7. /\ xa \in SocketRecord /\ xa.type = "PEER" /\ xa.refcount = 0
      /\ xa.freed = FALSE /\ xa.queue = <<>> /\ xa.conn = <<n, "s">> /\ xa.peer = c
  <2> DEFINE new == NewSocket(sock[s].port)
  <2>1. /\ new \in SocketRecord /\ new.refcount = 0 /\ new.freed = FALSE
        /\ new.queue = <<>>
    BY DEF SocketRecord, NewSocket
  <2>2. <<n, "s">> \in ({NULL} \cup Reqs) \X {"c", "s"} /\ c \in {NULL} \cup Socks
    BY <1>2
  <2>3. xa = [new EXCEPT !.type = "PEER", !.conn = <<n, "s">>, !.peer = c]
    OBVIOUS
  <2> HIDE DEF new, xa
  <2> QED  BY <2>1, <2>2, <2>3 DEF SocketRecord
<1>8. su[c] = sock[c]
  BY <1>1
<1>9. q = Tail(sock[s].queue)
  OBVIOUS
<1> HIDE DEF xs, su, xa, q
<1>10. /\ su \in Seq(SocketRecord) /\ Len(su) = Len(sock)
  BY <1>6 DEF OneChanged
<1>11. /\ mid \in Seq(SocketRecord) /\ Len(mid) = a
       /\ \A r \in 1 .. Len(sock) : mid[r] = su[r]
       /\ mid[a] = xa
  BY <1>1, <1>7, <1>10
<1> HIDE DEF mid
<1>12. c \in 1 .. Len(mid) /\ c # a /\ mid[c] = sock[c]
  BY <1>1, <1>2, <1>8, <1>11 DEF Made
<1>13. sock' = [mid EXCEPT ![c] = xc]
  BY <1>5, <1>11, <1>12
<1>14. /\ xc \in SocketRecord /\ xc.type = "PEER" /\ xc.port = sock[c].port
       /\ xc.refcount = sock[c].refcount /\ xc.freed = sock[c].freed
       /\ xc.queue = sock[c].queue /\ xc.conn = <<n, "c">> /\ xc.peer = a
  BY <1>1, <1>2 DEF SocketRecord
<1> HIDE DEF xc
<1>15. /\ sock' \in Seq(SocketRecord) /\ Len(sock') = Len(mid)
       /\ \A r \in 1 .. Len(mid) : sock'[r] = IF r = c THEN xc ELSE mid[r]
  <2>1. /\ [mid EXCEPT ![c] = xc] \in Seq(SocketRecord)
        /\ Len([mid EXCEPT ![c] = xc]) = Len(mid)
        /\ \A r \in 1 .. Len(mid) : [mid EXCEPT ![c] = xc][r] = IF r = c THEN xc ELSE mid[r]
    BY <1>11, <1>12, <1>14, ExceptSeq
  <2> QED  BY <1>13, <2>1
<1>16. 1 .. a = Made \cup {a} /\ Made' = 1 .. a
  BY <1>1, <1>11, <1>15 DEF Made
<1>17. sock'[a] = xa
  BY <1>11, <1>12, <1>15, <1>16
<1>18. \A r \in Made : sock'[r] = IF r = c THEN xc ELSE su[r]
  BY <1>11, <1>15, <1>16 DEF Made
<1>19. ASSUME NEW r \in Made
       PROVE  /\ sock'[r].type = IF r = c THEN "PEER" ELSE sock[r].type
              /\ sock'[r].port = sock[r].port
              /\ sock'[r].refcount = IF r = s THEN sock[r].refcount + (d - 1)
                                     ELSE sock[r].refcount
              /\ sock'[r].freed = sock[r].freed
              /\ sock'[r].queue = IF r = s THEN Tail(sock[r].queue) ELSE sock[r].queue
              /\ sock'[r].conn = IF r = c THEN <<n, "c">> ELSE sock[r].conn
              /\ sock'[r].peer = IF r = c THEN a ELSE sock[r].peer
  <2>1. CASE r = c
    BY <1>14, <1>18, <2>1
  <2>2. CASE r # c
    <3>1. sock'[r] = su[r]
      BY <1>18, <2>2
    <3>2. /\ su[r].type = sock[r].type
          /\ su[r].port = sock[r].port
          /\ su[r].refcount = IF r = s THEN sock[r].refcount + e ELSE sock[r].refcount
          /\ su[r].freed = sock[r].freed
          /\ su[r].queue = IF r = s THEN q ELSE sock[r].queue
          /\ su[r].conn = sock[r].conn
          /\ su[r].peer = sock[r].peer
      BY <1>6 DEF OneChanged
    <3> QED  BY <1>9, <2>2, <3>1, <3>2
  <2> QED  BY <2>1, <2>2
<1> QED  BY <1>2, <1>7, <1>11, <1>15, <1>16, <1>17, <1>19 DEF Connected

\* What Accept() does with the request n when a descriptor is free.
Joins(t, s, d, n) ==
    /\ req' = [req EXCEPT ![n].admitted = TRUE]
    /\ sock' = Joined([sock EXCEPT ![s].queue = Tail(@),
                                   ![s].refcount = @ + d - 1], n, s)
    /\ FIDT' = [FIDT EXCEPT ![LowestFree] = Len(sock) + 1]
    /\ pipe' = [k \in Pipes |-> IF k[1] = n
                   THEN [reader |-> TRUE, writer |-> TRUE, frees |-> 0]
                   ELSE pipe[k]]
    /\ spc' = [spc EXCEPT ![t] = "idle"]
    /\ call' = [call EXCEPT ![t] = NULL]
    /\ UNCHANGED <<Port_Map, waitset>>

\* A connection is made of the request n.
LEMMA AcceptJoins ==
    ASSUME SocketIInv, NEW t \in Callers, NEW s, NEW d,
           InAccept(t, s, d), sock[s].queue # <<>>,
           NEW n, n = Head(sock[s].queue), req[n].result = 1,
           FreeFids # {}, Len(sock) < MaxSockets,
           Joins(t, s, d, n)
    PROVE  SocketIInv'
<1>i. /\ SocketTypes /\ FidInv /\ RequestInv /\ BacklogInv /\ ListenerInv
      /\ TransferInv /\ SleepInv /\ PendingInv /\ PeerInv
      /\ PortMapSound /\ ProtectInv /\ ConnectionSound
  BY DEF SocketIInv
<1>1. s \in Made /\ d \in Int /\ d - 1 \in Int /\ sock[s].type = "LISTENER"
      /\ ~ sock[s].freed /\ sock[s].port \in Ports
  BY <1>i DEF InAccept, ListenerInv
<1>2. /\ spc' \in [Callers -> PCs]
      /\ call' \in [Callers -> Nat]
      /\ spc'[t] \notin InConnect /\ spc'[t] \notin Accepting
      /\ spc'[t] \notin Moving
      /\ \A u \in Callers : u # t => spc'[u] = spc[u] /\ call'[u] = call[u]
  BY AcceptEnds DEF Joins
<1>u. UNCHANGED <<Port_Map, waitset>>
  BY DEF Joins
<1>3. /\ n \in Asked /\ ~ req[n].admitted /\ n \in Members(sock[s].queue)
      /\ Tail(sock[s].queue) \in Seq(Reqs)
      /\ Members(Tail(sock[s].queue)) = Members(sock[s].queue) \ {n}
      /\ Distinct(Tail(sock[s].queue))
  BY <1>1, FirstRequest
<1>4. /\ req' \in Seq(RequestRecord) /\ Len(req') = Len(req) /\ Asked' = Asked
      /\ \A m \in Asked : /\ req'[m].peer = req[m].peer
                          /\ req'[m].listener = req[m].listener
                          /\ req'[m].caller = req[m].caller
                          /\ req'[m].result = req[m].result
                          /\ req[m].admitted => req'[m].admitted
                          /\ m # n => req'[m].admitted = req[m].admitted
      /\ req'[n].admitted
  BY <1>3, <1>i, Admitting DEF Joins
<1>5. PICK c \in Made : c = req[n].peer
  BY <1>3, <1>i DEF RequestInv
<1>6. PICK v \in Callers : /\ spc[v] \in InConnect /\ call[v] = n
                           /\ req[call[v]].peer = c
  BY <1>3, <1>5, <1>i, Parts DEF RequestInv
<1>7. sock[c].type = "UNBOUND" /\ c # s
  BY <1>1, <1>3, <1>5, <1>6, <1>i DEF PendingInv
<1>8. PICK a : a = Len(sock) + 1
  OBVIOUS
<1>9. n \in Reqs
  BY <1>3, <1>i, Parts
<1>10. Connected(s, d, n, c, a)
  BY <1>1, <1>3, <1>5, <1>7, <1>8, <1>9, <1>i, JoinedEffect DEF Joins
<1>11. Made' = Made \cup {a} /\ a \notin Made /\ a \in Socks /\ a # NULL
  BY <1>10, ConstantFacts DEF Connected
<1>12. PICK g : g = LowestFree
  OBVIOUS
<1>13. g \in Fids /\ FIDT[g] = NULL
  BY <1>12, LowestFreeIsFree DEF FreeFids
<1>14. /\ FIDT' \in [Fids -> {NULL} \cup Socks]
       /\ \A f \in Fids : FIDT'[f] = IF f = g THEN a ELSE FIDT[f]
  <2>1. FIDT' = [FIDT EXCEPT ![g] = a] /\ FIDT \in [Fids -> {NULL} \cup Socks]
    BY <1>8, <1>12, <1>i DEF SocketTypes, Joins
  <2> QED  BY <1>11, <1>13, <2>1
<1>15. /\ a \in Opened'
       /\ \A r \in Made : r \in Opened' <=> r \in Opened
       /\ Opened' \subseteq Made' /\ Opened \subseteq Made
  <2>1. \A r : (\E f \in Fids : FIDT'[f] = r) <=>
               (r = a \/ \E f \in Fids \ {g} : FIDT[f] = r)
    BY <1>13, <1>14
  <2>2. \A r \in Made : (\E f \in Fids \ {g} : FIDT[f] = r) <=>
                        (\E f \in Fids : FIDT[f] = r)
    BY <1>13, <1>i, ConstantFacts, Parts
  <2>3. Opened = {r \in Made : \E f \in Fids : FIDT[f] = r}
    BY DEF Opened, Made
  <2>4. Opened' = {r \in Made' : \E f \in Fids : FIDT'[f] = r}
    BY DEF Opened, Made
  <2> QED  BY <1>11, <2>1, <2>2, <2>3, <2>4
<1>16. SocketTypes'
  <2>1. pipe' \in [Pipes -> PipeRecord]
    BY <1>i DEF SocketTypes, PipeRecord, Joins
  <2>2. sock' \in Seq(SocketRecord) /\ Len(sock') = a
    BY <1>10 DEF Connected
  <2>3. a <= MaxSockets
    BY <1>11, ConstantFacts DEF Socks
  <2> QED  BY <1>2, <1>4, <1>14, <1>i, <1>u, <2>1, <2>2, <2>3 DEF SocketTypes
<1>17. FidInv'
  <2>1. \A f \in Fids : FIDT[f] # a
    BY <1>11, <1>i DEF FidInv
  <2>2. \A f \in Fids : FIDT'[f] # NULL => FIDT'[f] \in Made'
    BY <1>11, <1>14, <1>i DEF FidInv
  <2>3. \A e, f \in Fids : FIDT'[e] = FIDT'[f] /\ FIDT'[e] # NULL => e = f
    BY <1>14, <1>i, <2>1 DEF FidInv
  <2> QED  BY <2>2, <2>3 DEF FidInv
<1>18. \A u \in Callers : spc'[u] \in InConnect =>
          /\ u # t /\ spc[u] \in InConnect /\ call'[u] = call[u]
          /\ call[u] \in Asked
  BY <1>2, <1>i DEF RequestInv
<1>19. RequestInv'
  <2>1. \A m \in Asked : req[m].result = 1 =>
           req[m].caller \in Callers /\ req[m].caller # t
    BY <1>i, Parts DEF RequestInv, InAccept
  <2>2. ASSUME NEW m \in Asked
        PROVE  /\ req'[m].peer \in Made'
               /\ req'[m].result = 1 => /\ spc'[req'[m].caller] \in InConnect
                                        /\ call'[req'[m].caller] = m
    <3>1. /\ req[m].peer \in Made
          /\ req[m].result = 1 => /\ spc[req[m].caller] \in InConnect
                                  /\ call[req[m].caller] = m
      BY <1>i DEF RequestInv
    <3>2. /\ req'[m].peer = req[m].peer /\ req'[m].caller = req[m].caller
          /\ req'[m].result = req[m].result
      BY <1>4
    <3>3. req[m].result = 1 => req[m].caller \in Callers /\ req[m].caller # t
      BY <2>1
    <3>4. req'[m].peer \in Made'
      BY <1>11, <3>1, <3>2
    <3>5. ASSUME req'[m].result = 1
          PROVE  spc'[req'[m].caller] \in InConnect /\ call'[req'[m].caller] = m
      <4>1. PICK u \in Callers : u = req[m].caller /\ u # t
        BY <3>2, <3>3, <3>5
      <4>2. spc[u] \in InConnect /\ call[u] = m
        BY <3>1, <3>2, <3>5, <4>1
      <4>3. spc'[u] = spc[u] /\ call'[u] = call[u]
        BY <1>2, <4>1
      <4> QED  BY <3>2, <4>1, <4>2, <4>3
    <3> QED  BY <3>4, <3>5
  <2>3. \A u \in Callers : spc'[u] \in InConnect =>
           call'[u] \in Asked /\ req'[call'[u]].caller = u /\ req'[call'[u]].result = 1
    <3> SUFFICES ASSUME NEW u \in Callers, spc'[u] \in InConnect
                 PROVE  call'[u] \in Asked /\ req'[call'[u]].caller = u
                        /\ req'[call'[u]].result = 1
      OBVIOUS
    <3>1. PICK m \in Asked : m = call[u] /\ call'[u] = m /\ spc[u] \in InConnect
      BY <1>18
    <3>2. req[m].caller = u /\ req[m].result = 1
      BY <1>i, <3>1 DEF RequestInv
    <3>3. req'[m].caller = u /\ req'[m].result = 1
      BY <1>4, <3>2
    <3> QED  BY <3>1, <3>3
  <2> QED  BY ZenonT(40), <1>4, <2>2, <2>3 DEF RequestInv
<1>20. BacklogInv'
  <2>1. \A r \in Made : /\ r = s => sock'[r].queue = Tail(sock[s].queue)
                        /\ r # s => sock'[r].queue = sock[r].queue
    <3>1. \A r \in Made : sock'[r].queue =
             IF r = s THEN Tail(sock[r].queue) ELSE sock[r].queue
      BY <1>10 DEF Connected
    <3> QED  BY <3>1
  <2>2. \A r \in Made : /\ r = s => Members(sock'[r].queue) = Members(sock[r].queue) \ {n}
                        /\ r # s => sock'[r].queue = sock[r].queue
    BY <1>3, <2>1
  <2>3. \A r \in Made : r # s => n \notin Members(sock[r].queue)
    BY <1>1, <1>3, <1>i DEF BacklogInv
  <2>4. Members(sock'[a].queue) = {} /\ Distinct(sock'[a].queue)
    <3>1. sock'[a].queue = <<>>
      BY <1>10 DEF Connected
    <3>2. Members(<<>>) = {} /\ Distinct(<<>>)
      BY DEF Members, Distinct
    <3> QED  BY <3>1, <3>2
  <2>5. \A r \in Made' : Distinct(sock'[r].queue)
    BY <1>3, <1>11, <1>i, <2>1, <2>4 DEF BacklogInv
  <2>6. ASSUME NEW r \in Made', NEW m, m \in Members(sock'[r].queue)
        PROVE  r \in Made /\ m \in Members(sock[r].queue) /\ m # n
    BY <1>11, <2>2, <2>3, <2>4, <2>6
  <2>7. ASSUME NEW r \in Made', NEW m \in Members(sock'[r].queue)
        PROVE  m \in Asked' /\ ~ req'[m].admitted
    <3>1. r \in Made /\ m \in Members(sock[r].queue) /\ m # n
      BY <2>6
    <3>2. m \in Asked /\ ~ req[m].admitted
      BY <1>i, <3>1 DEF BacklogInv
    <3> QED  BY <1>4, <3>1, <3>2
  <2>8. ASSUME NEW r \in Made', NEW q \in Made', NEW m,
               m \in Members(sock'[r].queue), m \in Members(sock'[q].queue)
        PROVE  r = q
    <3>1. /\ r \in Made /\ m \in Members(sock[r].queue)
          /\ q \in Made /\ m \in Members(sock[q].queue)
      BY <2>6, <2>8
    <3> QED  BY <1>i, <3>1 DEF BacklogInv
  <2> QED  BY <2>5, <2>7, <2>8 DEF BacklogInv
<1>21. \A r \in Made : sock'[r].type = IF r = c THEN "PEER" ELSE sock[r].type
  BY <1>10 DEF Connected
<1>22. sock'[a].type = "PEER"
  BY <1>10 DEF Connected
<1>23. ListenerInv'
  <2>1. \A r \in Made : sock'[r].port = sock[r].port
    BY <1>10 DEF Connected
  <2>2. ASSUME NEW r \in Made', sock'[r].type = "LISTENER"
        PROVE  sock'[r].port \in Ports
    <3>1. r \in Made
      BY <1>11, <1>22, <2>2
    <3>2. sock[r].type = "LISTENER"
      <4>1. sock'[r].type = IF r = c THEN "PEER" ELSE sock[r].type
        BY <1>21, <3>1
      <4> QED  BY <2>2, <4>1
    <3> QED  BY <1>i, <2>1, <3>1, <3>2 DEF ListenerInv
  <2>3. \A u \in Callers : spc'[u] \in Accepting =>
           u # t /\ spc[u] \in Accepting /\ call'[u] = call[u]
    BY <1>2
  <2>4. ASSUME NEW u \in Callers, spc'[u] \in Accepting
        PROVE  call'[u] \in Made' /\ sock'[call'[u]].type = "LISTENER"
    <3>1. spc[u] \in Accepting /\ call'[u] = call[u]
      BY <2>3, <2>4
    <3>2. PICK r \in Made : r = call[u] /\ sock[r].type = "LISTENER"
      BY <1>i, <3>1 DEF ListenerInv
    <3>3. sock'[r].type = "LISTENER"
      BY <1>7, <1>21, <3>2
    <3> QED  BY <1>11, <3>1, <3>2, <3>3
  <2>5. ASSUME NEW m \in Asked
        PROVE  req'[m].listener \in Made' /\ sock'[req'[m].listener].type = "LISTENER"
    <3>1. PICK r \in Made : r = req[m].listener /\ sock[r].type = "LISTENER"
      BY <1>i DEF ListenerInv
    <3>2. req'[m].listener = r
      BY <1>4, <3>1
    <3>3. r # c
      BY <1>7, <3>1
    <3>4. sock'[r].type = "LISTENER"
      BY ZenonT(40), <1>21, <3>1, <3>3
    <3> QED  BY <1>11, <3>1, <3>2, <3>4
  <2> QED  BY <1>4, <2>2, <2>4, <2>5 DEF ListenerInv
<1>c. CallMoves(t, s) /\ OthersStay(t)
  BY <1>2, <1>4 DEF CallMoves, OthersStay
<1>31. TransferInv' /\ SleepInv'
  <2>1. \A r \in Made : sock[r].type = "PEER" => sock'[r].type = "PEER"
    BY <1>21
  <2>2. TransferInv'
    BY <1>2, <1>11, <1>c, <2>1, OthersTransfer
  <2>3. ASSUME NEW r \in Socks, NEW u \in Callers, u \in Asleep(r)'
        PROVE  u \in Members(waitset'[r])
    <3>1. u # t
      BY <1>2, <2>3, CallSetsNext
    <3>2. u \in Asleep(r)
      BY <1>c, <2>3, <3>1, OthersEffect
    <3> QED  BY <1>i, <1>u, <3>2 DEF SleepInv
  <2> QED  BY <2>2, <2>3, CallSubsets DEF SleepInv
<1>24. PendingInv'
  <2>1. ASSUME NEW u \in Callers, spc'[u] \in InConnect
        PROVE  /\ req'[call'[u]].peer = req[call[u]].peer /\ req[call[u]].peer \in Made
               /\ call[u] # n => req'[call'[u]].admitted = req[call[u]].admitted
               /\ call[u] = n => req'[call'[u]].admitted
    <3>1. PICK m \in Asked : m = call[u] /\ m = call'[u]
      BY <1>18, <2>1
    <3>2. req[m].peer \in Made
      BY <1>i DEF RequestInv
    <3>3. /\ req'[m].peer = req[m].peer
          /\ m # n => req'[m].admitted = req[m].admitted
      BY <1>4
    <3>4. req'[n].admitted
      BY <1>4
    <3> QED  BY <3>1, <3>2, <3>3, <3>4
  <2>2. ASSUME NEW u \in Callers, spc'[u] \in InConnect, ~ req'[call'[u]].admitted
        PROVE  sock'[req'[call'[u]].peer].type = "UNBOUND"
    <3>1. call[u] # n /\ spc[u] \in InConnect /\ ~ req[call[u]].admitted
      BY <1>18, <2>1, <2>2
    <3>2. sock[req[call[u]].peer].type = "UNBOUND"
      BY <1>i, <3>1 DEF PendingInv
    <3>3. req[call[u]].peer # c
      BY <1>6, <1>i, <3>1 DEF PendingInv
    <3> QED  BY <1>21, <2>1, <2>2, <3>2, <3>3
  <2>3. \A u, w \in Callers :
           /\ spc'[u] \in InConnect /\ spc'[w] \in InConnect
           /\ req'[call'[u]].peer = req'[call'[w]].peer
           => u = w
    BY ZenonT(40), <1>18, <1>i, <2>1 DEF PendingInv
  <2> QED  BY <2>2, <2>3 DEF PendingInv
<1>25. /\ sock'[a].conn = <<n, "s">> /\ sock'[a].peer = c /\ sock'[a].freed = FALSE
       /\ sock'[c].conn = <<n, "c">> /\ sock'[c].peer = a
       /\ \A r \in Made : r # c => sock'[r].conn = sock[r].conn /\ sock'[r].peer = sock[r].peer
       /\ \A r \in Made : sock'[r].freed = sock[r].freed
  BY ZenonT(40), <1>5, <1>10 DEF Connected
<1>26. <<n, "s">>[1] = n /\ <<n, "c">>[1] = n /\ <<n, "s">>[2] = "s" /\ <<n, "c">>[2] = "c"
  OBVIOUS
<1>27. PeerInv'
  <2> SUFFICES ASSUME NEW r \in Made', sock'[r].type = "PEER"
               PROVE  /\ sock'[r].conn[1] \in Asked' /\ req'[sock'[r].conn[1]].admitted
                      /\ sock'[r].peer \in Made'
    BY DEF PeerInv
  <2>0. n \in Asked' /\ req'[n].admitted /\ Asked' = Asked
    BY <1>3, <1>4
  <2>1. CASE r = a \/ r = c
    <3>1. sock'[r].conn[1] = n
      BY <1>25, <1>26, <2>1
    <3>2. sock'[r].peer = c \/ sock'[r].peer = a
      BY <1>25, <2>1
    <3>3. a \in Made' /\ c \in Made'
      BY <1>11
    <3>4. sock'[r].peer \in Made'
      BY ZenonT(40), <3>2, <3>3
    <3>5. sock'[r].conn[1] \in Asked' /\ req'[sock'[r].conn[1]].admitted
      BY ZenonT(40), <2>0, <3>1
    <3> QED  BY ZenonT(40), <3>4, <3>5
  <2>2. CASE r # a /\ r # c
    <3>1. r \in Made /\ sock[r].type = "PEER"
      BY <1>11, <1>21, <2>2
    <3>2. /\ sock[r].conn[1] \in Asked /\ req[sock[r].conn[1]].admitted
          /\ sock[r].peer \in Made
      BY <1>i, <3>1 DEF PeerInv
    <3>3. sock'[r].conn = sock[r].conn /\ sock'[r].peer = sock[r].peer
      BY <1>25, <2>2, <3>1
    <3>4. req'[sock[r].conn[1]].admitted
      BY <1>4, <3>2
    <3>5. sock'[r].conn[1] \in Asked' /\ req'[sock'[r].conn[1]].admitted
      <4>1. PICK m \in Asked : m = sock[r].conn[1] /\ req'[m].admitted
        BY ZenonT(40), <3>2, <3>4
      <4>2. sock'[r].conn[1] = m
        BY ZenonT(40), <3>3, <4>1
      <4>3. m \in Asked'
        BY ZenonT(40), <2>0
      <4> QED  BY ZenonT(40), <4>1, <4>2, <4>3
    <3>6. sock'[r].peer \in Made'
      BY <1>11, <3>2, <3>3
    <3> QED  BY <3>5, <3>6
  <2> QED  BY <2>1, <2>2
<1>28. PortMapSound'
  <2>1. \A r \in Made : sock'[r].port = sock[r].port
    BY <1>10 DEF Connected
  <2>2. ASSUME NEW p \in Ports, Port_Map'[p] # NULL
        PROVE  /\ Port_Map'[p] \in Opened'
               /\ sock'[Port_Map'[p]].type = "LISTENER"
               /\ sock'[Port_Map'[p]].port = p
    <3>1. /\ Port_Map[p] \in Opened /\ sock[Port_Map[p]].type = "LISTENER"
          /\ sock[Port_Map[p]].port = p /\ Port_Map'[p] = Port_Map[p]
      BY <1>i, <1>u, <2>2 DEF PortMapSound
    <3>2. Port_Map[p] \in Made /\ Port_Map[p] # c
      BY <1>7, <1>15, <3>1
    <3> QED  BY <1>15, <1>21, <2>1, <3>1, <3>2
  <2>3. ASSUME NEW r \in Opened', sock'[r].type = "LISTENER"
        PROVE  Port_Map'[sock'[r].port] = r
    <3>1. r \in Made /\ r \in Opened /\ sock[r].type = "LISTENER"
      BY <1>11, <1>15, <1>21, <1>22, <2>3
    <3> QED  BY <1>i, <1>u, <2>1, <3>1 DEF PortMapSound
  <2> QED  BY <2>2, <2>3 DEF PortMapSound
<1>29. ProtectInv'
  <2>1. \A r \in Made :
           /\ r # s => sock'[r].refcount = sock[r].refcount
           /\ r = s => sock'[r].refcount =
                 IF spc'[t] \in Accepting THEN sock[r].refcount + d
                 ELSE sock[r].refcount + d - 1
    <3>1. sock[s].refcount \in Int
      BY <1>1, <1>i, Parts
    <3>2. \A r \in Made : sock'[r].refcount =
             IF r = s THEN sock[r].refcount + (d - 1) ELSE sock[r].refcount
      BY <1>10 DEF Connected
    <3> QED  BY <1>1, <1>2, <3>1, <3>2
  <2>3. \A r \in Made : /\ r # s => sock'[r].refcount = sock[r].refcount
                        /\ r = s => sock'[r].refcount =
                              IF spc'[t] \in Accepting THEN sock[r].refcount + d
                              ELSE sock[r].refcount + d - 1
                        /\ sock'[r].freed = sock[r].freed
                        /\ r \in Opened' <=> r \in Opened
    BY <1>15, <1>25, <2>1
  <2>5. CountsExact
    <3>1. CountsMove(t, s, d)
      BY <2>3 DEF CountsMove
    <3> QED  BY <1>c, <3>1, CountsKept
  <2>6. Counted(a)' = {}
    <3>1. \A u \in Callers : spc'[u] \in Accepting => call'[u] # a
      BY <1>2, <1>11, <1>i DEF ListenerInv
    <3>2. \A u \in Callers : spc'[u] \in InConnect => req'[call'[u]].peer # a
      <4> SUFFICES ASSUME NEW u \in Callers, spc'[u] \in InConnect
                   PROVE  req'[call'[u]].peer # a
        OBVIOUS
      <4>1. PICK m \in Asked : call'[u] = m
        BY <1>18
      <4>2. req'[m].peer = req[m].peer /\ req[m].peer \in Made
        BY <1>4, <1>i DEF RequestInv
      <4> QED  BY <1>11, <4>1, <4>2
    <3>3. \A u \in Callers : u \notin Counted(a)'
      BY <3>1, <3>2, CallSetsNext
    <3> QED  BY <3>3, CallSubsets
  <2>7. sock'[a].refcount = Cardinality(Counted(a)') /\ ~ sock'[a].freed
    <3>1. sock'[a].refcount = 0
      BY <1>10 DEF Connected
    <3> QED  BY <1>25, <2>6, <3>1, FS_EmptySet
  <2> QED  BY <1>11, <2>5, <2>7 DEF ProtectInv, Made, CountsExact
<1>30. ConnectionSound'
  <2> DEFINE Cross(k) == <<k[1], IF k[2] = "c" THEN "s" ELSE "c">>
             Fresh(k) == /\ pipe'[k].reader /\ pipe'[k].writer
                         /\ ~ (pipe'[k].frees > 0)
  <2>1. \A k \in Pipes : /\ k[1] = n => Fresh(k)
                         /\ k[1] # n => pipe'[k] = pipe[k]
    BY DEF Joins
  <2>2. /\ <<n, "c">> \in Pipes /\ <<n, "s">> \in Pipes
        /\ Cross(<<n, "c">>) = <<n, "s">> /\ Cross(<<n, "s">>) = <<n, "c">>
    BY <1>9 DEF Pipes
  <2>3. Fresh(<<n, "c">>) /\ Fresh(<<n, "s">>)
    BY <1>26, <2>1, <2>2
  <2>4. ~ sock[c].freed
    <3>1. v \in Counted(c)
      BY <1>6, CallSets
    <3> QED  BY <1>i, <3>1 DEF ProtectInv, Unused
  <2>5. ASSUME NEW r \in Made', sock'[r].type = "PEER"
        PROVE  LET o == sock'[r].peer
                   q == pipe'[sock'[r].conn]
               IN  /\ sock'[o].type = "PEER" /\ sock'[o].peer = r
                   /\ sock'[r].conn = Cross(sock'[o].conn)
                   /\ Cross(sock'[r].conn) = sock'[o].conn
                   /\ q.frees > 0 <=> ~ q.reader /\ ~ q.writer
                   /\ sock'[r].freed =>
                         ~ q.reader /\ ~ pipe'[Cross(sock'[r].conn)].writer
    <3>1. sock'[c].type = "PEER" /\ c \in Made /\ a # c
      BY <1>5, <1>11, <1>21
    <3>2. CASE r = a
      <4>1. /\ sock'[r].peer = c /\ sock'[r].conn = <<n, "s">>
            /\ sock'[r].freed = FALSE /\ sock'[c].peer = r
            /\ sock'[c].conn = <<n, "c">>
        BY <1>25, <3>2
      <4>2. /\ pipe'[<<n, "s">>].reader /\ pipe'[<<n, "s">>].writer
            /\ ~ (pipe'[<<n, "s">>].frees > 0)
        BY <2>3
      <4> HIDE DEF Cross, Fresh
      <4> QED  BY ZenonT(40), <2>2, <3>1, <4>1, <4>2
    <3>3. CASE r = c
      <4>1. /\ sock'[r].peer = a /\ sock'[r].conn = <<n, "c">>
            /\ sock'[a].peer = r /\ sock'[a].conn = <<n, "s">>
            /\ ~ sock'[r].freed
        BY <1>25, <2>4, <3>1, <3>3
      <4>2. /\ pipe'[<<n, "c">>].reader /\ pipe'[<<n, "c">>].writer
            /\ ~ (pipe'[<<n, "c">>].frees > 0)
        BY <2>3
      <4> HIDE DEF Cross, Fresh
      <4> QED  BY ZenonT(40), <1>22, <2>2, <3>1, <4>1, <4>2
    <3>4. CASE r # a /\ r # c
      <4>1. r \in Made /\ sock[r].type = "PEER"
        BY <1>11, <1>21, <2>5, <3>4
      <4>2. PICK o \in Made : o = sock[r].peer
        BY <1>i, <4>1 DEF PeerInv
      <4>3. /\ sock[o].type = "PEER" /\ sock[o].peer = r
            /\ sock[r].conn = Cross(sock[o].conn) /\ Cross(sock[r].conn) = sock[o].conn
            /\ sock[r].freed => /\ ~ pipe[sock[r].conn].reader
                                /\ ~ pipe[Cross(sock[r].conn)].writer
        BY <1>i, <4>1, <4>2 DEF ConnectionSound, Made, read_pipe, write_pipe
      <4>4. Good(pipe[sock[r].conn])
        BY <1>i, <4>1 DEF ConnectionSound, Made, Good, read_pipe
      <4>5. o # c /\ o # a
        BY <1>7, <1>11, <4>2, <4>3
      <4>6. /\ sock'[r].conn = sock[r].conn /\ sock'[r].peer = o
            /\ sock'[o].conn = sock[o].conn /\ sock'[o].peer = r
            /\ sock'[o].type = "PEER" /\ sock'[r].freed = sock[r].freed
        BY <1>21, <1>25, <3>4, <4>1, <4>2, <4>3, <4>5
      <4>7. sock[r].conn \in Pipes /\ Cross(sock[r].conn) \in Pipes
            /\ sock[r].conn[1] # n /\ Cross(sock[r].conn)[1] # n
        <5>1. sock[r].conn[1] \in Asked /\ req[sock[r].conn[1]].admitted
          BY <1>i, <4>1 DEF PeerInv
        <5>2. sock[r].conn \in ({NULL} \cup Reqs) \X {"c", "s"}
              /\ sock[r].conn[1] \in Reqs /\ sock[r].conn[1] # n
          BY <1>3, <1>i, <4>1, <5>1, Parts
        <5> QED  BY <5>2 DEF Pipes
      <4>8. pipe'[sock[r].conn] = pipe[sock[r].conn]
            /\ pipe'[Cross(sock[r].conn)] = pipe[Cross(sock[r].conn)]
        BY <2>1, <4>7
      <4> HIDE DEF Cross
      <4> QED  BY <4>3, <4>4, <4>6, <4>8 DEF Good
    <3> QED  BY <3>2, <3>3, <3>4
  <2> QED  BY <2>5 DEF ConnectionSound, Made, read_pipe, write_pipe
<1> QED  BY <1>16, <1>17, <1>19, <1>20, <1>23, <1>24, <1>27, <1>28, <1>29,
            <1>30, <1>31 DEF SocketIInv

\* Accept() goes on only when the request it takes is still on a stack.
LEMMA HeadIsTouched ==
    ASSUME SocketIInv, NEW t, NEW s \in Made, NEW d, sock[s].queue # <<>>,
           Take(t, s, d), ~ Crash("request")
    PROVE  req[Head(sock[s].queue)].result = 1
<1> DEFINE q == sock[s].queue
<1>1. q \in Seq(Reqs) /\ q # <<>>
  BY Parts DEF SocketIInv
<1>2. \A i \in {1, 2} \cap DOMAIN q : ~ Dangling(q[i])
  BY DEF Take
<1> HIDE DEF q
<1>3. 1 \in DOMAIN q /\ q[1] = Head(q)
  BY <1>1
<1>4. ~ Dangling(Head(q))
  BY <1>2, <1>3
<1> QED  BY <1>4 DEF Dangling, q

\* The loop of Accept(), entered or resumed, and each way out of it.
LEMMA AcceptLoopPreserves ==
    ASSUME SocketIInv, NEW t \in Callers, NEW s, NEW d,
           InAccept(t, s, d), AcceptLoop(t, s, d)
    PROVE  SocketIInv'
<1> DEFINE p == sock[s].port
<1>1. CASE /\ sock[s].queue = <<>> /\ Port_Map[p] # NULL
           /\ sock' = [sock EXCEPT ![s].refcount = @ + d]
           /\ spc' = [spc EXCEPT ![t] = "accept"]
           /\ call' = [call EXCEPT ![t] = s]
           /\ waitset' = [waitset EXCEPT ![s] = Append(@, t)]
           /\ UNCHANGED <<FIDT, Port_Map, req, pipe, crashed>>
  BY <1>1, AcceptWaits
<1>2. CASE /\ Port_Map[p] = NULL
           /\ sock' = [sock EXCEPT ![s].refcount = @ + d - 1]
           /\ spc' = [spc EXCEPT ![t] = "idle"]
           /\ call' = [call EXCEPT ![t] = NULL]
           /\ UNCHANGED <<FIDT, Port_Map, req, pipe, waitset, crashed>>
  BY <1>2, AcceptFails
<1>3. CASE sock[s].queue # <<>> /\ Take(t, s, d)
  <2>1. PICK n : n = Head(sock[s].queue)
    OBVIOUS
  <2> DEFINE su == [sock EXCEPT ![s].queue = Tail(@), ![s].refcount = @ + d - 1]
  <2>2. CASE Crash("request")
    BY <2>2, CrashPreserves
  <2>3. CASE ~ Crash("request")
    <3>1. /\ spc' = [spc EXCEPT ![t] = "idle"]
          /\ call' = [call EXCEPT ![t] = NULL]
          /\ req' = [req EXCEPT ![n].admitted = TRUE]
          /\ UNCHANGED <<Port_Map, waitset>>
      BY <1>3, <2>1, <2>3 DEF Take
    <3>2. CASE sock' = su /\ UNCHANGED <<FIDT, pipe>>
      BY <1>3, <2>1, <3>1, <3>2, AcceptFull
    <3>3. CASE /\ FreeFids # {} /\ Len(sock) < MaxSockets
               /\ sock' = Joined(su, n, s)
               /\ FIDT' = [FIDT EXCEPT ![LowestFree] = Len(sock) + 1]
               /\ pipe' = [k \in Pipes |-> IF k[1] = n
                              THEN [reader |-> TRUE, writer |-> TRUE, frees |-> 0]
                              ELSE pipe[k]]
      <4>1. s \in Made
        BY DEF InAccept
      <4>2. req[n].result = 1
        BY <1>3, <2>1, <2>3, <4>1, HeadIsTouched
      <4>3. Joins(t, s, d, n)
        BY <3>1, <3>3 DEF Joins
      <4> QED  BY <1>3, <2>1, <3>3, <4>2, <4>3, AcceptJoins
    <3> QED  BY <1>3, <2>1, <2>3, <3>2, <3>3 DEF Take
  <2> QED  BY <2>2, <2>3
<1> QED  BY <1>1, <1>2, <1>3 DEF AcceptLoop

\* A socket that a call works on, or that a descriptor leads to, is not freed.
LEMMA AcceptPreserves ==
    ASSUME SocketIInv, NEW t \in Callers, NEW f \in Fids, Accept(t, f)
    PROVE  SocketIInv'
<1>1. PICK s : s = FIDT[f]
  OBVIOUS
<1>2. s \in Made /\ s \in Opened /\ sock[s].type = "LISTENER" /\ spc[t] = "idle"
  BY <1>1 DEF Accept, SocketIInv, FidInv, Opened, Made
<1>3. ~ sock[s].freed
  BY <1>2 DEF SocketIInv, ProtectInv, Made
<1>4. InAccept(t, s, 1)
  BY <1>2, <1>3 DEF InAccept, InConnect, Moving
<1>5. AcceptLoop(t, s, 1)
  BY <1>1 DEF Accept
<1> QED  BY <1>4, <1>5, AcceptLoopPreserves

\* A thread of Accept() that was woken looks at the port and the queue again.
LEMMA ResumePreserves ==
    ASSUME SocketIInv, NEW t \in Callers, AcceptResume(t)
    PROVE  SocketIInv'
<1>1. PICK s : s = call[t]
  OBVIOUS
<1>2. spc[t] = "accept_woken" /\ AcceptLoop(t, s, 0)
  BY <1>1 DEF AcceptResume
<1>3. spc[t] \in Accepting /\ spc[t] \notin InConnect /\ spc[t] \notin Moving
  BY <1>2 DEF Accepting, InConnect, Moving
<1>4. s \in Made /\ sock[s].type = "LISTENER"
  BY <1>1, <1>3 DEF SocketIInv, ListenerInv
<1>5. t \in Counted(s)
  BY <1>1, <1>3, CallSets
<1>6. ~ sock[s].freed
  BY <1>4, <1>5 DEF SocketIInv, ProtectInv, Unused
<1>7. InAccept(t, s, 0)
  BY <1>1, <1>2, <1>3, <1>4, <1>6 DEF InAccept
<1> QED  BY <1>2, <1>7, AcceptLoopPreserves

\* Every step keeps the invariant.
LEMMA SocketsNextPreserves ==
    ASSUME SocketIInv, ~ Reuse, [SocketsNext]_socketVars
    PROVE  SocketIInv'
<1>1. CASE UNCHANGED socketVars
  <2>1. UNCHANGED <<FIDT, Port_Map, sock, req, pipe, waitset, spc, call, crashed>>
    BY <1>1 DEF socketVars
  <2> QED  BY <2>1, CrashPreserves DEF Crash
<1>2. CASE SocketsNext
  <2>1. Calls
    BY <1>2 DEF SocketsNext
  <2>2. ASSUME NEW p \in {NULL} \cup Ports, Socket(p) PROVE SocketIInv'
    BY <2>2, SocketPreserves
  <2>3. ASSUME NEW f \in Fids, Listen(f) PROVE SocketIInv'
    BY <2>3, ListenPreserves
  <2>4. ASSUME NEW f \in Fids, SocketClose(f) PROVE SocketIInv'
    BY <2>4, ClosePreserves
  <2>5. ASSUME NEW f \in Fids, NEW t \in Callers, NEW dir \in {"read", "write"},
               Transfer(t, f, dir)
        PROVE  SocketIInv'
    BY <2>5, TransferPreserves
  <2>6. ASSUME NEW f \in Fids, NEW how \in Directions, ShutDown(f, how)
        PROVE  SocketIInv'
    BY <2>6, ShutDownPreserves
  <2>7. ASSUME NEW f \in Fids, NEW t \in Callers, Accept(t, f) PROVE SocketIInv'
    BY <2>7, AcceptPreserves
  <2>8. ASSUME NEW f \in Fids, NEW t \in Callers, NEW p \in Ports, Connect(t, f, p)
        PROVE  SocketIInv'
    BY <2>8, ConnectPreserves
  <2>9. ASSUME NEW t \in Callers, Resumes(t) PROVE SocketIInv'
    BY <2>9, ReturnPreserves, ResumePreserves, TransferResumePreserves DEF Resumes
  <2>10. ASSUME NEW t \in Callers, ConnectTimeout(t) PROVE SocketIInv'
    BY <2>10, TimeoutPreserves
  <2> QED  BY <2>1, <2>2, <2>3, <2>4, <2>5, <2>6, <2>7, <2>8, <2>9, <2>10 DEF Calls
<1> QED  BY <1>1, <1>2

-----------------------------------------------------------------------------
(* The theorems.                                                           *)

\* The invariant holds in every state of every execution.
THEOREM SocketInductive ==
    ASSUME ~ Reuse
    PROVE  SocketsSpec => []SocketIInv
<1>1. SocketsInit => SocketIInv
  BY InitEstablishes
<1>2. SocketIInv /\ [SocketsNext]_socketVars => SocketIInv'
  BY SocketsNextPreserves
<1> QED  BY <1>1, <1>2, PTL DEF SocketsSpec

\* Port_Map is the set of the listeners that are open, whatever Listen() and
\* Close() do while other threads wait in Accept() and Connect().
THEOREM PortMapIsSound ==
    ASSUME ~ Reuse
    PROVE  SocketsSpec => []PortMapSound
<1>1. SocketIInv => PortMapSound
  BY DEF SocketIInv
<1> QED  BY <1>1, SocketInductive, PTL

\* The reference counts are exact and protect: a socket that is gone has no
\* descriptor, and the only calls left in it are those of Connect() that wait
\* in a listener, which refcount does not count, and have been woken.
LEMMA ProtectedByCounts == SocketIInv => SocketsProtected
<1> SUFFICES ASSUME SocketIInv PROVE SocketsProtected
  OBVIOUS
<1>i. ProtectInv /\ RequestInv
  BY DEF SocketIInv
<1>1. ASSUME NEW s \in Made, sock[s].freed, NEW t \in Callers, t \in CallsOn(s)
      PROVE  /\ spc[t] \in {"connect_woken", "connect_late"}
             /\ req[call[t]].listener = s /\ req[call[t]].peer # s
  <2>1. Counted(s) = {} /\ Transfers(s) = {} /\ Asleep(s) = {}
    BY <1>1, <1>i DEF ProtectInv, Unused
  <2>2. spc[t] \in InConnect /\ req[call[t]].listener = s
    BY <1>1, <2>1 DEF CallsOn
  <2>3. spc[t] # "connect"
    BY <2>1, <2>2, CallSets
  <2>4. req[call[t]].peer # s
    BY <2>1, <2>2, CallSets
  <2> QED  BY <2>2, <2>3, <2>4 DEF InConnect
<1>2. \A s : CallsOn(s) \subseteq Callers
  BY DEF CallsOn, Counted, Transfers
<1>3. \A s \in Made : sock[s].refcount = Cardinality(Counted(s))
  BY <1>i DEF ProtectInv
<1>4. \A s \in Made : sock[s].freed => s \notin Opened
  BY <1>i DEF ProtectInv
<1>5. ASSUME NEW s \in Made
      PROVE  /\ sock[s].refcount = Cardinality(Counted(s))
             /\ sock[s].freed =>
                  /\ s \notin Opened
                  /\ \A t \in CallsOn(s) :
                        /\ spc[t] \in {"connect_woken", "connect_late"}
                        /\ req[call[t]].listener = s
                        /\ req[call[t]].peer # s
  BY <1>1, <1>2, <1>3, <1>4
<1> QED  BY <1>5 DEF SocketsProtected, Made

\* In every execution the reference counts are exact, and what the free of a
\* socket overtakes is at most a woken Connect() that waited in it.
THEOREM SocketsStayProtected ==
    ASSUME ~ Reuse
    PROVE  SocketsSpec => []SocketsProtected
<1> QED  BY ProtectedByCounts, SocketInductive, PTL

\* The ends of a connection name each other and share two crossed pipes; a
\* pipe is gone, freed once or more, exactly when both its ends were closed by
\* Close() or ShutDown(), and a socket that is gone has closed its two.
THEOREM ConnectionsAreSound ==
    ASSUME ~ Reuse
    PROVE  SocketsSpec => []ConnectionSound
<1>1. SocketIInv => ConnectionSound
  BY DEF SocketIInv
<1> QED  BY <1>1, SocketInductive, PTL

-----------------------------------------------------------------------------
(* A listener stays one.                                                   *)

StayListeners(so) == \A s \in Made : sock[s].type = "LISTENER" => so[s].type = "LISTENER"

\* The changes of control blocks, other than that of a connection.
LEMMA OtherChanges ==
    ASSUME SocketTypes
    PROVE  /\ StayListeners(sock)
           /\ \A x : StayListeners(Append(sock, x))
           /\ \A c : StayListeners([sock EXCEPT ![c].type = "LISTENER"])
           /\ \A c, v : StayListeners([sock EXCEPT ![c].refcount = v])
           /\ \A c, v : StayListeners([sock EXCEPT ![c].freed = v])
           /\ \A c, l, v, q :
                 StayListeners([sock EXCEPT ![c].refcount = v, ![l].queue = q])
           /\ \A l, v, q : StayListeners([sock EXCEPT ![l].queue = q, ![l].refcount = v])
<1>1. /\ sock \in Seq(SocketRecord) /\ DOMAIN sock = Made
      /\ \A s \in Made : sock[s] \in SocketRecord
  BY Parts DEF SocketTypes, Made
<1>2. StayListeners(sock) /\ \A x : StayListeners(Append(sock, x))
  BY <1>1 DEF StayListeners, Made
<1>3. \A c : StayListeners([sock EXCEPT ![c].type = "LISTENER"])
  BY <1>1 DEF StayListeners, SocketRecord
<1>4. \A c, v : StayListeners([sock EXCEPT ![c].refcount = v])
  BY <1>1 DEF StayListeners, SocketRecord
<1>5. \A c, v : StayListeners([sock EXCEPT ![c].freed = v])
  BY <1>1 DEF StayListeners, SocketRecord
<1>6. \A c, l, v, q : StayListeners([sock EXCEPT ![c].refcount = v, ![l].queue = q])
  BY SMTT(30), <1>1 DEF StayListeners, SocketRecord
<1>7. \A l, v, q : StayListeners([sock EXCEPT ![l].queue = q, ![l].refcount = v])
  BY <1>1 DEF StayListeners, SocketRecord
<1> QED  BY <1>2, <1>3, <1>4, <1>5, <1>6, <1>7

\* The socket that asked for a connection is no listener when it is made a peer.
LEMMA TakeKeepsListeners ==
    ASSUME SocketIInv, NEW t \in Callers, NEW s \in Made, NEW d \in Int,
           sock[s].type = "LISTENER", sock[s].queue # <<>>, Take(t, s, d)
    PROVE  StayListeners(sock')
<1>1. PICK n : n = Head(sock[s].queue)
  OBVIOUS
<1>2. /\ n \in Asked /\ ~ req[n].admitted /\ Tail(sock[s].queue) \in Seq(Reqs)
  BY <1>1, FirstRequest
<1>i. /\ SocketTypes /\ RequestInv /\ ListenerInv /\ PendingInv
  BY DEF SocketIInv
<1>3. CASE Crash("request")
  BY <1>3, <1>i, OtherChanges DEF Crash
<1>4. CASE sock' = [sock EXCEPT ![s].queue = Tail(@), ![s].refcount = @ + d - 1]
  <2>1. sock' = [sock EXCEPT ![s].queue = Tail(sock[s].queue),
                             ![s].refcount = sock[s].refcount + d - 1]
    BY <1>4, <1>i, Parts DEF SocketTypes, SocketRecord
  <2> QED  BY <2>1, <1>i, OtherChanges
<1>5. CASE /\ ~ Crash("request") /\ Len(sock) < MaxSockets
           /\ sock' = Joined([sock EXCEPT ![s].queue = Tail(@),
                                          ![s].refcount = @ + d - 1], n, s)
  <2>1. req[n].result = 1
    BY <1>1, <1>5, HeadIsTouched
  <2>2. PICK c \in Made : c = req[n].peer
    BY <1>2, <1>i DEF RequestInv
  <2>3. PICK v \in Callers : /\ spc[v] \in InConnect /\ call[v] = n
                             /\ req[call[v]].peer = c
    BY <1>2, <2>1, <2>2, <1>i, Parts DEF RequestInv
  <2>4. sock[c].type = "UNBOUND" /\ c # s
    BY <1>2, <2>2, <2>3, <1>i DEF PendingInv
  <2>5. PICK a : a = Len(sock) + 1
    OBVIOUS
  <2>6. n \in Reqs /\ sock[s].port \in Ports
    BY <1>2, <1>i, Parts DEF ListenerInv
  <2>7. Connected(s, d, n, c, a)
    BY <1>2, <1>5, <1>i, <2>2, <2>4, <2>5, <2>6, JoinedEffect
  <2> QED  BY <2>4, <2>7 DEF Connected, StayListeners
<1> QED  BY <1>1, <1>3, <1>4, <1>5 DEF Take

\* The loop of Accept() keeps the listeners.
LEMMA LoopKeepsListeners ==
    ASSUME SocketIInv, NEW t \in Callers, NEW s \in Made, NEW d \in Int,
           sock[s].type = "LISTENER", AcceptLoop(t, s, d)
    PROVE  StayListeners(sock')
<1>1. SocketTypes
  BY DEF SocketIInv
<1>2. CASE sock' = [sock EXCEPT ![s].refcount = @ + d]
  <2>1. sock' = [sock EXCEPT ![s].refcount = sock[s].refcount + d]
    BY <1>2
  <2> QED  BY <1>1, <2>1, OtherChanges
<1>3. CASE sock' = [sock EXCEPT ![s].refcount = @ + d - 1]
  <2>1. sock' = [sock EXCEPT ![s].refcount = sock[s].refcount + d - 1]
    BY <1>3
  <2> QED  BY <1>1, <2>1, OtherChanges
<1>4. CASE sock[s].queue # <<>> /\ Take(t, s, d)
  BY <1>4, TakeKeepsListeners
<1> QED  BY <1>2, <1>3, <1>4 DEF AcceptLoop

\* No step turns a listener into something else.
LEMMA ListenersKept ==
    ASSUME SocketIInv, [SocketsNext]_socketVars
    PROVE  StayListeners(sock')
<1>1. SocketTypes /\ FidInv /\ ListenerInv
  BY DEF SocketIInv
<1>2. CASE UNCHANGED socketVars
  BY <1>1, <1>2, OtherChanges DEF socketVars
<1>3. ASSUME NEW p \in {NULL} \cup Ports, Socket(p) PROVE StayListeners(sock')
  BY <1>1, <1>3, OtherChanges DEF Socket
<1>4. ASSUME NEW f \in Fids, Listen(f) PROVE StayListeners(sock')
  <2>1. PICK c : c = FIDT[f]
    OBVIOUS
  <2>2. sock' = [sock EXCEPT ![c].type = "LISTENER"]
    BY <1>4, <2>1 DEF Listen
  <2> QED  BY <1>1, <2>2, OtherChanges
<1>5. ASSUME NEW f \in Fids, SocketClose(f) PROVE StayListeners(sock')
  <2>1. PICK c : c = FIDT[f]
    OBVIOUS
  <2>2. UNCHANGED sock \/ sock' = [sock EXCEPT ![c].freed = (sock[c].refcount = 0)]
    BY <1>5, <2>1 DEF SocketClose, CloseListener, ClosePeer
  <2> QED  BY <1>1, <2>2, OtherChanges
<1>6. ASSUME NEW f \in Fids, NEW how \in Directions, ShutDown(f, how)
      PROVE  StayListeners(sock')
  BY <1>1, <1>6, OtherChanges DEF ShutDown
<1>t. ASSUME NEW t, NEW s, NEW dir, TransferLoop(t, s, dir)
      PROVE  StayListeners(sock')
  <2>1. UNCHANGED sock \/ sock' = [sock EXCEPT ![s].freed = (sock[s].refcount = 0)]
    BY <1>t DEF TransferLoop, TransferWaits, TransferEnds, ClosePeer, Crash
  <2> QED  BY <1>1, <2>1, OtherChanges
<1>7. ASSUME NEW f \in Fids, NEW t \in Callers, Accept(t, f) PROVE StayListeners(sock')
  <2>1. PICK s : s = FIDT[f]
    OBVIOUS
  <2>2. s \in Made /\ sock[s].type = "LISTENER" /\ AcceptLoop(t, s, 1) /\ 1 \in Int
    BY <1>1, <1>7, <2>1 DEF Accept, FidInv
  <2> QED  BY <2>2, LoopKeepsListeners
<1>8. ASSUME NEW f \in Fids, NEW t \in Callers, NEW p \in Ports, Connect(t, f, p)
      PROVE  StayListeners(sock')
  <2>1. PICK c, l, n : c = FIDT[f] /\ l = Port_Map[p] /\ n = Len(req) + 1
    OBVIOUS
  <2>2. \/ UNCHANGED sock
        \/ /\ sock' = [sock EXCEPT ![c].refcount = @ + 1, ![l].queue = <<n>> \o @]
           /\ c # l
    BY <1>8, <2>1 DEF Connect, Crash
  <2>3. CASE UNCHANGED sock
    BY <1>1, <2>3, OtherChanges
  <2>4. CASE /\ sock' = [sock EXCEPT ![c].refcount = @ + 1, ![l].queue = <<n>> \o @]
             /\ c # l
    <3>1. sock' = [sock EXCEPT ![c].refcount = sock[c].refcount + 1,
                               ![l].queue = <<n>> \o sock[l].queue]
      BY <2>4
    <3> QED  BY <1>1, <3>1, OtherChanges
  <2> QED  BY <2>2, <2>3, <2>4
<1>9. ASSUME NEW t \in Callers, ConnectReturn(t) PROVE StayListeners(sock')
  <2>1. PICK c : c = req[call[t]].peer
    OBVIOUS
  <2>2. UNCHANGED sock \/ sock' = [sock EXCEPT ![c].refcount = sock[c].refcount - 1]
    BY <1>9, <2>1 DEF ConnectReturn, Crash
  <2> QED  BY <1>1, <2>2, OtherChanges
<1>10. ASSUME NEW t \in Callers, AcceptResume(t) PROVE StayListeners(sock')
  <2>1. PICK s : s = call[t]
    OBVIOUS
  <2>2. s \in Made /\ sock[s].type = "LISTENER" /\ AcceptLoop(t, s, 0) /\ 0 \in Int
    BY <1>1, <1>10, <2>1 DEF AcceptResume, ListenerInv, Accepting
  <2> QED  BY <2>2, LoopKeepsListeners
<1>11. ASSUME NEW t \in Callers, ConnectTimeout(t) PROVE StayListeners(sock')
  BY <1>1, <1>11, OtherChanges DEF ConnectTimeout
<1> QED  BY <1>2, <1>3, <1>4, <1>5, <1>6, <1>t, <1>7, <1>8, <1>9, <1>10, <1>11
         DEF SocketsNext, Calls, Resumes, Transfer, TransferResume

\* Nothing but Accept(), Close() and Dup2() works on a listening socket: it is
\* never made a peer by a Connect() that waits with it, because none does.
THEOREM ListenersRemain ==
    ASSUME ~ Reuse
    PROVE  SocketsSpec => ListenersStay
<1>1. SocketIInv /\ [SocketsNext]_socketVars
          => [\A s \in 1 .. Len(sock) :
                 sock[s].type = "LISTENER" => sock'[s].type = "LISTENER"]_socketVars
  BY ListenersKept DEF StayListeners, Made
<1> QED  BY <1>1, SocketInductive, PTL DEF SocketsSpec, ListenersStay

=============================================================================
