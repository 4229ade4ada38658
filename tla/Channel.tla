------------------------------ MODULE Channel ------------------------------
(***************************************************************************)
(* What a pipe promises (tinyos.h, Pipe()): a bounded first-in first-out   *)
(* stream of bytes with a read end and a write end.  Bytes come out in the *)
(* order they went in, none is lost or made up; Read() returns 0 only when *)
(* the write end is closed and the stream is empty, Write() fails only     *)
(* when the read end is closed.                                            *)
(***************************************************************************)
EXTENDS Integers, Sequences

CONSTANTS Clients,   \* the threads that call Read() and Write()
          Bytes,
          Capacity

VARIABLES queue,               \* the bytes in the channel
          readOpen, writeOpen,
          data,                \* bytes of the client's call: still to be
                               \* written, or read so far
          outcome              \* how the client's last call ended

channelVars == <<queue, readOpen, writeOpen, data, outcome>>

ChannelInit == /\ queue = <<>>
               /\ readOpen = TRUE
               /\ writeOpen = TRUE
               /\ data = [t \in Clients |-> <<>>]
               /\ outcome = [t \in Clients |-> "done"]

Pending(t) == outcome[t] \in {"reading", "writing"}

CallRead(t) == /\ ~ Pending(t)
               /\ readOpen
               /\ outcome' = [outcome EXCEPT ![t] = "reading"]
               /\ UNCHANGED <<queue, readOpen, writeOpen, data>>

CallWrite(t) == /\ ~ Pending(t)
                /\ readOpen /\ writeOpen
                /\ data'[t] \in Seq(Bytes)
                /\ data' = [data EXCEPT ![t] = data'[t]]
                /\ outcome' = [outcome EXCEPT ![t] = "writing"]
                /\ UNCHANGED <<queue, readOpen, writeOpen>>

\* A Write() that is turned away at once.
Reject(t) == /\ ~ Pending(t)
             /\ ~ readOpen
             /\ outcome' = [outcome EXCEPT ![t] = "error"]
             /\ UNCHANGED <<queue, readOpen, writeOpen, data>>

Put(t) == /\ outcome[t] = "writing"
          /\ readOpen /\ writeOpen
          /\ data[t] # <<>>
          /\ Len(queue) < Capacity
          /\ queue' = Append(queue, Head(data[t]))
          /\ data' = [data EXCEPT ![t] = Tail(@)]
          /\ UNCHANGED <<readOpen, writeOpen, outcome>>

Get(t) == /\ outcome[t] = "reading"
          /\ readOpen
          /\ queue # <<>>
          /\ data' = [data EXCEPT ![t] = Append(@, Head(queue))]
          /\ queue' = Tail(queue)
          /\ UNCHANGED <<readOpen, writeOpen, outcome>>

\* A call returns, and if it was the last user of its end, whose descriptors
\* are all closed, that end closes with it.
ReturnRead(t) ==
    /\ outcome[t] = "reading"
    /\ \/ outcome' = [outcome EXCEPT ![t] = "done"]
       \/ /\ ~ writeOpen /\ queue = <<>>
          /\ outcome' = [outcome EXCEPT ![t] = "eof"]
    /\ data' = [data EXCEPT ![t] = <<>>]
    /\ readOpen' \in {readOpen, FALSE}
    /\ UNCHANGED <<queue, writeOpen>>

ReturnWrite(t) ==
    /\ outcome[t] = "writing"
    /\ \/ outcome' = [outcome EXCEPT ![t] = "done"]
       \/ /\ ~ readOpen
          /\ outcome' = [outcome EXCEPT ![t] = "error"]
    /\ data' = [data EXCEPT ![t] = <<>>]
    /\ writeOpen' \in {writeOpen, FALSE}
    /\ UNCHANGED <<queue, readOpen>>

CloseRead  == readOpen' = FALSE /\ UNCHANGED <<queue, writeOpen, data, outcome>>
CloseWrite == writeOpen' = FALSE /\ UNCHANGED <<queue, readOpen, data, outcome>>

ChannelNext ==
    \/ \E t \in Clients : \/ CallRead(t) \/ CallWrite(t) \/ Reject(t)
                          \/ Put(t) \/ Get(t)
                          \/ ReturnRead(t) \/ ReturnWrite(t)
    \/ CloseRead \/ CloseWrite

ChannelSpec == ChannelInit /\ [][ChannelNext]_channelVars

=============================================================================
