------------------------------ MODULE Streams ------------------------------
(***************************************************************************)
(* The table of file control blocks and the descriptor tables of           *)
(* kernel_streams.c, with the calls that change them: OpenNull(),          *)
(* OpenTerminal(), Pipe(), Dup2(), Close(), and the inheriting and closing *)
(* of descriptors by Exec() and Exit().                                    *)
(*                                                                         *)
(* The calls are functions of the table os, so that a program that makes   *)
(* several of them in a row (module Pipeline) can be composed from them.   *)
(* StreamsNext makes them in any order.                                    *)
(***************************************************************************)
EXTENDS Integers, Sequences, FiniteSets, SequencesExt

CONSTANTS Procs,            \* processes; each has a FIDT
          Init_pid,         \* the one that runs at first
          MAX_FILES,        \* number of FCBs
          MAX_FILEID,       \* descriptors of a process
          MaxPipes,         \* bound on the pipes that exist at a time
          NTerminals

ASSUME StreamsAssumption ==
    /\ {MAX_FILES, MAX_FILEID} \subseteq Nat \ {0}
    /\ {MaxPipes, NTerminals} \subseteq Nat
    /\ Init_pid \in Procs /\ IsFiniteSet(Procs)

NULL == 0
FCBs == 1 .. MAX_FILES
Fids == 0 .. MAX_FILEID - 1
Pipes == 1 .. MaxPipes

\* What an FCB leads to: a device, or an end of a pipe.
NullDevice == <<"null", 0>>
Terminal(n) == <<"terminal", n>>
Reader(k) == <<"reader", k>>
Writer(k) == <<"writer", k>>

VARIABLES
    os,         \* freelist, refcount, stream, FIDT, and the open pipe ends
    inuse       \* the FCB a blocked Read() or Write() of a process holds

streamsVars == <<os, inuse>>

\* initialize_files()
EmptyTable ==
    [freelist |-> [i \in FCBs |-> i],
     refcount |-> [c \in FCBs |-> 0],
     stream   |-> [c \in FCBs |-> NullDevice],
     FIDT     |-> [p \in Procs |-> [f \in Fids |-> NULL]],
     ends     |-> {}]

-----------------------------------------------------------------------------
(* File control blocks.                                                    *)

\* acquire_FCB(), num times.
Acquired(o, num) == SubSeq(o.freelist, 1, num)

FCB_incref(o, c) == [o EXCEPT !.refcount[c] = @ + 1]

\* FCB_decref() and release_FCB(): the last reference closes the stream.
\* Nobody reads the stream of a free FCB; it is forgotten here.
FCB_decref(o, c) ==
    LET d == [o EXCEPT !.refcount[c] = @ - 1]
    IN  IF d.refcount[c] = 0
        THEN [d EXCEPT !.ends = @ \ {o.stream[c]}, !.freelist = Append(@, c),
                       !.stream[c] = NullDevice]
        ELSE d

FreeFids(o, p) == {f \in Fids : o.FIDT[p][f] = NULL}

\* The num lowest free descriptors, in order.
LowestFids(o, p, num) ==
    [i \in 1 .. num |-> CHOOSE f \in FreeFids(o, p) :
                           Cardinality({g \in FreeFids(o, p) : g < f}) = i - 1]

\* Both parts of FCB_reserve() can be done.
CanReserve(o, p, num) ==
    Cardinality(FreeFids(o, p)) >= num /\ Len(o.freelist) >= num

\* FCB_reserve() installs the FCBs and counts the reference.
FCB_reserve(o, p, num) ==
    LET fid == LowestFids(o, p, num)
        fcb == Acquired(o, num)
        Index(f) == CHOOSE i \in 1 .. num : fid[i] = f
    IN  [o EXCEPT
            !.freelist = SubSeq(@, num + 1, Len(@)),
            !.refcount = [c \in FCBs |-> IF c \in ToSet(fcb) THEN 1 ELSE @[c]],
            !.FIDT[p] = [f \in Fids |-> IF f \in ToSet(fid) THEN fcb[Index(f)] ELSE @[f]]]

\* Faulty variant: the FCBs that were found are not given back.
NoRollBack(o, p, num) ==
    IF Cardinality(FreeFids(o, p)) < num THEN o
    ELSE [o EXCEPT !.freelist = <<>>]

\* FCB_reserve() that fails.  When descriptors were found but too few FCBs,
\* it has emptied the free list and puts the FCBs back, the last one first.
FCB_reserve_fails(o, p, num) ==
    IF Cardinality(FreeFids(o, p)) < num THEN o
    ELSE [o EXCEPT !.freelist = Reverse(@),
                   !.refcount = [c \in FCBs |-> IF c \in ToSet(o.freelist) THEN 0 ELSE @[c]]]

\* FCB_unreserve() of one descriptor.  The FCB keeps its count of 1, which
\* acquire_FCB() resets.
FCB_unreserve(o, p, f) ==
    [o EXCEPT !.FIDT[p][f] = NULL, !.freelist = Append(@, o.FIDT[p][f])]

-----------------------------------------------------------------------------
(* System calls of process p, as functions of the table.                   *)

\* open_stream(), with the stream device_open() finds or NULL-device failure.
open_stream(o, p, stream, found) ==
    LET r == FCB_reserve(o, p, 1)
        f == LowestFids(o, p, 1)[1]
    IN  IF ~ CanReserve(o, p, 1) THEN FCB_reserve_fails(o, p, 1)
        ELSE IF found THEN [r EXCEPT !.stream[r.FIDT[p][f]] = stream]
        ELSE FCB_unreserve(r, p, f)

sys_OpenNull(o, p) == open_stream(o, p, NullDevice, TRUE)

\* device_open() refuses a terminal that does not exist.
sys_OpenTerminal(o, p, n) == open_stream(o, p, Terminal(n), n < NTerminals)

\* sys_Pipe() with the control block k that malloc() returned.
sys_Pipe(o, p, k) ==
    LET r == FCB_reserve(o, p, 2)
        fid == LowestFids(o, p, 2)
    IN  IF ~ CanReserve(o, p, 2) THEN FCB_reserve_fails(o, p, 2)
        ELSE [r EXCEPT !.stream[r.FIDT[p][fid[1]]] = Reader(k),
                       !.stream[r.FIDT[p][fid[2]]] = Writer(k),
                       !.ends = @ \cup {Reader(k), Writer(k)}]

\* Pipes no FCB leads to: acquire_PipeCB() may return any of them.
FreePipes(o) == {k \in Pipes : {Reader(k), Writer(k)} \cap o.ends = {}}

sys_Close(o, p, f) ==
    LET c == o.FIDT[p][f]
    IN  IF c = NULL THEN o ELSE FCB_decref([o EXCEPT !.FIDT[p][f] = NULL], c)

sys_Dup2(o, p, old, new) ==
    LET c == o.FIDT[p][old]
        d == o.FIDT[p][new]
    IN  IF c = NULL \/ c = d THEN o
        ELSE [FCB_incref(IF d = NULL THEN o ELSE FCB_decref(o, d), c)
                EXCEPT !.FIDT[p][new] = c]

\* sys_Exec(): process q inherits the descriptors of p.
Inherit(o, p, q) ==
    [o EXCEPT !.FIDT[q] = o.FIDT[p],
              !.refcount = [c \in FCBs |->
                    @[c] + Cardinality({f \in Fids : o.FIDT[p][f] = c})]]

\* The last thread of process p closes its descriptors, in order: an FCB is
\* released at the last one, if no other process refers to it.
ExitFids(o, p) ==
    LET fids(c) == {f \in Fids : o.FIDT[p][f] = c}
        gone == {c \in FCBs : fids(c) # {} /\ o.refcount[c] = Cardinality(fids(c))}
        Before(c, d) == \A f \in fids(c) : \E g \in fids(d) : f < g
        released == [i \in 1 .. Cardinality(gone) |-> CHOOSE c \in gone :
                        Cardinality({d \in gone \ {c} : Before(d, c)}) = i - 1]
    IN  [o EXCEPT !.FIDT[p] = [f \in Fids |-> NULL],
                  !.refcount = [c \in FCBs |-> @[c] - Cardinality(fids(c))],
                  !.stream = [c \in FCBs |-> IF c \in gone THEN NullDevice ELSE @[c]],
                  !.ends = @ \ {o.stream[c] : c \in gone},
                  !.freelist = @ \o released]

-----------------------------------------------------------------------------
(* The calls in any order.                                                 *)

StreamsInit ==
    /\ os = EmptyTable
    /\ inuse = [p \in Procs |-> NULL]

\* Processes with no descriptor stand for the ones that do not exist.
Absent(p) == p # Init_pid /\ \A f \in Fids : os.FIDT[p][f] = NULL

Open(p) ==
    /\ \/ os' = sys_OpenNull(os, p)
       \/ \E n \in 0 .. NTerminals : os' = sys_OpenTerminal(os, p, n)
       \/ \E k \in FreePipes(os) : os' = sys_Pipe(os, p, k)
    /\ UNCHANGED inuse

CloseOrDup(p) ==
    /\ \/ \E f \in Fids : os' = sys_Close(os, p, f)
       \/ \E f, g \in Fids : os' = sys_Dup2(os, p, f, g)
    /\ UNCHANGED inuse

Exec(p) ==
    /\ \E q \in Procs \ {p} : Absent(q) /\ inuse[q] = NULL /\ os' = Inherit(os, p, q)
    /\ UNCHANGED inuse

Exit(p) ==
    /\ inuse[p] = NULL
    /\ os' = ExitFids(os, p)
    /\ UNCHANGED inuse

\* sys_Read() and sys_Write() keep a reference while they wait.
Block(p, f) ==
    LET c == os.FIDT[p][f] IN
    /\ inuse[p] = NULL /\ c # NULL
    /\ os' = FCB_incref(os, c)
    /\ inuse' = [inuse EXCEPT ![p] = c]

Unblock(p) ==
    /\ inuse[p] # NULL
    /\ os' = FCB_decref(os, inuse[p])
    /\ inuse' = [inuse EXCEPT ![p] = NULL]

StreamsNext ==
    \E p \in Procs :
        \/ ~ Absent(p) /\ (Open(p) \/ CloseOrDup(p) \/ Exec(p) \/ Exit(p))
        \/ \E f \in Fids : Block(p, f)
        \/ Unblock(p)

-----------------------------------------------------------------------------
(* Properties.                                                             *)

References(c) ==
    Cardinality({e \in Procs \X Fids : os.FIDT[e[1]][e[2]] = c})
        + Cardinality({p \in Procs : inuse[p] = c})

(* Every FCB is either referred to, with refcount the number of the        *)
(* descriptors of all processes and of the blocked calls that lead to it,  *)
(* or once in the free list: no sequence of calls, failing ones included,  *)
(* loses an FCB or releases it while it is used.  A pipe end is open as    *)
(* long as an FCB in use leads to it.                                      *)
FilesSound ==
    /\ \A c \in FCBs :
          IF References(c) > 0
          THEN os.refcount[c] = References(c) /\ c \notin ToSet(os.freelist)
          ELSE Cardinality({i \in DOMAIN os.freelist : os.freelist[i] = c}) = 1
    /\ os.ends = {os.stream[c] : c \in {d \in FCBs : References(d) > 0}}
                   \cap ({Reader(k) : k \in Pipes} \cup {Writer(k) : k \in Pipes})
=============================================================================
