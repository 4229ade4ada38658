-------------------------------- MODULE Pipe --------------------------------
(***************************************************************************)
(* One pipe of kernel_pipe.c and the two file control blocks that keep it  *)
(* alive (FCB_incref(), FCB_decref(), Read(), Write(), Close() and Dup2()  *)
(* of kernel_streams.c).                                                   *)
(*                                                                         *)
(* A system call holds the kernel semaphore (kernel) except while it       *)
(* sleeps in kernel_wait().  Where a thread is in its call is pc:          *)
(*   "idle"                   in no call on this pipe;                     *)
(*   "rtest", "wtest"         at the loop condition around kernel_wait();  *)
(*   "rsleep", "wsleep"       asleep on has_data, on has_space;            *)
(*   "rwoken", "wwoken"       woken up, wants the kernel semaphore back;   *)
(*   "rcopy", "wcopy"         in the loop that copies the bytes.           *)
(***************************************************************************)
EXTENDS Integers, Sequences, FiniteSets

CONSTANTS Threads,           \* the threads that use the pipe
          Nobody,            \* no thread holds the kernel semaphore
          Bytes,
          PIPE_BUFFER_SIZE,
          MaxTransfer,       \* bound on the size argument of Read and Write
          MaxFids            \* bound on the descriptors of each end

ASSUME PipeAssumption ==
    /\ PIPE_BUFFER_SIZE \in Nat \ {0}
    /\ MaxTransfer \in Nat
    /\ MaxFids \in Nat \ {0}
    /\ Nobody \notin Threads
    /\ IsFiniteSet(Threads)

VARIABLES
    BUFFER, w_position, r_position, used_space,
    open,        \* open["r"], open["w"]: reader and writer are not NULL
    frees,       \* how many times free(pipeCB) was called
    fids,        \* entries of FIDTs that hold the FCB of an end
    refcount,    \* FCB.refcount of each end
    kernel,      \* who holds the kernel semaphore
    pc,
    buf,         \* bytes a Write() has still to store, a Read() has fetched
    size,        \* size argument of the thread's call
    counter,     \* bytes copied so far
    ret          \* what the thread's last call returned: see Outcome

ringVars == <<BUFFER, w_position, r_position, used_space>>
fileVars == <<open, frees, fids, refcount>>
callVars == <<kernel, pc, buf, size, counter, ret>>
vars == <<ringVars, fileVars, callVars>>

Ends == {"r", "w"}
Slots == 0 .. PIPE_BUFFER_SIZE - 1
Messages == UNION {[1 .. n -> Bytes] : n \in 0 .. MaxTransfer}
PCs == {"idle", "rtest", "rsleep", "rwoken", "rcopy",
                "wtest", "wsleep", "wwoken", "wcopy"}

\* sys_Pipe(): both ends open, one descriptor each.  acquire_PipeCB() leaves
\* BUFFER as malloc() returned it.
Init ==
    /\ BUFFER \in [Slots -> Bytes]
    /\ w_position = 0 /\ r_position = 0 /\ used_space = 0
    /\ open = [e \in Ends |-> TRUE]
    /\ frees = 0
    /\ fids = [e \in Ends |-> 1]
    /\ refcount = [e \in Ends |-> 1]
    /\ kernel = Nobody
    /\ pc = [t \in Threads |-> "idle"]
    /\ buf = [t \in Threads |-> <<>>]
    /\ size = [t \in Threads |-> 0]
    /\ counter = [t \in Threads |-> 0]
    /\ ret = [t \in Threads |-> "done"]

-----------------------------------------------------------------------------

\* Faulty variant: kernel_signal() in place of kernel_broadcast().
SignalOne(p, asleep, woken) ==
    IF \E t \in Threads : p[t] = asleep
    THEN [p EXCEPT ![CHOOSE t \in Threads : p[t] = asleep] = woken]
    ELSE p

\* kernel_broadcast(), with p the program counters otherwise reached.
kernel_broadcast(p, asleep, woken) ==
    [t \in Threads |-> IF p[t] = asleep THEN woken ELSE p[t]]

\* w_position and r_position go round the buffer.
Advance(position) ==
    IF position = PIPE_BUFFER_SIZE - 1 THEN 0 ELSE position + 1

Other(e) == IF e = "r" THEN "w" ELSE "r"

\* Faulty variant: the other end is not looked at.
CloseBlindly(e, p) ==
    /\ open' = [open EXCEPT ![e] = FALSE]
    /\ frees' = frees + 1
    /\ pc' = p

\* pipe_reader_close() and pipe_writer_close(), with p as above.
pipe_close(e, p) ==
    /\ open' = [open EXCEPT ![e] = FALSE]
    /\ \/ /\ ~ open[Other(e)]
          /\ frees' = frees + 1
          /\ pc' = p
       \/ /\ open[Other(e)]
          /\ UNCHANGED frees
          /\ pc' = IF e = "w" THEN kernel_broadcast(p, "rsleep", "rwoken")
                             ELSE kernel_broadcast(p, "wsleep", "wwoken")

\* FCB_decref() behind the decrement: the last reference closes the stream.
CloseIfLast(e, p) ==
    \/ refcount[e] = 1 /\ pipe_close(e, p)
    \/ refcount[e] # 1 /\ pc' = p /\ UNCHANGED <<open, frees>>

\* What the result of a call with argument n tells its caller: an error, the
\* end of the data, or the number of bytes.
Outcome(result, n) ==
    CASE result = -1 -> "error"
      [] result = 0 /\ n > 0 -> "eof"
      [] OTHER -> "done"

\* The call returns: Read() and Write() drop their reference to the FCB and
\* the thread leaves the kernel.  p holds the other threads' counters.
Leave(t, e, result, p) ==
    /\ refcount' = [refcount EXCEPT ![e] = @ - 1]
    /\ CloseIfLast(e, [p EXCEPT ![t] = "idle"])
    /\ ret' = [ret EXCEPT ![t] = Outcome(result, size[t])]
    /\ kernel' = Nobody
    /\ buf' = [buf EXCEPT ![t] = <<>>]
    /\ counter' = [counter EXCEPT ![t] = 0]
    /\ size' = [size EXCEPT ![t] = 0]
    /\ UNCHANGED fids

-----------------------------------------------------------------------------
(* Read()                                                                  *)

\* sys_Read() up to the loop of pipe_read().  The test of reader fails only
\* for a pipe whose read end was closed behind the FCB's back.
Read(t, n) ==
    /\ kernel = Nobody /\ pc[t] = "idle"
    /\ fids["r"] > 0
    /\ open["r"]
    /\ kernel' = t
    /\ pc' = [pc EXCEPT ![t] = "rtest"]
    /\ size' = [size EXCEPT ![t] = n]
    /\ refcount' = [refcount EXCEPT !["r"] = @ + 1]
    /\ UNCHANGED <<ringVars, open, frees, fids, buf, counter, ret>>

\* while(used_space == 0 && writer != NULL) kernel_wait(&has_data)
ReadTest(t) ==
    /\ kernel = t /\ pc[t] = "rtest"
    /\ \/ /\ used_space = 0 /\ open["w"]
          /\ pc' = [pc EXCEPT ![t] = "rsleep"]
          /\ kernel' = Nobody
       \/ /\ ~ (used_space = 0 /\ open["w"])
          /\ pc' = [pc EXCEPT ![t] = "rcopy"]
          /\ UNCHANGED kernel
    /\ UNCHANGED <<ringVars, fileVars, buf, size, counter, ret>>

\* One byte from the buffer.
ReadByte(t) ==
    /\ kernel = t /\ pc[t] = "rcopy"
    /\ counter[t] < size[t] /\ used_space > 0
    /\ r_position' = Advance(r_position)
    /\ used_space' = used_space - 1
    /\ buf' = [buf EXCEPT ![t] = Append(@, BUFFER[r_position])]
    /\ counter' = [counter EXCEPT ![t] = @ + 1]
    /\ UNCHANGED <<BUFFER, w_position, fileVars, kernel, pc, size, ret>>

\* The end of pipe_read() and of sys_Read().
ReadReturn(t) ==
    /\ kernel = t /\ pc[t] = "rcopy"
    /\ ~ (counter[t] < size[t] /\ used_space > 0)
    /\ Leave(t, "r", counter[t],
             kernel_broadcast(pc, "wsleep", "wwoken"))
    /\ UNCHANGED ringVars

-----------------------------------------------------------------------------
(* Write()                                                                 *)

\* sys_Write() up to the loop of pipe_write(), or its early return.
Write(t, msg) ==
    /\ kernel = Nobody /\ pc[t] = "idle"
    /\ fids["w"] > 0
    /\ \/ /\ open["r"] /\ open["w"]
          /\ kernel' = t
          /\ pc' = [pc EXCEPT ![t] = "wtest"]
          /\ size' = [size EXCEPT ![t] = Len(msg)]
          /\ buf' = [buf EXCEPT ![t] = msg]
          /\ refcount' = [refcount EXCEPT !["w"] = @ + 1]
          /\ UNCHANGED ret
       \/ /\ ~ (open["r"] /\ open["w"])
          /\ ret' = [ret EXCEPT ![t] = "error"]
          /\ UNCHANGED <<kernel, pc, size, buf, refcount>>
    /\ UNCHANGED <<ringVars, open, frees, fids, counter>>

\* while(used_space == SIZE && reader != NULL) kernel_wait(&has_space), and
\* the test of reader behind it.
WriteTest(t) ==
    /\ kernel = t /\ pc[t] = "wtest"
    /\ \/ /\ used_space = PIPE_BUFFER_SIZE /\ open["r"]
          /\ pc' = [pc EXCEPT ![t] = "wsleep"]
          /\ kernel' = Nobody
          /\ UNCHANGED <<fileVars, buf, size, counter, ret>>
       \/ /\ ~ open["r"]
          /\ Leave(t, "w", -1, pc)
       \/ /\ used_space # PIPE_BUFFER_SIZE /\ open["r"]
          /\ pc' = [pc EXCEPT ![t] = "wcopy"]
          /\ UNCHANGED <<fileVars, kernel, buf, size, counter, ret>>
    /\ UNCHANGED ringVars

\* One byte into the buffer.
WriteByte(t) ==
    /\ kernel = t /\ pc[t] = "wcopy"
    /\ buf[t] # <<>> /\ used_space < PIPE_BUFFER_SIZE
    /\ BUFFER' = [BUFFER EXCEPT ![w_position] = Head(buf[t])]
    /\ w_position' = Advance(w_position)
    /\ used_space' = used_space + 1
    /\ buf' = [buf EXCEPT ![t] = Tail(@)]
    /\ counter' = [counter EXCEPT ![t] = @ + 1]
    /\ UNCHANGED <<r_position, fileVars, kernel, pc, size, ret>>

\* The end of pipe_write() and of sys_Write().
WriteReturn(t) ==
    /\ kernel = t /\ pc[t] = "wcopy"
    /\ ~ (buf[t] # <<>> /\ used_space < PIPE_BUFFER_SIZE)
    /\ Leave(t, "w", counter[t],
             kernel_broadcast(pc, "rsleep", "rwoken"))
    /\ UNCHANGED ringVars

-----------------------------------------------------------------------------

\* Faulty variant: an if in the place of the loop around kernel_wait().
ResumeUntested(t) ==
    /\ kernel = Nobody
    /\ \/ pc[t] = "rwoken" /\ pc' = [pc EXCEPT ![t] = "rcopy"]
       \/ pc[t] = "wwoken" /\ pc' = [pc EXCEPT ![t] = "wcopy"]
    /\ kernel' = t
    /\ UNCHANGED <<ringVars, fileVars, buf, size, counter, ret>>

\* The end of kernel_wait_wchan(): the kernel semaphore is taken again.
Resume(t) ==
    /\ kernel = Nobody
    /\ \/ pc[t] = "rwoken" /\ pc' = [pc EXCEPT ![t] = "rtest"]
       \/ pc[t] = "wwoken" /\ pc' = [pc EXCEPT ![t] = "wtest"]
    /\ kernel' = t
    /\ UNCHANGED <<ringVars, fileVars, buf, size, counter, ret>>

\* sys_Close() of one of the descriptors of an end, also by Exit().
Close(e) ==
    /\ kernel = Nobody
    /\ fids[e] > 0
    /\ fids' = [fids EXCEPT ![e] = @ - 1]
    /\ refcount' = [refcount EXCEPT ![e] = @ - 1]
    /\ CloseIfLast(e, pc)
    /\ UNCHANGED <<ringVars, kernel, buf, size, counter, ret>>

\* A further descriptor: sys_Dup2() onto a free one, or Exec().
Inherit(e) ==
    /\ kernel = Nobody
    /\ fids[e] \in 1 .. MaxFids - 1
    /\ fids' = [fids EXCEPT ![e] = @ + 1]
    /\ refcount' = [refcount EXCEPT ![e] = @ + 1]
    /\ UNCHANGED <<ringVars, open, frees, callVars>>

\* sys_Dup2() of a descriptor of e onto one of the other end.
Dup2(e) ==
    /\ kernel = Nobody
    /\ fids[e] \in 1 .. MaxFids - 1 /\ fids[Other(e)] > 0
    /\ fids' = [fids EXCEPT ![e] = @ + 1, ![Other(e)] = @ - 1]
    /\ refcount' = [refcount EXCEPT ![e] = @ + 1, ![Other(e)] = @ - 1]
    /\ CloseIfLast(Other(e), pc)
    /\ UNCHANGED <<ringVars, kernel, buf, size, counter, ret>>

InCall(t) == \/ ReadTest(t) \/ ReadByte(t) \/ ReadReturn(t)
             \/ WriteTest(t) \/ WriteByte(t) \/ WriteReturn(t)

Next ==
    \/ \E t \in Threads : \/ InCall(t) \/ Resume(t)
                          \/ \E n \in 0 .. MaxTransfer : Read(t, n)
                          \/ \E msg \in Messages : Write(t, msg)
    \/ \E e \in Ends : Close(e) \/ Inherit(e) \/ Dup2(e)

\* Both ends closed: nothing more happens to this pipe.
Gone == frees > 0 /\ UNCHANGED vars

Spec == Init /\ [][Next \/ Gone]_vars

\* A thread inside the kernel goes on; one that wants the kernel semaphore
\* gets it eventually if it becomes free again and again.
Fairness == \A t \in Threads : WF_vars(InCall(t)) /\ SF_vars(Resume(t))

FairSpec == Spec /\ Fairness

-----------------------------------------------------------------------------
(* Properties.                                                             *)

(* The fields of Pipe_CB and of the two FCBs are well typed: the positions  *)
(* stay inside BUFFER and used_space never exceeds PIPE_BUFFER_SIZE.        *)
TypeOK ==
    /\ BUFFER \in [Slots -> Bytes]
    /\ w_position \in Slots /\ r_position \in Slots
    /\ used_space \in 0 .. PIPE_BUFFER_SIZE
    /\ open \in [Ends -> BOOLEAN]
    /\ frees \in Nat
    /\ fids \in [Ends -> 0 .. MaxFids]
    /\ refcount \in [Ends -> Nat]
    /\ kernel \in Threads \cup {Nobody}
    /\ pc \in [Threads -> PCs]
    /\ buf \in [Threads -> Seq(Bytes)]
    /\ size \in [Threads -> 0 .. MaxTransfer]
    /\ counter \in [Threads -> Nat]
    /\ ret \in [Threads -> {"error", "eof", "done"}]

\* The threads whose call holds a reference to the FCB of an end.
Users(e) == {t \in Threads : IF e = "r"
                             THEN pc[t] \in {"rtest", "rsleep", "rwoken", "rcopy"}
                             ELSE pc[t] \in {"wtest", "wsleep", "wwoken", "wcopy"}}

\* The pipe is freed at most once, and then no descriptor and no call uses
\* it: the reference Read() and Write() take on the FCB protects a thread
\* that sleeps in the pipe from a Close() by another one.
NoUseAfterFree ==
    /\ frees <= 1
    /\ frees > 0 => \A e \in Ends : fids[e] = 0 /\ Users(e) = {}

\* No wakeup is lost: when the kernel is free, a reader sleeps only if there
\* is nothing to read and a writer could come, a writer only if there is no
\* room and a reader could come.
NoLostWakeup ==
    kernel = Nobody => \A t \in Threads :
       /\ pc[t] = "rsleep" => used_space = 0 /\ open["w"]
       /\ pc[t] = "wsleep" => used_space = PIPE_BUFFER_SIZE /\ open["r"]

\* The ring stays within its bounds, and alive as long as it is used, and no
\* thread sleeps in it for something that is there.
PipeInvariant == TypeOK /\ NoUseAfterFree /\ NoLostWakeup

\* When the write end is closed every Read() returns, and when the read end
\* is closed every Write() does (an end that is closed stays closed).
CallsReturn ==
    \A t \in Threads :
       /\ []<>(open["w"] \/ t \notin Users("r"))
       /\ []<>(open["r"] \/ t \notin Users("w"))

\* The abstract channel this pipe implements: the bytes between r_position
\* and w_position, and the outcome of each thread's last call.
Nth(i) == LET p == r_position + i - 1
          IN  BUFFER[IF p < PIPE_BUFFER_SIZE THEN p ELSE p - PIPE_BUFFER_SIZE]

Contents == [i \in 1 .. used_space |-> Nth(i)]

\* What the caller of Read() and Write() sees of its call.
Seen(t) == IF t \in Users("r") THEN "reading"
           ELSE IF t \in Users("w") THEN "writing"
           ELSE ret[t]

Ch == INSTANCE Channel
      WITH Clients <- Threads, Capacity <- PIPE_BUFFER_SIZE,
           queue <- Contents, readOpen <- open["r"], writeOpen <- open["w"],
           data <- buf, outcome <- [t \in Threads |-> Seen(t)]

\* The pipe implements the channel: bytes come out in the order they went
\* in, around the end of BUFFER and whoever the readers and writers are, and
\* a call reports the end of the data or an error only when it is so.
ImplementsChannel == Ch!ChannelSpec

=============================================================================
