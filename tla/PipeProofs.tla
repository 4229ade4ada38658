----------------------------- MODULE PipeProofs -----------------------------
(***************************************************************************)
(* Proofs about Pipe, for every set of threads, every size of the buffer   *)
(* and every bound on transfers and descriptors: the pipe is sound, and it *)
(* implements Channel.                                                     *)
(***************************************************************************)
EXTENDS Pipe, FiniteSetTheorems, SequenceTheorems, TLAPS

-----------------------------------------------------------------------------
(* The inductive invariant.                                                *)

\* The positions of a thread that holds the kernel semaphore.
Holding == {"rtest", "rcopy", "wtest", "wcopy"}

LockInv == \A t \in Threads : kernel = t <=> pc[t] \in Holding

\* An FCB counts the descriptors and the calls that use it, its end of the
\* pipe is open as long as somebody does, and the pipe is freed when nobody
\* uses either.
FileInv ==
    /\ \A e \in Ends : /\ refcount[e] = fids[e] + Cardinality(Users(e))
                       /\ open[e] <=> refcount[e] > 0
    /\ frees = IF open["r"] \/ open["w"] THEN 0 ELSE 1

\* Threads sleep for something that is not there, or that a thread inside the
\* kernel is about to tell them of.
SleepInv == \A t \in Threads :
    /\ pc[t] = "rsleep" =>
          open["w"] /\ (used_space = 0 \/ \E u \in Threads : pc[u] = "wcopy")
    /\ pc[t] = "wsleep" =>
          /\ open["r"]
          /\ used_space = PIPE_BUFFER_SIZE \/ \E u \in Threads : pc[u] = "rcopy"

\* The bytes of the ring lie between the two positions.
RingInv == w_position = IF r_position + used_space < PIPE_BUFFER_SIZE
                        THEN r_position + used_space
                        ELSE r_position + used_space - PIPE_BUFFER_SIZE

\* How far the calls have come.  A loop that copies has something to copy, or
\* the other end is closed.
CopyInv == \A t \in Threads :
    /\ pc[t] \notin {"rcopy", "wcopy"} => counter[t] = 0
    /\ t \in Users("w") => counter[t] + Len(buf[t]) = size[t]
    /\ pc[t] = "wcopy" => open["r"] /\ (counter[t] = 0 => used_space < PIPE_BUFFER_SIZE)
    /\ pc[t] = "rcopy" /\ counter[t] = 0 => used_space > 0 \/ ~ open["w"]

IInv == TypeOK /\ LockInv /\ FileInv /\ SleepInv /\ RingInv /\ CopyInv


-----------------------------------------------------------------------------
(* Facts used in several places.                                           *)

\* How many threads are in a call changes by the one that begins or ends one.
LEMMA Counting ==
    ASSUME NEW S \in SUBSET Threads, NEW t \in Threads
    PROVE  /\ Cardinality(S) \in Nat
           /\ Cardinality(S) = 0 <=> S = {}
           /\ t \notin S => Cardinality(S \cup {t}) = Cardinality(S) + 1
           /\ t \in S => Cardinality(S \ {t}) = Cardinality(S) - 1
           /\ t \in S => Cardinality(S) > 0
<1>1. IsFiniteSet(S)
  BY FS_Subset, PipeAssumption
<1>2. /\ Cardinality(S) \in Nat
      /\ Cardinality(S) = 0 <=> S = {}
  BY <1>1, FS_CardinalityType, FS_EmptySet
<1>3. t \notin S => Cardinality(S \cup {t}) = Cardinality(S) + 1
  BY <1>1, FS_AddElement
<1>4. t \in S => Cardinality(S \ {t}) = Cardinality(S) - 1
  BY <1>1, FS_RemoveElement
<1> QED  BY <1>2, <1>3, <1>4

\* The users of an end are finitely many.
LEMMA UsersFacts ==
    \A e \in Ends : /\ Users(e) \in SUBSET Threads
                    /\ Cardinality(Users(e)) \in Nat
                    /\ Cardinality(Users(e)) = 0 <=> Users(e) = {}
                    /\ \A t \in Users(e) : Cardinality(Users(e)) > 0
<1> SUFFICES ASSUME NEW e \in Ends
             PROVE  /\ Users(e) \in SUBSET Threads
                    /\ Cardinality(Users(e)) \in Nat
                    /\ Cardinality(Users(e)) = 0 <=> Users(e) = {}
                    /\ \A t \in Users(e) : Cardinality(Users(e)) > 0
  OBVIOUS
<1>1. Users(e) \in SUBSET Threads
  BY DEF Users
<1>2. IsFiniteSet(Users(e))
  BY <1>1, FS_Subset, PipeAssumption
<1> QED  BY <1>1, <1>2, FS_CardinalityType, FS_EmptySet

\* An end that a descriptor or a call uses is open.
LEMMA UsedIsOpen ==
    ASSUME IInv, NEW e \in Ends
    PROVE  /\ fids[e] > 0 => open[e] /\ refcount[e] > 0
           /\ Users(e) # {} => open[e] /\ refcount[e] > 0
           /\ ~ open[e] => fids[e] = 0 /\ Users(e) = {}
<1>1. /\ fids[e] \in Nat /\ Cardinality(Users(e)) \in Nat
      /\ Users(e) # {} => Cardinality(Users(e)) > 0
      /\ refcount[e] = fids[e] + Cardinality(Users(e))
      /\ open[e] <=> refcount[e] > 0
  BY UsersFacts, PipeAssumption DEF IInv, TypeOK, FileInv
<1> QED  BY <1>1

\* Whether wakeups change who uses an end: they do not.
LEMMA SameUsers ==
    ASSUME IInv, pc' \in [Threads -> PCs],
           \A u \in Threads : \/ pc'[u] = pc[u]
                              \/ pc[u] = "rsleep" /\ pc'[u] = "rwoken"
                              \/ pc[u] = "wsleep" /\ pc'[u] = "wwoken"
    PROVE  \A e \in Ends : Users(e)' = Users(e)
  BY DEF Users, Ends

\* FCB_decref(): what becomes of the file and of the pipe.
LEMMA DropFiles ==
    ASSUME IInv, NEW e \in Ends, NEW p, CloseIfLast(e, p),
           refcount[e] > 0, refcount'[e] = refcount[e] - 1,
           refcount'[Other(e)] > 0 <=> refcount[Other(e)] > 0,
           \A x \in Ends : refcount'[x] = fids'[x] + Cardinality(Users(x)')
    PROVE  /\ FileInv'
           /\ open' \in [Ends -> BOOLEAN] /\ frees' \in Nat
           /\ open'[Other(e)] = open[Other(e)]
           /\ ~ open'[e] => refcount[e] = 1
<1> USE DEF Ends, Other
<1>1. /\ open \in [Ends -> BOOLEAN] /\ frees \in Nat
      /\ refcount \in [Ends -> Nat] /\ Other(e) \in Ends
      /\ \A x \in Ends : open[x] <=> refcount[x] > 0
      /\ frees = IF open["r"] \/ open["w"] THEN 0 ELSE 1
  BY DEF IInv, TypeOK, FileInv
<1>2. CASE refcount[e] # 1
  BY <1>1, <1>2 DEF CloseIfLast, FileInv
<1>3. CASE refcount[e] = 1
  <2>1. /\ open' = [open EXCEPT ![e] = FALSE]
        /\ frees' = IF open[Other(e)] THEN frees ELSE frees + 1
        /\ open[e] /\ frees = 0
    BY <1>1, <1>3 DEF CloseIfLast, pipe_close
  <2>2. /\ open' \in [Ends -> BOOLEAN] /\ frees' \in Nat
        /\ ~ open'[e] /\ open'[Other(e)] = open[Other(e)]
    <3>1. e # Other(e)
      OBVIOUS
    <3>2. Other(e) \in Ends /\ open \in [Ends -> BOOLEAN] /\ frees \in Nat
      BY <1>1
    <3> HIDE DEF Ends, Other
    <3>3. open' \in [Ends -> BOOLEAN] /\ frees' \in Nat
      BY <2>1, <3>2
    <3>4. ~ open'[e] /\ open'[Other(e)] = open[Other(e)]
      BY <2>1, <3>1, <3>2
    <3> QED  BY <3>3, <3>4
  <2>3. frees' = IF open'["r"] \/ open'["w"] THEN 0 ELSE 1
    <3>1. CASE e = "r"
      BY <2>1, <2>2, <3>1
    <3>2. CASE e = "w"
      BY <2>1, <2>2, <3>2
    <3> QED  BY <3>1, <3>2
  <2>4. \A x \in Ends : open'[x] <=> refcount'[x] > 0
    <3>1. \A x \in Ends : x = e \/ x = Other(e)
      OBVIOUS
    <3> QED  BY <1>1, <1>3, <2>2, <3>1
  <2> QED  BY <1>3, <2>2, <2>3, <2>4 DEF FileInv
<1> QED  BY <1>2, <1>3

\* FCB_decref(): whom it wakes up.
LEMMA DropWakes ==
    ASSUME IInv, NEW e \in Ends, NEW p \in [Threads -> PCs], CloseIfLast(e, p),
           refcount[e] > 0
    PROVE  /\ pc' \in [Threads -> PCs]
           /\ \A u \in Threads : \/ pc'[u] = p[u]
                                 \/ p[u] = "rsleep" /\ pc'[u] = "rwoken"
                                 \/ p[u] = "wsleep" /\ pc'[u] = "wwoken"
           /\ refcount[e] = 1 /\ open[Other(e)] =>
                 \A u \in Threads : pc'[u] # (IF e = "r" THEN "wsleep" ELSE "rsleep")
<1> USE DEF PCs, Ends
<1>1. \/ pc' = p
      \/ pc' = kernel_broadcast(p, "rsleep", "rwoken")
      \/ pc' = kernel_broadcast(p, "wsleep", "wwoken")
  BY DEF CloseIfLast, pipe_close
<1>2. /\ kernel_broadcast(p, "rsleep", "rwoken") \in [Threads -> PCs]
      /\ kernel_broadcast(p, "wsleep", "wwoken") \in [Threads -> PCs]
  BY DEF kernel_broadcast
<1>3. /\ pc' \in [Threads -> PCs]
      /\ \A u \in Threads : \/ pc'[u] = p[u]
                            \/ p[u] = "rsleep" /\ pc'[u] = "rwoken"
                            \/ p[u] = "wsleep" /\ pc'[u] = "wwoken"
  BY <1>1, <1>2 DEF kernel_broadcast
<1>4. ASSUME refcount[e] = 1, open[Other(e)]
      PROVE  \A u \in Threads : pc'[u] # (IF e = "r" THEN "wsleep" ELSE "rsleep")
  BY <1>4 DEF CloseIfLast, pipe_close, kernel_broadcast
<1> QED  BY <1>3, <1>4

\* Nobody sleeps on the other side of an end that is closed.
LEMMA DropSleep ==
    ASSUME IInv, NEW e \in Ends, NEW p \in [Threads -> PCs], CloseIfLast(e, p),
           refcount[e] > 0,
           open'[Other(e)] = open[Other(e)], ~ open'[e] => refcount[e] = 1,
           \A u \in Threads : p[u] = pc[u] \/ p[u] \notin {"rsleep", "wsleep"}
    PROVE  \A u \in Threads : /\ pc'[u] = "rsleep" => open'["w"]
                              /\ pc'[u] = "wsleep" => open'["r"]
<1> SUFFICES ASSUME NEW u \in Threads, pc'[u] \in {"rsleep", "wsleep"}
             PROVE  /\ pc'[u] = "rsleep" => open'["w"]
                    /\ pc'[u] = "wsleep" => open'["r"]
  OBVIOUS
<1>1. pc'[u] = pc[u]
  BY DropWakes
<1>2. /\ pc[u] = "rsleep" => open["w"] /\ u \in Users("r")
      /\ pc[u] = "wsleep" => open["r"] /\ u \in Users("w")
  BY DEF IInv, SleepInv, Users
<1>3. /\ pc[u] = "rsleep" => open["r"]
      /\ pc[u] = "wsleep" => open["w"]
  BY <1>2, UsedIsOpen DEF Ends
<1>4. CASE open'[e]
  BY <1>1, <1>2, <1>4 DEF Ends, Other
<1>5. CASE ~ open'[e]
  <2>1. open[Other(e)] => \A v \in Threads :
                             pc'[v] # (IF e = "r" THEN "wsleep" ELSE "rsleep")
    BY <1>5, DropWakes
  <2> QED  BY <1>1, <1>2, <1>3, <2>1 DEF Ends, Other
<1> QED  BY <1>4, <1>5


-----------------------------------------------------------------------------
(* The steps of a thread preserve the invariant.                           *)

\* A call returns: its thread is no user any more.
LEMMA LeaveFacts ==
    ASSUME IInv, NEW t \in Threads, NEW e \in Ends, NEW result \in Int,
           NEW p \in [Threads -> PCs],
           pc[t] = (IF e = "r" THEN "rcopy" ELSE "wcopy") \/ (pc[t] = "wtest" /\ e = "w"),
           \A u \in Threads : \/ p[u] = pc[u]
                              \/ pc[u] = "rsleep" /\ p[u] = "rwoken"
                              \/ pc[u] = "wsleep" /\ p[u] = "wwoken",
           Leave(t, e, result, p), UNCHANGED ringVars
    PROVE  /\ pc' \in [Threads -> PCs] /\ pc'[t] = "idle"
           /\ \A u \in Threads : u # t =>
                 \/ pc'[u] = pc[u]
                 \/ pc[u] = "rsleep" /\ pc'[u] = "rwoken"
                 \/ pc[u] = "wsleep" /\ pc'[u] = "wwoken"
           /\ t \in Users(e) /\ refcount[e] > 0 /\ kernel = t
           /\ \A x \in Ends : Users(x)' = Users(x) \ {t}
           /\ FileInv' /\ open' \in [Ends -> BOOLEAN] /\ frees' \in Nat
           /\ open'[Other(e)] = open[Other(e)]
           /\ ~ open'[e] => refcount[e] = 1
<1> USE DEF IInv, TypeOK, Ends
<1> DEFINE q == [p EXCEPT ![t] = "idle"]
<1>1. /\ q \in [Threads -> PCs] /\ CloseIfLast(e, q)
      /\ refcount' = [refcount EXCEPT ![e] = @ - 1]
      /\ fids' = fids /\ kernel' = Nobody
      /\ buf' = [buf EXCEPT ![t] = <<>>]
      /\ counter' = [counter EXCEPT ![t] = 0]
      /\ size' = [size EXCEPT ![t] = 0]
      /\ ret' = [ret EXCEPT ![t] = Outcome(result, size[t])]
      /\ kernel = t
  BY DEF Leave, LockInv, Holding, PCs
<1>2. t \in Users(e) /\ refcount[e] > 0
  BY UsedIsOpen DEF Users
<1>q. /\ q[t] = "idle"
      /\ \A u \in Threads : u # t => q[u] = p[u]
  OBVIOUS
<1> HIDE DEF q
<1>3. /\ pc' \in [Threads -> PCs]
      /\ \A u \in Threads : \/ pc'[u] = q[u]
                            \/ q[u] = "rsleep" /\ pc'[u] = "rwoken"
                            \/ q[u] = "wsleep" /\ pc'[u] = "wwoken"
  BY ZenonT(40), <1>1, <1>2, DropWakes
<1>4. /\ pc'[t] = "idle"
      /\ \A u \in Threads : u # t =>
            \/ pc'[u] = pc[u]
            \/ pc[u] = "rsleep" /\ pc'[u] = "rwoken"
            \/ pc[u] = "wsleep" /\ pc'[u] = "wwoken"
  BY ZenonT(40), <1>3, <1>q
<1>5. Users(e)' = Users(e) \ {t} /\ Users(Other(e))' = Users(Other(e))
  <2>1. \A x \in Ends : Users(x)' = Users(x) \ {t}
    BY <1>4 DEF Users
  <2>2. Other(e) \in Ends /\ t \notin Users(Other(e))
    BY DEF Users, Other
  <2>3. Users(Other(e)) \ {t} = Users(Other(e))
    BY <2>2
  <2> HIDE DEF IInv, TypeOK, Ends
  <2>4. Users(e)' = Users(e) \ {t}
    BY <2>1
  <2>5. Users(Other(e))' = Users(Other(e)) \ {t}
    BY <2>1, <2>2
  <2> QED  BY <2>3, <2>4, <2>5
<1>6. \A x \in Ends : refcount'[x] = fids'[x] + Cardinality(Users(x)')
  <2>1. Cardinality(Users(e)') = Cardinality(Users(e)) - 1
    <3>1. Users(e) \in SUBSET Threads
      BY UsersFacts
    <3> HIDE DEF IInv, TypeOK, Ends
    <3>2. Cardinality(Users(e) \ {t}) = Cardinality(Users(e)) - 1
      BY <1>2, <3>1, Counting
    <3> QED  BY <1>5, <3>2
  <2>2. /\ refcount[e] = fids[e] + Cardinality(Users(e))
        /\ refcount[Other(e)] = fids[Other(e)] + Cardinality(Users(Other(e)))
        /\ Cardinality(Users(e)) \in Nat /\ fids[e] \in Nat
    BY UsersFacts, PipeAssumption DEF FileInv, Other
  <2>3. /\ refcount'[e] = refcount[e] - 1
        /\ refcount'[Other(e)] = refcount[Other(e)]
    BY <1>1 DEF Other
  <2>4. \A x \in Ends : x = e \/ x = Other(e)
    BY DEF Other
  <2> HIDE DEF IInv, TypeOK, Ends
  <2>5. refcount'[e] = fids'[e] + Cardinality(Users(e)')
    BY <1>1, <2>1, <2>2, <2>3
  <2>6. refcount'[Other(e)] = fids'[Other(e)] + Cardinality(Users(Other(e))')
    BY <1>1, <1>5, <2>2, <2>3
  <2> QED  BY <2>4, <2>5, <2>6
<1>7. /\ FileInv' /\ open' \in [Ends -> BOOLEAN] /\ frees' \in Nat
      /\ open'[Other(e)] = open[Other(e)]
      /\ ~ open'[e] => refcount[e] = 1
  <2>1. refcount'[e] = refcount[e] - 1 /\ refcount'[Other(e)] = refcount[Other(e)]
    BY <1>1 DEF Other
  <2> QED  BY <1>1, <1>2, <1>6, <2>1, DropFiles
<1>8. \A x \in Ends : Users(x)' = Users(x) \ {t}
  BY <1>4 DEF Users
<1> QED  BY <1>1, <1>2, <1>3, <1>4, <1>7, <1>8

\* A call returns.
LEMMA LeaveKeeps ==
    ASSUME IInv, NEW t \in Threads, NEW e \in Ends, NEW result \in Int,
           NEW p \in [Threads -> PCs],
           pc[t] = (IF e = "r" THEN "rcopy" ELSE "wcopy") \/ (pc[t] = "wtest" /\ e = "w"),
           \A u \in Threads : \/ p[u] = pc[u]
                              \/ pc[u] = "rsleep" /\ p[u] = "rwoken"
                              \/ pc[u] = "wsleep" /\ p[u] = "wwoken",
           \A u \in Threads : /\ p[u] = "rsleep" => used_space = 0
                              /\ p[u] = "wsleep" => used_space = PIPE_BUFFER_SIZE,
           Leave(t, e, result, p), UNCHANGED ringVars
    PROVE  IInv'
<1> USE DEF IInv, TypeOK, Ends
<1> DEFINE q == [p EXCEPT ![t] = "idle"]
<1>1. /\ q \in [Threads -> PCs] /\ CloseIfLast(e, q)
      /\ refcount' = [refcount EXCEPT ![e] = @ - 1]
      /\ fids' = fids /\ kernel' = Nobody
      /\ buf' = [buf EXCEPT ![t] = <<>>]
      /\ counter' = [counter EXCEPT ![t] = 0]
      /\ size' = [size EXCEPT ![t] = 0]
      /\ ret' = [ret EXCEPT ![t] = Outcome(result, size[t])]
      /\ kernel = t
  BY DEF Leave, LockInv, Holding, PCs
<1>2. t \in Users(e) /\ refcount[e] > 0
  BY UsedIsOpen DEF Users
<1>q. /\ q[t] = "idle"
      /\ \A u \in Threads : u # t => q[u] = p[u]
  OBVIOUS
<1> HIDE DEF q
<1>3. /\ pc' \in [Threads -> PCs]
      /\ \A u \in Threads : \/ pc'[u] = q[u]
                            \/ q[u] = "rsleep" /\ pc'[u] = "rwoken"
                            \/ q[u] = "wsleep" /\ pc'[u] = "wwoken"
  BY SMTT(30), <1>1, <1>2, DropWakes
<1>4. /\ pc'[t] = "idle"
      /\ \A u \in Threads : u # t =>
            \/ pc'[u] = pc[u]
            \/ pc[u] = "rsleep" /\ pc'[u] = "rwoken"
            \/ pc[u] = "wsleep" /\ pc'[u] = "wwoken"
  BY ZenonT(40), <1>3, <1>q
<1>7. /\ FileInv' /\ open' \in [Ends -> BOOLEAN] /\ frees' \in Nat
      /\ open'[Other(e)] = open[Other(e)]
      /\ ~ open'[e] => refcount[e] = 1
  <2> HIDE DEF IInv, TypeOK, Ends
  <2> QED  BY LeaveFacts
<1>8. TypeOK'
  <2>1. refcount' \in [Ends -> Nat]
    BY <1>1, <1>2
  <2>2. ret' \in [Threads -> {"error", "eof", "done"}]
    BY <1>1 DEF Outcome
  <2>3. buf' \in [Threads -> Seq(Bytes)]
    BY <1>1
  <2> QED  BY SMTT(30), <1>1, <1>3, <1>7, <2>1, <2>2, <2>3, PipeAssumption DEF ringVars
<1>9. LockInv'
  BY <1>1, <1>4, PipeAssumption DEF LockInv, Holding
<1>10. SleepInv'
  <2> SUFFICES ASSUME NEW u \in Threads, pc'[u] \in {"rsleep", "wsleep"}
               PROVE  /\ pc'[u] = "rsleep" => open'["w"] /\ used_space' = 0
                      /\ pc'[u] = "wsleep" => /\ open'["r"]
                                              /\ used_space' = PIPE_BUFFER_SIZE
    BY DEF SleepInv
  <2>1. pc'[u] = p[u]
    BY <1>3, <1>q
  <2>2. \A v \in Threads : q[v] = pc[v] \/ q[v] \notin {"rsleep", "wsleep"}
    BY <1>q
  <2> QED  BY <1>1, <1>2, <1>7, <2>1, <2>2, DropSleep DEF ringVars
<1>11. RingInv'
  BY DEF RingInv, ringVars
<1>12. CopyInv'
  <2> SUFFICES ASSUME NEW u \in Threads
               PROVE  /\ pc'[u] \notin {"rcopy", "wcopy"} => counter'[u] = 0
                      /\ u \in Users("w")' => counter'[u] + Len(buf'[u]) = size'[u]
                      /\ pc'[u] # "wcopy" /\ pc'[u] # "rcopy"
    BY DEF CopyInv
  <2>1. CASE u = t
    BY <1>1, <1>4, <2>1 DEF Users
  <2>2. CASE u # t
    <3>1. pc[u] \notin {"rcopy", "wcopy"} /\ (u \in Users("w")' => u \in Users("w"))
      BY <1>1, <1>4, <2>2 DEF LockInv, Holding, Users
    <3> QED  BY <1>1, <1>4, <2>2, <3>1 DEF CopyInv
  <2> QED  BY <2>1, <2>2
<1> QED  BY <1>7, <1>8, <1>9, <1>10, <1>11, <1>12


\* The files are left alone as long as the calls go on.
LEMMA SameFiles ==
    ASSUME IInv, UNCHANGED fileVars, \A e \in Ends : Users(e)' = Users(e)
    PROVE  FileInv'
<1>1. \A e \in Ends : refcount'[e] = fids'[e] + Cardinality(Users(e)')
  BY DEF IInv, FileInv, fileVars
<1>2. \A e \in Ends : open'[e] <=> refcount'[e] > 0
  BY DEF IInv, FileInv, fileVars
<1> QED  BY <1>1, <1>2 DEF IInv, FileInv, fileVars

\* A call begins: its thread becomes a user of an end.
LEMMA BeginFiles ==
    ASSUME IInv, NEW t \in Threads, NEW e \in Ends, fids[e] > 0, pc[t] = "idle",
           UNCHANGED <<open, frees, fids>>, refcount' = [refcount EXCEPT ![e] = @ + 1],
           pc' = [pc EXCEPT ![t] = IF e = "r" THEN "rtest" ELSE "wtest"]
    PROVE  FileInv' /\ refcount' \in [Ends -> Nat]
<1> USE DEF Ends
<1>1. /\ t \notin Users(e) /\ Users(e)' = Users(e) \cup {t}
      /\ \A x \in Ends : x # e => Users(x)' = Users(x)
  BY DEF Users, IInv, TypeOK
<1>2. Cardinality(Users(e)') = Cardinality(Users(e)) + 1
  <2>1. Users(e) \in SUBSET Threads
    BY UsersFacts
  <2> QED  BY <1>1, <2>1, Counting
<1>3. /\ refcount \in [Ends -> Nat]
      /\ \A x \in Ends : /\ refcount[x] = fids[x] + Cardinality(Users(x))
                         /\ Cardinality(Users(x)) \in Nat /\ fids[x] \in Nat
                         /\ open[x] <=> refcount[x] > 0
      /\ frees = IF open["r"] \/ open["w"] THEN 0 ELSE 1
      /\ open[e]
  BY UsersFacts, UsedIsOpen, PipeAssumption DEF IInv, TypeOK, FileInv
<1> HIDE DEF Ends
<1>4. ASSUME NEW x \in Ends
      PROVE  /\ refcount'[x] = fids'[x] + Cardinality(Users(x)')
             /\ open'[x] <=> refcount'[x] > 0
  <2>1. CASE x = e
    <3>1. refcount'[e] = fids'[e] + Cardinality(Users(e)') /\ refcount'[e] > 0
      <4>1. refcount'[e] = refcount[e] + 1 /\ fids'[e] = fids[e]
        BY <1>3
      <4>2. /\ refcount[e] = fids[e] + Cardinality(Users(e))
            /\ Cardinality(Users(e)) \in Nat /\ fids[e] \in Nat
        BY <1>3
      <4> QED  BY <1>2, <4>1, <4>2
    <3> QED  BY <1>3, <2>1, <3>1
  <2>2. CASE x # e
    <3>1. Cardinality(Users(x)') = Cardinality(Users(x)) /\ refcount'[x] = refcount[x]
      BY <1>1, <1>3, <2>2
    <3> QED  BY <1>3, <3>1
  <2> QED  BY <2>1, <2>2
<1> QED  BY <1>3, <1>4 DEF FileInv

\* A call of pipe_read().
LEMMA ReadKeeps ==
    ASSUME IInv, NEW t \in Threads, NEW n \in 0 .. MaxTransfer, Read(t, n)
    PROVE  IInv'
<1> USE PipeAssumption DEF IInv, TypeOK, PCs, Ends, ringVars, Read
<1>1. FileInv' /\ refcount' \in [Ends -> Nat]
  <2>1. pc' = [pc EXCEPT ![t] = IF "r" = "r" THEN "rtest" ELSE "wtest"]
    OBVIOUS
  <2> HIDE DEF TypeOK
  <2> QED  BY <2>1, BeginFiles
<1>2. TypeOK' /\ LockInv' /\ RingInv'
  BY <1>1 DEF LockInv, Holding, RingInv
<1>3. SleepInv'
  BY DEF SleepInv
<1>4. CopyInv'
  BY DEF CopyInv, Users
<1> QED  BY <1>1, <1>2, <1>3, <1>4

\* The test of pipe_read(): sleep, end of file, or go on.
LEMMA ReadTestKeeps == ASSUME IInv, NEW t \in Threads, ReadTest(t) PROVE IInv'
<1> USE PipeAssumption DEF IInv, TypeOK, PCs, Ends, ringVars, ReadTest
<1>1. FileInv'
  <2>1. \A e \in Ends : Users(e)' = Users(e)
    BY DEF Users
  <2> HIDE DEF TypeOK
  <2> QED  BY <2>1, SameFiles
<1>2. TypeOK' /\ LockInv' /\ RingInv'
  BY ZenonT(40) DEF LockInv, Holding, RingInv, fileVars
<1>3. SleepInv'
  BY DEF SleepInv, fileVars
<1>4. CopyInv'
  BY DEF CopyInv, Users, fileVars
<1> QED  BY <1>1, <1>2, <1>3, <1>4

\* pipe_read() takes a byte.
LEMMA ReadByteKeeps == ASSUME IInv, NEW t \in Threads, ReadByte(t) PROVE IInv'
<1> USE PipeAssumption DEF IInv, TypeOK, PCs, Ends, ReadByte
<1>1. FileInv'
  <2>1. \A e \in Ends : Users(e)' = Users(e)
    BY DEF Users
  <2> HIDE DEF TypeOK
  <2> QED  BY <2>1, SameFiles
<1>2. TypeOK' /\ LockInv' /\ RingInv'
  <2>1. BUFFER[r_position] \in Bytes
    BY DEF Slots
  <2>2. buf' \in [Threads -> Seq(Bytes)]
    BY <2>1
  <2>3. r_position' \in Slots /\ used_space' \in 0 .. PIPE_BUFFER_SIZE
    BY DEF Slots, Advance
  <2>4. RingInv'
    BY DEF RingInv, Slots, Advance
  <2>5. counter' \in [Threads -> Nat]
    OBVIOUS
  <2>6. LockInv'
    BY DEF LockInv
  <2> QED  BY <2>2, <2>3, <2>4, <2>5, <2>6 DEF fileVars
<1>3. SleepInv'
  <2> SUFFICES ASSUME NEW u \in Threads
               PROVE  /\ pc[u] = "rsleep" =>
                            open["w"] /\ (used_space' = 0 \/ pc[t] = "wcopy")
                      /\ pc[u] = "wsleep" => open["r"]
    BY DEF SleepInv, fileVars
  <2> QED  BY DEF SleepInv, LockInv, Holding
<1>4. CopyInv'
  <2>1. ASSUME NEW u \in Threads, u # t
        PROVE  /\ counter'[u] = counter[u] /\ buf'[u] = buf[u]
               /\ pc[u] \notin {"rcopy", "wcopy"}
    BY <2>1 DEF LockInv, Holding
  <2>2. /\ counter'[t] > 0 /\ pc'[t] = "rcopy"
    OBVIOUS
  <2> QED  BY SMTT(30), <2>1, <2>2 DEF CopyInv, Users, fileVars
<1> QED  BY <1>1, <1>2, <1>3, <1>4

\* pipe_read() returns.
LEMMA ReadReturnKeeps == ASSUME IInv, NEW t \in Threads, ReadReturn(t) PROVE IInv'
<1> DEFINE p == kernel_broadcast(pc, "wsleep", "wwoken")
<1>1. /\ p \in [Threads -> PCs]
      /\ \A u \in Threads : p[u] # "wsleep" /\ \/ p[u] = pc[u]
                                               \/ pc[u] = "wsleep" /\ p[u] = "wwoken"
  BY DEF IInv, TypeOK, kernel_broadcast, PCs
<1>2. \A u \in Threads : p[u] = "rsleep" => used_space = 0
  BY <1>1 DEF IInv, SleepInv, LockInv, Holding, ReadReturn
<1>3. /\ Leave(t, "r", counter[t], p) /\ counter[t] \in Int /\ pc[t] = "rcopy"
      /\ UNCHANGED ringVars
  BY DEF ReadReturn, IInv, TypeOK
<1> HIDE DEF p
<1> QED  BY <1>1, <1>2, <1>3, LeaveKeeps DEF Ends

\* pipe_write() returns.
LEMMA WriteReturnKeeps == ASSUME IInv, NEW t \in Threads, WriteReturn(t) PROVE IInv'
<1> DEFINE p == kernel_broadcast(pc, "rsleep", "rwoken")
<1>1. /\ p \in [Threads -> PCs]
      /\ \A u \in Threads : p[u] # "rsleep" /\ \/ p[u] = pc[u]
                                               \/ pc[u] = "rsleep" /\ p[u] = "rwoken"
  BY DEF IInv, TypeOK, kernel_broadcast, PCs
<1>2. \A u \in Threads : p[u] = "wsleep" => used_space = PIPE_BUFFER_SIZE
  BY <1>1 DEF IInv, SleepInv, LockInv, Holding, WriteReturn
<1>3. /\ Leave(t, "w", counter[t], p) /\ counter[t] \in Int /\ pc[t] = "wcopy"
      /\ UNCHANGED ringVars
  BY DEF WriteReturn, IInv, TypeOK
<1> HIDE DEF p
<1> QED  BY <1>1, <1>2, <1>3, LeaveKeeps DEF Ends


\* A call of pipe_write().
LEMMA WriteKeeps == ASSUME IInv, NEW t \in Threads, NEW msg \in Messages, Write(t, msg)
                    PROVE  IInv'
<1> USE PipeAssumption DEF IInv, TypeOK, PCs, Ends, ringVars, Write
<1>1. CASE ~ (open["r"] /\ open["w"])
  <2>1. FileInv'
    <3>1. \A e \in Ends : Users(e)' = Users(e)
      BY <1>1 DEF Users
    <3>2. UNCHANGED fileVars
      BY <1>1 DEF fileVars
    <3> HIDE DEF TypeOK
    <3> QED  BY <3>1, <3>2, SameFiles
  <2>2. TypeOK' /\ LockInv' /\ RingInv' /\ SleepInv' /\ CopyInv'
    BY <1>1 DEF LockInv, Holding, RingInv, SleepInv, CopyInv, Users
  <2> QED  BY <2>1, <2>2
<1>2. CASE open["r"] /\ open["w"]
  <2>1. FileInv' /\ refcount' \in [Ends -> Nat]
    <3>1. pc' = [pc EXCEPT ![t] = IF "w" = "r" THEN "rtest" ELSE "wtest"]
      BY <1>2
    <3> HIDE DEF TypeOK
    <3> QED  BY <1>2, <3>1, BeginFiles
  <2>2. msg \in Seq(Bytes) /\ Len(msg) \in 0 .. MaxTransfer
    <3>1. PICK n \in 0 .. MaxTransfer : msg \in [1 .. n -> Bytes]
      BY DEF Messages
    <3>2. n \in Nat
      BY <3>1
    <3> QED  BY <3>1, <3>2
  <2>3. TypeOK'
    <3>1. /\ buf' \in [Threads -> Seq(Bytes)]
          /\ size' \in [Threads -> 0 .. MaxTransfer]
      <4>1. /\ buf' = [buf EXCEPT ![t] = msg]
            /\ size' = [size EXCEPT ![t] = Len(msg)]
            /\ buf \in [Threads -> Seq(Bytes)]
            /\ size \in [Threads -> 0 .. MaxTransfer]
        BY <1>2
      <4> HIDE DEF IInv, TypeOK, Write
      <4> QED  BY <2>2, <4>1
    <3>2. pc' \in [Threads -> PCs] /\ kernel' \in Threads \cup {Nobody}
      BY <1>2
    <3>3. UNCHANGED <<ringVars, open, frees, fids, counter, ret>>
      BY <1>2
    <3> QED  BY <2>1, <3>1, <3>2, <3>3
  <2>6. LockInv' /\ RingInv'
    BY SMTT(30), <1>2 DEF LockInv, Holding, RingInv
  <2>4. SleepInv'
    BY SMTT(30), <1>2 DEF SleepInv
  <2>5. CopyInv'
    BY SMTT(30), <1>2, <2>2 DEF CopyInv, Users
  <2> QED  BY <2>1, <2>3, <2>4, <2>5, <2>6
<1> QED  BY <1>1, <1>2

\* The test of pipe_write(): sleep, fail, or go on.
LEMMA WriteTestKeeps == ASSUME IInv, NEW t \in Threads, WriteTest(t) PROVE IInv'
<1>1. CASE Leave(t, "w", -1, pc) /\ ~ open["r"]
  <2>1. pc \in [Threads -> PCs] /\ pc[t] = "wtest" /\ -1 \in Int /\ UNCHANGED ringVars
    BY DEF IInv, TypeOK, WriteTest
  <2>2. \A u \in Threads : pc[u] # "wcopy" /\ pc[u] # "rcopy"
    BY DEF IInv, LockInv, Holding, WriteTest
  <2>3. \A u \in Threads : /\ pc[u] = "rsleep" => used_space = 0
                           /\ pc[u] = "wsleep" => used_space = PIPE_BUFFER_SIZE
    BY <2>2 DEF IInv, SleepInv
  <2> QED  BY <1>1, <2>1, <2>3, LeaveKeeps DEF Ends
<1>2. CASE ~ (Leave(t, "w", -1, pc) /\ ~ open["r"])
  <2> USE PipeAssumption DEF IInv, TypeOK, PCs, Ends, ringVars, WriteTest
  <2>1. FileInv'
    <3>1. \A e \in Ends : Users(e)' = Users(e)
      BY <1>2 DEF Users
    <3>2. UNCHANGED fileVars
      BY <1>2
    <3> HIDE DEF TypeOK
    <3> QED  BY <3>1, <3>2, SameFiles
  <2>2. TypeOK' /\ LockInv' /\ RingInv'
    BY ZenonT(40), <1>2 DEF LockInv, Holding, RingInv, fileVars
  <2>3. SleepInv'
    BY <1>2 DEF SleepInv, fileVars
  <2>4. CopyInv'
    BY <1>2 DEF CopyInv, Users, fileVars
  <2> QED  BY <2>1, <2>2, <2>3, <2>4
<1> QED  BY <1>1, <1>2

\* pipe_write() puts a byte.
LEMMA WriteByteKeeps == ASSUME IInv, NEW t \in Threads, WriteByte(t) PROVE IInv'
<1> USE PipeAssumption DEF IInv, TypeOK, PCs, Ends, WriteByte
<1>1. FileInv'
  <2>1. \A e \in Ends : Users(e)' = Users(e)
    BY DEF Users
  <2> HIDE DEF TypeOK
  <2> QED  BY <2>1, SameFiles
<1>0. /\ Head(buf[t]) \in Bytes /\ Tail(buf[t]) \in Seq(Bytes)
      /\ Len(Tail(buf[t])) = Len(buf[t]) - 1 /\ Len(buf[t]) \in Nat
  OBVIOUS
<1>2. TypeOK' /\ LockInv' /\ RingInv'
  <2>1. BUFFER' \in [Slots -> Bytes]
    BY <1>0
  <2>2. buf' \in [Threads -> Seq(Bytes)]
    BY <1>0
  <2>3. w_position' \in Slots /\ used_space' \in 0 .. PIPE_BUFFER_SIZE
    BY DEF Slots, Advance
  <2>4. RingInv'
    BY DEF RingInv, Slots, Advance
  <2>5. counter' \in [Threads -> Nat]
    OBVIOUS
  <2>6. LockInv'
    BY DEF LockInv
  <2> QED  BY <2>1, <2>2, <2>3, <2>4, <2>5, <2>6 DEF fileVars
<1>3. SleepInv'
  <2> SUFFICES ASSUME NEW u \in Threads
               PROVE  /\ pc[u] = "rsleep" => open["w"]
                      /\ pc[u] = "wsleep" => FALSE
    BY DEF SleepInv, fileVars
  <2> QED  BY SMTT(30) DEF SleepInv, LockInv, Holding
<1>4. CopyInv'
  <2>1. ASSUME NEW u \in Threads, u # t
        PROVE  /\ counter'[u] = counter[u] /\ buf'[u] = buf[u]
               /\ pc[u] \notin {"rcopy", "wcopy"}
    BY <2>1 DEF LockInv, Holding
  <2>2. counter'[t] > 0 /\ pc'[t] = "wcopy" /\ open'["r"]
    BY DEF CopyInv, fileVars
  <2>3. counter'[t] + Len(buf'[t]) = size'[t]
    <3>1. counter[t] + Len(buf[t]) = size[t]
      BY DEF CopyInv, Users
    <3>2. counter'[t] = counter[t] + 1 /\ buf'[t] = Tail(buf[t]) /\ size' = size
      OBVIOUS
    <3>3. counter[t] \in Nat
      OBVIOUS
    <3> HIDE DEF IInv, TypeOK, WriteByte
    <3>4. Len(buf'[t]) = Len(buf[t]) - 1 /\ Len(buf[t]) \in Nat
      BY <1>0, <3>2
    <3>5. size'[t] = size[t]
      BY <3>2
    <3> QED  BY <3>1, <3>2, <3>3, <3>4, <3>5
  <2>4. \A u \in Threads : u \in Users("w")' <=> u \in Users("w")
    BY DEF Users
  <2> SUFFICES ASSUME NEW u \in Threads
               PROVE  /\ pc'[u] \notin {"rcopy", "wcopy"} => counter'[u] = 0
                      /\ u \in Users("w")' => counter'[u] + Len(buf'[u]) = size'[u]
                      /\ pc'[u] = "wcopy" => /\ open'["r"]
                                             /\ counter'[u] = 0 => used_space' < PIPE_BUFFER_SIZE
                      /\ pc'[u] = "rcopy" /\ counter'[u] = 0 => used_space' > 0 \/ ~ open'["w"]
    BY DEF CopyInv
  <2>5. CASE u = t
    BY <2>2, <2>3, <2>5
  <2>6. CASE u # t
    BY <2>1, <2>4, <2>6 DEF CopyInv
  <2> QED  BY <2>5, <2>6
<1> QED  BY <1>1, <1>2, <1>3, <1>4

\* A thread that was woken goes on.
LEMMA ResumeKeeps == ASSUME IInv, NEW t \in Threads, Resume(t) PROVE IInv'
<1> USE PipeAssumption DEF IInv, TypeOK, PCs, Ends, ringVars, Resume
<1>1. FileInv'
  <2>1. \A e \in Ends : Users(e)' = Users(e)
    BY DEF Users
  <2> HIDE DEF TypeOK
  <2> QED  BY <2>1, SameFiles
<1>2. TypeOK' /\ LockInv' /\ RingInv'
  BY DEF LockInv, Holding, RingInv, fileVars
<1>3. SleepInv'
  BY DEF SleepInv, fileVars
<1>4. CopyInv'
  BY DEF CopyInv, Users, fileVars
<1> QED  BY <1>1, <1>2, <1>3, <1>4


\* A descriptor of e goes away, by sys_Close() or sys_Dup2().
LEMMA ReferenceGone ==
    ASSUME IInv, NEW e \in Ends, kernel = Nobody, fids[e] > 0,
           fids' \in [Ends -> 0 .. MaxFids], refcount' \in [Ends -> Int],
           fids'[e] = fids[e] - 1, refcount'[e] = refcount[e] - 1,
           refcount'[Other(e)] - refcount[Other(e)] = fids'[Other(e)] - fids[Other(e)],
           refcount'[Other(e)] > 0 <=> refcount[Other(e)] > 0,
           CloseIfLast(e, pc),
           UNCHANGED <<ringVars, kernel, buf, size, counter, ret>>
    PROVE  IInv'
<1>1. refcount[e] > 0 /\ pc \in [Threads -> PCs]
  BY UsedIsOpen DEF IInv, TypeOK
<1>2. /\ pc' \in [Threads -> PCs]
      /\ \A u \in Threads : \/ pc'[u] = pc[u]
                            \/ pc[u] = "rsleep" /\ pc'[u] = "rwoken"
                            \/ pc[u] = "wsleep" /\ pc'[u] = "wwoken"
  BY <1>1, DropWakes
<1>3. \A x \in Ends : Users(x)' = Users(x)
  BY <1>2, SameUsers
<1>4. \A x \in Ends : refcount'[x] = fids'[x] + Cardinality(Users(x)')
  <2>1. \A x \in Ends : /\ refcount[x] = fids[x] + Cardinality(Users(x))
                        /\ refcount[x] \in Int /\ refcount'[x] \in Int
                        /\ fids[x] \in Int /\ fids'[x] \in Int
                        /\ Cardinality(Users(x)') = Cardinality(Users(x))
                        /\ Cardinality(Users(x)) \in Int
    BY <1>3, UsersFacts, PipeAssumption DEF IInv, TypeOK, FileInv
  <2>2. Other(e) \in Ends /\ \A x \in Ends : x = e \/ x = Other(e)
    BY DEF Ends, Other
  <2>3. refcount'[e] = fids'[e] + Cardinality(Users(e)')
    <3>1. /\ refcount[e] = fids[e] + Cardinality(Users(e)) /\ fids[e] \in Int
          /\ Cardinality(Users(e)') = Cardinality(Users(e))
          /\ Cardinality(Users(e)) \in Int
      BY <2>1
    <3> QED  BY <3>1
  <2>4. refcount'[Other(e)] = fids'[Other(e)] + Cardinality(Users(Other(e))')
    <3> DEFINE o == Other(e)
    <3>1. /\ refcount[o] = fids[o] + Cardinality(Users(o))
          /\ refcount[o] \in Int /\ refcount'[o] \in Int
          /\ fids[o] \in Int /\ fids'[o] \in Int
          /\ Cardinality(Users(o)') = Cardinality(Users(o))
          /\ Cardinality(Users(o)) \in Int
      BY <2>1, <2>2
    <3>2. refcount'[o] - refcount[o] = fids'[o] - fids[o]
      OBVIOUS
    <3> HIDE DEF o
    <3>3. refcount'[o] = fids'[o] + Cardinality(Users(o)')
      BY <3>1, <3>2
    <3> QED  BY <3>3 DEF o
  <2> QED  BY <2>2, <2>3, <2>4
<1>5. /\ FileInv' /\ open' \in [Ends -> BOOLEAN] /\ frees' \in Nat
      /\ open'[Other(e)] = open[Other(e)]
      /\ ~ open'[e] => refcount[e] = 1
  BY <1>1, <1>4, DropFiles
<1>6. refcount' \in [Ends -> Nat]
  <2>1. \A x \in Ends : refcount'[x] \in Nat
    BY <1>3, <1>4, UsersFacts, PipeAssumption
  <2> QED  BY <2>1
<1>7. TypeOK'
  BY <1>2, <1>5, <1>6 DEF IInv, TypeOK, ringVars
<1>8. \A u \in Threads : pc[u] \notin Holding /\ pc'[u] \notin Holding
  BY <1>2, PipeAssumption DEF IInv, LockInv, Holding
<1>9. LockInv' /\ RingInv'
  BY <1>8, PipeAssumption DEF IInv, LockInv, RingInv, ringVars
<1>10. SleepInv'
  <2>1. \A u \in Threads : pc'[u] \in {"rsleep", "wsleep"} => pc'[u] = pc[u]
    BY <1>2
  <2>2. \A u \in Threads : /\ pc'[u] = "rsleep" => open'["w"]
                           /\ pc'[u] = "wsleep" => open'["r"]
    BY <1>1, <1>5, DropSleep
  <2> QED  BY <1>8, <2>1, <2>2 DEF IInv, SleepInv, Holding, ringVars
<1>11. CopyInv'
  BY <1>3, <1>8 DEF IInv, CopyInv, Holding, Ends, ringVars
<1> QED  BY <1>5, <1>7, <1>9, <1>10, <1>11 DEF IInv

\* Close() of a descriptor of the pipe.
LEMMA CloseKeeps == ASSUME IInv, NEW e \in Ends, Close(e) PROVE IInv'
<1> USE PipeAssumption DEF IInv, TypeOK, Close
<1>1. Other(e) \in Ends /\ Other(e) # e
  BY DEF Ends, Other
<1>2. /\ fids' \in [Ends -> 0 .. MaxFids] /\ refcount' \in [Ends -> Int]
      /\ fids'[e] = fids[e] - 1 /\ refcount'[e] = refcount[e] - 1
      /\ fids'[Other(e)] = fids[Other(e)] /\ refcount'[Other(e)] = refcount[Other(e)]
      /\ fids[Other(e)] \in Int /\ refcount[Other(e)] \in Int
  BY <1>1
<1> HIDE DEF TypeOK
<1> QED  BY <1>2, ReferenceGone

\* Dup2() of a descriptor of the pipe.
LEMMA Dup2Keeps == ASSUME IInv, NEW e \in Ends, Dup2(e) PROVE IInv'
<1> USE PipeAssumption DEF IInv, TypeOK, Dup2
<1> DEFINE o == Other(e)
<1>1. o \in Ends /\ o # e /\ Other(o) = e
  BY DEF Ends, Other
<1>2. refcount[e] > 0
  BY UsedIsOpen
<1> HIDE DEF o
<1>3. /\ fids' = [fids EXCEPT ![e] = @ + 1, ![o] = @ - 1]
      /\ refcount' = [refcount EXCEPT ![e] = @ + 1, ![o] = @ - 1]
      /\ fids[o] > 0 /\ CloseIfLast(o, pc)
  BY DEF o
<1>4. /\ fids' \in [Ends -> 0 .. MaxFids] /\ refcount' \in [Ends -> Int]
      /\ fids'[o] = fids[o] - 1 /\ refcount'[o] = refcount[o] - 1
      /\ fids'[e] = fids[e] + 1 /\ refcount'[e] = refcount[e] + 1
      /\ fids[e] \in Int /\ refcount[e] \in Int
  <2>1. /\ fids \in [Ends -> 0 .. MaxFids] /\ refcount \in [Ends -> Nat]
        /\ fids[e] < MaxFids
    OBVIOUS
  <2> HIDE DEF IInv, TypeOK, Dup2
  <2>2. /\ fids'[o] = fids[o] - 1 /\ refcount'[o] = refcount[o] - 1
        /\ fids'[e] = fids[e] + 1 /\ refcount'[e] = refcount[e] + 1
        /\ fids[e] \in 0 .. MaxFids /\ refcount[e] \in Nat
        /\ fids[o] \in 0 .. MaxFids /\ refcount[o] \in Nat
    BY <1>1, <1>3, <2>1
  <2>3. /\ fids' \in [Ends -> 0 .. MaxFids]
        /\ refcount' \in [Ends -> Int]
    BY <1>1, <1>3, <2>1
  <2> QED  BY <2>2, <2>3
<1>5. /\ refcount'[Other(o)] > 0 <=> refcount[Other(o)] > 0
      /\ refcount'[Other(o)] - refcount[Other(o)] = fids'[Other(o)] - fids[Other(o)]
  <2> HIDE DEF IInv, TypeOK, Dup2
  <2>1. refcount'[e] > 0 /\ refcount'[e] - refcount[e] = fids'[e] - fids[e]
    BY <1>2, <1>4
  <2> QED  BY <1>1, <1>2, <2>1
<1> HIDE DEF TypeOK
<1> QED  BY <1>1, <1>3, <1>4, <1>5, ReferenceGone

\* A child inherits a descriptor of the pipe.
LEMMA InheritKeeps == ASSUME IInv, NEW e \in Ends, Inherit(e) PROVE IInv'
<1> USE PipeAssumption DEF IInv, TypeOK, Inherit, ringVars, callVars
<1>1. \A x \in Ends : Users(x)' = Users(x)
  BY DEF Users
<1>2. open[e] /\ refcount[e] > 0
  BY UsedIsOpen
<1>3. FileInv'
  <2>1. ASSUME NEW x \in Ends
        PROVE  /\ refcount'[x] = fids'[x] + Cardinality(Users(x)')
               /\ open'[x] <=> refcount'[x] > 0
    <3>1. /\ refcount[x] = fids[x] + Cardinality(Users(x))
          /\ Cardinality(Users(x)) \in Int /\ fids[x] \in Int
          /\ open[x] <=> refcount[x] > 0
          /\ Cardinality(Users(x)') = Cardinality(Users(x))
      BY <1>1, UsersFacts DEF FileInv
    <3>2. CASE x = e
      <4>1. refcount'[x] = refcount[x] + 1 /\ fids'[x] = fids[x] + 1 /\ open'[x] /\ open[x]
        BY <1>2, <3>2
      <4> QED  BY <3>1, <4>1
    <3>3. CASE x # e
      <4>1. refcount'[x] = refcount[x] /\ fids'[x] = fids[x] /\ open'[x] = open[x]
        BY <3>3
      <4> QED  BY <3>1, <4>1
    <3> QED  BY <3>2, <3>3
  <2> QED  BY <2>1 DEF FileInv
<1>4. TypeOK' /\ LockInv' /\ RingInv'
  BY DEF LockInv, RingInv
<1>5. SleepInv' /\ CopyInv'
  BY <1>1 DEF SleepInv, CopyInv, Users
<1> QED  BY <1>3, <1>4, <1>5


\* Nothing happens.
LEMMA StutterKeeps == ASSUME IInv, UNCHANGED vars PROVE IInv'
<1> USE DEF vars, ringVars, fileVars, callVars
<1>1. TypeOK' /\ LockInv' /\ RingInv' /\ SleepInv'
  BY DEF IInv, TypeOK, LockInv, RingInv, SleepInv
<1>2. \A e \in Ends : Users(e)' = Users(e)
  BY DEF Users
<1>3. FileInv'
  BY <1>2, SameFiles
<1>4. CopyInv'
  BY <1>2 DEF IInv, CopyInv, Ends
<1> QED  BY <1>1, <1>3, <1>4 DEF IInv

-----------------------------------------------------------------------------
(* The invariant holds.                                                    *)

\* The invariant holds for a new pipe.
LEMMA InitEstablishesIInv == ASSUME Init PROVE IInv
<1> USE PipeAssumption DEF Init, Ends
<1>1. \A e \in Ends : Users(e) = {}
  BY DEF Users
<1>2. TypeOK
  <2>1. <<>> \in Seq(Bytes) /\ 0 \in Slots
    BY DEF Slots
  <2> QED  BY <2>1 DEF TypeOK, PCs
<1>3. FileInv
  <2>1. \A e \in Ends : Cardinality(Users(e)) = 0
    BY <1>1, FS_EmptySet
  <2> HIDE DEF Ends
  <2>2. \A e \in Ends : refcount[e] = 1 /\ fids[e] = 1 /\ open[e]
    OBVIOUS
  <2>3. frees = IF open["r"] \/ open["w"] THEN 0 ELSE 1
    BY <2>2 DEF Ends
  <2> QED  BY <2>1, <2>2, <2>3 DEF FileInv
<1>4. LockInv /\ SleepInv /\ RingInv /\ CopyInv
  BY <1>1 DEF LockInv, Holding, SleepInv, RingInv, CopyInv
<1> QED  BY <1>2, <1>3, <1>4 DEF IInv

\* Every step keeps the invariant.
LEMMA NextPreserves == ASSUME IInv, [Next \/ Gone]_vars PROVE IInv'
<1>1. CASE Gone \/ UNCHANGED vars
  BY <1>1, StutterKeeps DEF Gone
<1>2. ASSUME NEW t \in Threads, InCall(t) \/ Resume(t) PROVE IInv'
  BY <1>2, ReadTestKeeps, ReadByteKeeps, ReadReturnKeeps, WriteTestKeeps,
     WriteByteKeeps, WriteReturnKeeps, ResumeKeeps DEF InCall
<1>3. ASSUME NEW t \in Threads, NEW n \in 0 .. MaxTransfer, Read(t, n) PROVE IInv'
  BY <1>3, ReadKeeps
<1>4. ASSUME NEW t \in Threads, NEW msg \in Messages, Write(t, msg) PROVE IInv'
  BY <1>4, WriteKeeps
<1>5. ASSUME NEW e \in Ends, Close(e) \/ Inherit(e) \/ Dup2(e) PROVE IInv'
  BY <1>5, CloseKeeps, InheritKeeps, Dup2Keeps
<1> QED  BY <1>1, <1>2, <1>3, <1>4, <1>5 DEF Next

\* The inductive invariant of a pipe.
THEOREM InductiveInvariant == Spec => []IInv
  BY InitEstablishesIInv, NextPreserves, PTL DEF Spec

\* The ring of kernel_pipe.c stays within its bounds; the pipe is freed once,
\* and only when no descriptor and no call uses it; no thread sleeps in it for
\* something that is there.
THEOREM PipeSound == Spec => []PipeInvariant
<1>1. IInv => PipeInvariant
  <2> SUFFICES ASSUME IInv PROVE PipeInvariant
    OBVIOUS
  <2>1. NoUseAfterFree
    BY UsedIsOpen DEF IInv, FileInv, NoUseAfterFree, Ends
  <2>2. NoLostWakeup
    BY PipeAssumption DEF IInv, SleepInv, LockInv, Holding, NoLostWakeup
  <2> QED  BY <2>1, <2>2 DEF IInv, PipeInvariant
<1> QED  BY <1>1, InductiveInvariant, PTL

-----------------------------------------------------------------------------
(* The pipe implements a channel.                                          *)

\* The bytes in the ring, as a sequence.
LEMMA ContentsFacts ==
    ASSUME IInv
    PROVE  /\ Contents \in Seq(Bytes) /\ Len(Contents) = used_space
           /\ used_space \in 0 .. PIPE_BUFFER_SIZE
           /\ \A i \in 1 .. used_space : Contents[i] = Nth(i)
<1>1. used_space \in Nat /\ used_space \in 0 .. PIPE_BUFFER_SIZE
  BY PipeAssumption DEF IInv, TypeOK
<1>2. \A i \in 1 .. used_space : Nth(i) \in Bytes
  BY PipeAssumption DEF IInv, TypeOK, Nth, Slots
<1>3. Contents \in [1 .. used_space -> Bytes]
  BY <1>2 DEF Contents
<1> HIDE DEF Nth
<1>4. \A i \in 1 .. used_space : Contents[i] = Nth(i)
  BY DEF Contents
<1> QED  BY <1>1, <1>3, <1>4

\* WriteByte() puts its byte behind the others, around the end of BUFFER.
LEMMA WriteByteAppends ==
    ASSUME IInv, IInv', NEW t \in Threads, WriteByte(t)
    PROVE  Contents' = Append(Contents, Head(buf[t])) /\ Len(Contents) < PIPE_BUFFER_SIZE
<1> DEFINE b == Head(buf[t])
<1>1. /\ Contents \in Seq(Bytes) /\ Len(Contents) = used_space
      /\ \A i \in 1 .. used_space : Contents[i] = Nth(i)
  BY ContentsFacts
<1>2. /\ used_space \in 0 .. PIPE_BUFFER_SIZE - 1 /\ used_space' = used_space + 1
      /\ r_position \in Slots /\ w_position \in Slots /\ r_position' = r_position
      /\ BUFFER \in [Slots -> Bytes] /\ BUFFER' = [BUFFER EXCEPT ![w_position] = b]
      /\ w_position = IF r_position + used_space < PIPE_BUFFER_SIZE
                      THEN r_position + used_space
                      ELSE r_position + used_space - PIPE_BUFFER_SIZE
      /\ b \in Bytes
  BY PipeAssumption DEF WriteByte, IInv, TypeOK, RingInv
<1> HIDE DEF b
<1>3. ASSUME NEW i \in 1 .. used_space PROVE Nth(i)' = Nth(i)
  BY <1>2, PipeAssumption DEF Nth, Slots
<1>4. ASSUME NEW i \in 1 .. used_space + 1, i = used_space + 1 PROVE Nth(i)' = b
  <2>1. r_position' + i - 1 = r_position + used_space
    BY <1>2, <1>4, PipeAssumption DEF Slots
  <2>2. Nth(i)' = BUFFER'[w_position]
    BY <1>2, <2>1, PipeAssumption DEF Nth, Slots
  <2> QED  BY <1>2, <2>2
<1>5. /\ Contents' = [i \in 1 .. used_space + 1 |-> Nth(i)']
      /\ Contents' \in Seq(Bytes)
  <2>1. Contents' = [i \in 1 .. used_space + 1 |-> Nth(i)']
    BY <1>2 DEF Contents
  <2>2. \A i \in 1 .. used_space + 1 : Nth(i)' \in Bytes
    BY <1>2, PipeAssumption DEF Nth, Slots
  <2>3. Contents' \in [1 .. used_space + 1 -> Bytes]
    BY <2>1, <2>2
  <2>4. used_space + 1 \in Nat
    BY <1>2, PipeAssumption
  <2> QED  BY <2>1, <2>3, <2>4
<1> DEFINE s == Append(Contents, b)
<1>6. /\ s \in Seq(Bytes) /\ Len(s) = used_space + 1
      /\ \A i \in 1 .. used_space : s[i] = Contents[i]
      /\ s[used_space + 1] = b
  BY <1>1, <1>2
<1>7. Len(Contents') = used_space + 1
  BY <1>2, <1>5, PipeAssumption
<1>8. ASSUME NEW i \in 1 .. used_space + 1 PROVE Contents'[i] = s[i]
  <2>1. Contents'[i] = Nth(i)'
    BY <1>5
  <2> HIDE DEF s
  <2>2. CASE i = used_space + 1
    BY <1>4, <1>6, <2>1, <2>2
  <2>3. CASE i # used_space + 1
    <3>1. i \in 1 .. used_space
      BY <1>2, <2>3, PipeAssumption
    <3> QED  BY <1>1, <1>3, <1>6, <2>1, <3>1
  <2> QED  BY <2>2, <2>3
<1> HIDE DEF s
<1>9. Contents' = s
  BY <1>5, <1>6, <1>7, <1>8, SeqEqual
<1> QED  BY <1>1, <1>2, <1>9, PipeAssumption DEF s, b

\* ReadByte() takes the first byte.
LEMMA ReadByteTakes ==
    ASSUME IInv, IInv', NEW t \in Threads, ReadByte(t)
    PROVE  /\ Contents # <<>> /\ BUFFER[r_position] = Head(Contents)
           /\ Contents' = Tail(Contents)
<1>1. /\ Contents \in Seq(Bytes) /\ Len(Contents) = used_space
      /\ \A i \in 1 .. used_space : Contents[i] = Nth(i)
  BY ContentsFacts
<1>2. /\ used_space \in 1 .. PIPE_BUFFER_SIZE /\ used_space' = used_space - 1
      /\ r_position \in Slots /\ r_position' = Advance(r_position)
      /\ BUFFER \in [Slots -> Bytes] /\ BUFFER' = BUFFER
  BY PipeAssumption DEF ReadByte, IInv, TypeOK
<1>3. ASSUME NEW i \in 1 .. used_space - 1 PROVE Nth(i)' = Nth(i + 1)
  <2>1. r_position' + i - 1 = IF r_position = PIPE_BUFFER_SIZE - 1
                              THEN i - 1 ELSE r_position + i
    BY <1>2, PipeAssumption DEF Slots, Advance
  <2> QED  BY <1>2, <2>1, PipeAssumption DEF Nth, Slots
<1>4. Nth(1) = BUFFER[r_position]
  BY <1>2, PipeAssumption DEF Nth, Slots
<1>5. /\ Contents' = [i \in 1 .. used_space - 1 |-> Nth(i)']
      /\ Contents' \in Seq(Bytes)
  <2>1. Contents' = [i \in 1 .. used_space - 1 |-> Nth(i)']
    BY <1>2 DEF Contents
  <2>2. \A i \in 1 .. used_space - 1 : Nth(i)' \in Bytes
    <3>1. \A i \in 1 .. used_space - 1 : Nth(i)' = Nth(i + 1)
      BY <1>3
    <3>2. \A i \in 1 .. used_space : Nth(i) \in Bytes
      BY <1>2, PipeAssumption DEF Nth, Slots
    <3>3. \A i \in 1 .. used_space - 1 : i + 1 \in 1 .. used_space
      BY <1>2, PipeAssumption
    <3> QED  BY <3>1, <3>2, <3>3
  <2>3. Contents' \in [1 .. used_space - 1 -> Bytes]
    BY <2>1, <2>2
  <2>4. used_space - 1 \in Nat
    BY <1>2, PipeAssumption
  <2> QED  BY <2>1, <2>3, <2>4
<1>6. /\ Contents # <<>>
      /\ Tail(Contents) \in Seq(Bytes) /\ Len(Tail(Contents)) = used_space - 1
      /\ \A i \in 1 .. used_space - 1 : Tail(Contents)[i] = Contents[i + 1]
      /\ Head(Contents) = Contents[1]
  BY <1>1, <1>2, PipeAssumption
<1>7. Len(Contents') = used_space - 1
  BY <1>2, <1>5, PipeAssumption
<1>8. ASSUME NEW i \in 1 .. used_space - 1 PROVE Contents'[i] = Tail(Contents)[i]
  <2>1. Contents'[i] = Nth(i)' /\ i + 1 \in 1 .. used_space
    BY <1>2, <1>5, PipeAssumption
  <2> QED  BY <1>1, <1>3, <1>6, <2>1
<1>9. Contents' = Tail(Contents)
  <2> HIDE DEF Contents
  <2> QED  BY <1>5, <1>6, <1>7, <1>8, SeqEqual
<1> QED  BY <1>1, <1>2, <1>4, <1>6, <1>9, PipeAssumption


\* What a caller sees of its call changes only where it begins or ends.
LEMMA SeenFacts ==
    ASSUME NEW t \in Threads
    PROVE  /\ Seen(t) = IF pc[t] \in {"rtest", "rsleep", "rwoken", "rcopy"} THEN "reading"
                        ELSE IF pc[t] \in {"wtest", "wsleep", "wwoken", "wcopy"} THEN "writing"
                        ELSE ret[t]
           /\ Seen(t)' = IF pc'[t] \in {"rtest", "rsleep", "rwoken", "rcopy"} THEN "reading"
                         ELSE IF pc'[t] \in {"wtest", "wsleep", "wwoken", "wcopy"} THEN "writing"
                         ELSE ret'[t]
  BY DEF Seen, Users

Outcomes == [t \in Threads |-> Seen(t)]

\* Only one caller sees its outcome change.
LEMMA OneSees ==
    ASSUME NEW t \in Threads, \A u \in Threads : u # t => Seen(u)' = Seen(u)
    PROVE  Outcomes' = [Outcomes EXCEPT ![t] = Seen(t)'] /\ Outcomes[t] = Seen(t)
  BY DEF Outcomes

\* Contents depends on the ring alone.
LEMMA SameContents == ASSUME UNCHANGED ringVars PROVE Contents' = Contents
  BY DEF Contents, Nth, ringVars

\* Steps that the callers do not see.
LEMMA QuietMaps ==
    ASSUME IInv, NEW t \in Threads,
           ReadTest(t) \/ Resume(t) \/ (WriteTest(t) /\ open["r"])
    PROVE  UNCHANGED Ch!channelVars
<1> USE DEF IInv, TypeOK, ReadTest, Resume, WriteTest, fileVars
<1>1. ASSUME NEW u \in Threads PROVE Seen(u)' = Seen(u)
  <2>1. CASE u = t
    BY <2>1, SeenFacts
  <2>2. CASE u # t
    <3>1. pc'[u] = pc[u] /\ ret'[u] = ret[u]
      BY <2>2
    <3> HIDE DEF IInv, TypeOK, ReadTest, Resume, WriteTest
    <3> QED  BY <3>1, SeenFacts
  <2> QED  BY <2>1, <2>2
<1>2. Contents' = Contents /\ buf' = buf /\ open' = open
  BY SameContents
<1>3. Outcomes' = Outcomes
  BY <1>1 DEF Outcomes
<1> QED  BY <1>2, <1>3 DEF Ch!channelVars, Outcomes

\* A step that changes nothing here changes nothing in Channel.
LEMMA StutterMaps == ASSUME UNCHANGED vars PROVE UNCHANGED Ch!channelVars
<1> USE DEF vars, fileVars, callVars
<1>1. \A u \in Threads : Seen(u)' = Seen(u)
  BY SeenFacts
<1>2. Contents' = Contents /\ buf' = buf /\ open' = open
  BY SameContents
<1>3. Outcomes' = Outcomes
  BY <1>1 DEF Outcomes
<1> QED  BY <1>2, <1>3 DEF Ch!channelVars, Outcomes

\* A call of pipe_read() is a call of the channel.
LEMMA ReadMaps ==
    ASSUME IInv, NEW t \in Threads, NEW n \in 0 .. MaxTransfer, Read(t, n)
    PROVE  Ch!CallRead(t)
<1> USE DEF IInv, TypeOK, Read
<1>1. \A u \in Threads : u # t => Seen(u)' = Seen(u)
  BY SeenFacts
<1>2. Seen(t) \in {"error", "eof", "done"} /\ Seen(t)' = "reading"
  BY SeenFacts
<1>3. Outcomes' = [Outcomes EXCEPT ![t] = "reading"] /\ Outcomes[t] = Seen(t)
  BY <1>1, <1>2, OneSees
<1>4. Contents' = Contents
  BY SameContents
<1> QED  BY <1>2, <1>3, <1>4 DEF Ch!CallRead, Ch!Pending, Outcomes

\* A call of pipe_write() is a call of the channel.
LEMMA WriteMaps ==
    ASSUME IInv, IInv', NEW t \in Threads, NEW msg \in Messages, Write(t, msg)
    PROVE  Ch!CallWrite(t) \/ Ch!Reject(t)
<1> USE DEF IInv, TypeOK, Write
<1>1. ASSUME NEW u \in Threads, u # t PROVE Seen(u)' = Seen(u)
  <2>1. pc'[u] = pc[u] /\ ret'[u] = ret[u]
    BY <1>1
  <2> QED  BY <2>1, SeenFacts
<1>2. Seen(t) \in {"error", "eof", "done"} /\ Outcomes[t] = Seen(t)
  BY SeenFacts DEF Outcomes
<1>3. Contents' = Contents /\ open' = open
  BY SameContents
<1>4. CASE open["r"] /\ open["w"]
  <2>1. Seen(t)' = "writing"
    BY <1>4, SeenFacts
  <2>2. Outcomes' = [Outcomes EXCEPT ![t] = "writing"]
    BY <1>1, <2>1, OneSees
  <2>3. buf' = [buf EXCEPT ![t] = buf'[t]] /\ buf'[t] \in Seq(Bytes)
    BY <1>4
  <2> HIDE DEF IInv, TypeOK, Write
  <2> QED  BY <1>2, <1>3, <1>4, <2>2, <2>3 DEF Ch!CallWrite, Ch!Pending, Outcomes
<1>5. CASE ~ (open["r"] /\ open["w"])
  <2>1. Seen(t)' = "error" /\ buf' = buf
    BY <1>5, SeenFacts
  <2>2. Outcomes' = [Outcomes EXCEPT ![t] = "error"]
    BY <1>1, <2>1, OneSees
  <2>3. ~ open["r"]
    <3> HIDE DEF TypeOK
    <3> QED  BY <1>5, UsedIsOpen DEF Ends
  <2> HIDE DEF IInv, TypeOK, Write
  <2> QED  BY <1>2, <1>3, <2>1, <2>2, <2>3 DEF Ch!Reject, Ch!Pending, Outcomes
<1> QED  BY <1>4, <1>5

\* A byte put in the ring is sent.
LEMMA WriteByteMaps ==
    ASSUME IInv, IInv', NEW t \in Threads, WriteByte(t)
    PROVE  Ch!Put(t)
<1>1. \A u \in Threads : Seen(u)' = Seen(u)
  BY SeenFacts DEF WriteByte
<1>2. Outcomes' = Outcomes /\ Outcomes[t] = "writing"
  BY <1>1, SeenFacts DEF Outcomes, WriteByte
<1>3. open' = open /\ open["r"] /\ open["w"]
  <2>1. t \in Users("w") /\ open["r"] /\ open' = open
    BY DEF Users, WriteByte, IInv, CopyInv, fileVars
  <2> QED  BY <2>1, UsedIsOpen DEF Ends
<1>4. /\ Contents' = Append(Contents, Head(buf[t])) /\ Len(Contents) < PIPE_BUFFER_SIZE
      /\ buf[t] # <<>> /\ buf' = [buf EXCEPT ![t] = Tail(@)]
  BY WriteByteAppends DEF WriteByte
<1> HIDE DEF Contents
<1> QED  BY <1>2, <1>3, <1>4 DEF Ch!Put, Outcomes

\* A byte taken from the ring is received.
LEMMA ReadByteMaps ==
    ASSUME IInv, IInv', NEW t \in Threads, ReadByte(t)
    PROVE  Ch!Get(t)
<1>1. \A u \in Threads : Seen(u)' = Seen(u)
  BY SeenFacts DEF ReadByte
<1>2. Outcomes' = Outcomes /\ Outcomes[t] = "reading"
  BY <1>1, SeenFacts DEF Outcomes, ReadByte
<1>3. open' = open /\ open["r"]
  <2>1. t \in Users("r") /\ open' = open
    BY DEF Users, ReadByte, fileVars
  <2> QED  BY <2>1, UsedIsOpen DEF Ends
<1>4. /\ Contents # <<>> /\ Contents' = Tail(Contents)
      /\ buf' = [buf EXCEPT ![t] = Append(@, Head(Contents))]
  BY ReadByteTakes DEF ReadByte
<1> HIDE DEF Contents
<1> QED  BY <1>2, <1>3, <1>4 DEF Ch!Get, Outcomes

\* A call returns, with the result of the call.
LEMMA LeaveMaps ==
    ASSUME IInv, NEW t \in Threads, NEW e \in Ends, NEW result \in Int,
           NEW p \in [Threads -> PCs],
           pc[t] = (IF e = "r" THEN "rcopy" ELSE "wcopy") \/ (pc[t] = "wtest" /\ e = "w"),
           \A u \in Threads : \/ p[u] = pc[u]
                              \/ pc[u] = "rsleep" /\ p[u] = "rwoken"
                              \/ pc[u] = "wsleep" /\ p[u] = "wwoken",
           Leave(t, e, result, p), UNCHANGED ringVars
    PROVE  /\ Outcomes[t] = IF e = "r" THEN "reading" ELSE "writing"
           /\ Outcomes' = [Outcomes EXCEPT ![t] = Outcome(result, size[t])]
           /\ buf' = [buf EXCEPT ![t] = <<>>]
           /\ Contents' = Contents
           /\ open'[Other(e)] = open[Other(e)]
           /\ open'[e] \in {open[e], FALSE}
<1>1. /\ pc' \in [Threads -> PCs] /\ pc'[t] = "idle"
      /\ \A u \in Threads : u # t =>
            \/ pc'[u] = pc[u]
            \/ pc[u] = "rsleep" /\ pc'[u] = "rwoken"
            \/ pc[u] = "wsleep" /\ pc'[u] = "wwoken"
      /\ t \in Users(e) /\ open' \in [Ends -> BOOLEAN]
      /\ open'[Other(e)] = open[Other(e)]
  BY LeaveFacts
<1>2. /\ ret' = [ret EXCEPT ![t] = Outcome(result, size[t])]
      /\ buf' = [buf EXCEPT ![t] = <<>>] /\ ret \in [Threads -> {"error", "eof", "done"}]
  BY DEF Leave, IInv, TypeOK
<1>3. Seen(t) = (IF e = "r" THEN "reading" ELSE "writing")
      /\ Seen(t)' = Outcome(result, size[t])
  BY <1>1, <1>2, SeenFacts DEF Ends
<1>4. \A u \in Threads : u # t => Seen(u)' = Seen(u)
  BY <1>1, <1>2, SeenFacts
<1>5. Outcomes' = [Outcomes EXCEPT ![t] = Outcome(result, size[t])]
      /\ Outcomes[t] = IF e = "r" THEN "reading" ELSE "writing"
  BY <1>3, <1>4, OneSees
<1>6. open[e] = TRUE
  BY <1>1, UsedIsOpen DEF IInv, TypeOK
<1> QED  BY <1>1, <1>2, <1>5, <1>6, SameContents

\* pipe_read() returns what the channel may return.
LEMMA ReadReturnMaps ==
    ASSUME IInv, NEW t \in Threads, ReadReturn(t)
    PROVE  Ch!ReturnRead(t)
<1> DEFINE p == kernel_broadcast(pc, "wsleep", "wwoken")
<1>1. /\ p \in [Threads -> PCs]
      /\ \A u \in Threads : p[u] = pc[u] \/ (pc[u] = "wsleep" /\ p[u] = "wwoken")
  BY DEF IInv, TypeOK, kernel_broadcast, PCs
<1>2. /\ Leave(t, "r", counter[t], p) /\ counter[t] \in Nat /\ pc[t] = "rcopy"
      /\ UNCHANGED ringVars
  BY DEF ReadReturn, IInv, TypeOK
<1> HIDE DEF p
<1>3. /\ Outcomes[t] = "reading"
      /\ Outcomes' = [Outcomes EXCEPT ![t] = Outcome(counter[t], size[t])]
      /\ buf' = [buf EXCEPT ![t] = <<>>]
      /\ Contents' = Contents
      /\ open'["w"] = open["w"]
      /\ open'["r"] \in {open["r"], FALSE}
  <2>1. /\ "r" \in Ends /\ Other("r") = "w" /\ counter[t] \in Int
        /\ pc[t] = (IF "r" = "r" THEN "rcopy" ELSE "wcopy") \/ (pc[t] = "wtest" /\ "r" = "w")
    BY <1>2 DEF Ends, Other
  <2>2. \A u \in Threads : \/ p[u] = pc[u]
                           \/ pc[u] = "rsleep" /\ p[u] = "rwoken"
                           \/ pc[u] = "wsleep" /\ p[u] = "wwoken"
    BY <1>1
  <2>3. /\ Outcomes[t] = IF "r" = "r" THEN "reading" ELSE "writing"
        /\ Outcomes' = [Outcomes EXCEPT ![t] = Outcome(counter[t], size[t])]
        /\ buf' = [buf EXCEPT ![t] = <<>>]
        /\ Contents' = Contents
        /\ open'[Other("r")] = open[Other("r")]
        /\ open'["r"] \in {open["r"], FALSE}
    BY <1>1, <1>2, <2>1, <2>2, LeaveMaps
  <2> QED  BY <2>1, <2>3
<1>4. Outcome(counter[t], size[t]) = "done"
      \/ (Outcome(counter[t], size[t]) = "eof" /\ ~ open["w"] /\ Contents = <<>>)
  <2>1. CASE counter[t] = 0 /\ size[t] > 0
    <3>1. used_space = 0 /\ ~ open["w"]
      BY <1>2, <2>1, PipeAssumption DEF ReadReturn, IInv, CopyInv, TypeOK
    <3>2. Contents = <<>>
      BY <3>1, ContentsFacts
    <3> QED  BY <1>2, <2>1, <3>1, <3>2 DEF Outcome
  <2>2. CASE ~ (counter[t] = 0 /\ size[t] > 0)
    BY <1>2, <2>2 DEF Outcome
  <2> QED  BY <2>1, <2>2
<1> QED  BY <1>3, <1>4 DEF Ch!ReturnRead, Outcomes

\* pipe_write() returns what the channel may return.
LEMMA WriteReturnMaps ==
    ASSUME IInv, NEW t \in Threads, WriteReturn(t)
    PROVE  Ch!ReturnWrite(t)
<1> DEFINE p == kernel_broadcast(pc, "rsleep", "rwoken")
<1>1. /\ p \in [Threads -> PCs]
      /\ \A u \in Threads : p[u] = pc[u] \/ (pc[u] = "rsleep" /\ p[u] = "rwoken")
  BY DEF IInv, TypeOK, kernel_broadcast, PCs
<1>2. /\ Leave(t, "w", counter[t], p) /\ counter[t] \in Nat /\ pc[t] = "wcopy"
      /\ UNCHANGED ringVars
  BY DEF WriteReturn, IInv, TypeOK
<1> HIDE DEF p
<1>3. /\ Outcomes[t] = "writing"
      /\ Outcomes' = [Outcomes EXCEPT ![t] = Outcome(counter[t], size[t])]
      /\ buf' = [buf EXCEPT ![t] = <<>>]
      /\ Contents' = Contents
      /\ open'["r"] = open["r"]
      /\ open'["w"] \in {open["w"], FALSE}
  <2>1. /\ "w" \in Ends /\ Other("w") = "r" /\ counter[t] \in Int
        /\ pc[t] = (IF "w" = "r" THEN "rcopy" ELSE "wcopy") \/ (pc[t] = "wtest" /\ "w" = "w")
    BY <1>2 DEF Ends, Other
  <2>2. \A u \in Threads : \/ p[u] = pc[u]
                           \/ pc[u] = "rsleep" /\ p[u] = "rwoken"
                           \/ pc[u] = "wsleep" /\ p[u] = "wwoken"
    BY <1>1
  <2>3. /\ Outcomes[t] = IF "w" = "r" THEN "reading" ELSE "writing"
        /\ Outcomes' = [Outcomes EXCEPT ![t] = Outcome(counter[t], size[t])]
        /\ buf' = [buf EXCEPT ![t] = <<>>]
        /\ Contents' = Contents
        /\ open'[Other("w")] = open[Other("w")]
        /\ open'["w"] \in {open["w"], FALSE}
    BY <1>1, <1>2, <2>1, <2>2, LeaveMaps
  <2> QED  BY <2>1, <2>3
<1>4. Outcome(counter[t], size[t]) = "done"
  <2>1. /\ counter[t] + Len(buf[t]) = size[t] /\ Len(buf[t]) \in Nat
        /\ counter[t] = 0 => used_space < PIPE_BUFFER_SIZE
        /\ ~ (buf[t] # <<>> /\ used_space < PIPE_BUFFER_SIZE)
    BY <1>2 DEF IInv, TypeOK, CopyInv, Users, WriteReturn
  <2>2. buf[t] = <<>> => Len(buf[t]) = 0
    OBVIOUS
  <2>3. counter[t] = 0 => size[t] = 0
    BY <2>1, <2>2
  <2> QED  BY <1>2, <2>3 DEF Outcome
<1> QED  BY <1>3, <1>4 DEF Ch!ReturnWrite, Outcomes

\* A Write() that wakes up to find no reader fails.
LEMMA WriteFailMaps ==
    ASSUME IInv, NEW t \in Threads, WriteTest(t), ~ open["r"]
    PROVE  Ch!ReturnWrite(t)
<1>1. Leave(t, "w", -1, pc) /\ pc[t] = "wtest" /\ UNCHANGED ringVars
  BY DEF WriteTest
<1>2. /\ Outcomes[t] = "writing"
      /\ Outcomes' = [Outcomes EXCEPT ![t] = Outcome(-1, size[t])]
      /\ buf' = [buf EXCEPT ![t] = <<>>]
      /\ Contents' = Contents
      /\ open'["r"] = open["r"]
      /\ open'["w"] \in {open["w"], FALSE}
  <2>1. "w" \in Ends /\ Other("w") = "r" /\ -1 \in Int /\ pc \in [Threads -> PCs]
    BY DEF Ends, Other, IInv, TypeOK
  <2> QED  BY <1>1, <2>1, LeaveMaps
<1>3. Outcome(-1, size[t]) = "error"
  BY DEF Outcome
<1> QED  BY <1>2, <1>3 DEF Ch!ReturnWrite, Outcomes

\* The last descriptor of an end goes, and nobody is in a call on it.
LEMMA CloseMaps ==
    ASSUME IInv, NEW e \in Ends, Close(e) \/ Dup2(Other(e))
    PROVE  Ch!CloseRead \/ Ch!CloseWrite \/ UNCHANGED Ch!channelVars
<1>0. Other(e) \in Ends /\ Other(Other(e)) = e /\ Other(e) # e
  BY DEF Ends, Other
<1>1. /\ CloseIfLast(e, pc) /\ fids[e] > 0
      /\ UNCHANGED <<ringVars, kernel, buf, size, counter, ret>>
  BY <1>0 DEF Close, Dup2
<1>2. refcount[e] > 0 /\ open[e] = TRUE /\ pc \in [Threads -> PCs]
  BY <1>1, UsedIsOpen DEF IInv, TypeOK
<1>3. \A u \in Threads : Seen(u)' = Seen(u)
  <2>1. /\ pc' \in [Threads -> PCs]
        /\ \A u \in Threads : \/ pc'[u] = pc[u]
                              \/ pc[u] = "rsleep" /\ pc'[u] = "rwoken"
                              \/ pc[u] = "wsleep" /\ pc'[u] = "wwoken"
    BY <1>1, <1>2, DropWakes
  <2> QED  BY <1>1, <2>1, SeenFacts
<1>4. Outcomes' = Outcomes /\ Contents' = Contents /\ buf' = buf
  BY <1>1, <1>3, SameContents DEF Outcomes
<1>5. open' = open \/ open' = [open EXCEPT ![e] = FALSE]
  BY <1>1 DEF CloseIfLast, pipe_close
<1>6. open \in [Ends -> BOOLEAN]
  BY DEF IInv, TypeOK
<1>7. CASE open' = open
  BY <1>4, <1>7 DEF Ch!channelVars, Outcomes
<1>8. CASE open' = [open EXCEPT ![e] = FALSE]
  <2>1. e = "r" => open'["r"] = FALSE /\ open'["w"] = open["w"]
    BY <1>6, <1>8 DEF Ends
  <2>2. e = "w" => open'["w"] = FALSE /\ open'["r"] = open["r"]
    BY <1>6, <1>8 DEF Ends
  <2> QED  BY <1>4, <2>1, <2>2 DEF Ends, Ch!CloseRead, Ch!CloseWrite, Outcomes
<1> QED  BY <1>5, <1>7, <1>8

\* The pipe implements the channel: bytes come out in the order they went in,
\* around the end of BUFFER and whoever the readers and the writers are, and
\* Read() and Write() report the end of the data or an error only when it is so.
THEOREM PipeIsChannel == Spec => ImplementsChannel
<1>1. Init => Ch!ChannelInit
  <2> SUFFICES ASSUME Init PROVE Ch!ChannelInit
    OBVIOUS
  <2>1. Outcomes = [t \in Threads |-> "done"]
    BY SeenFacts DEF Init, Outcomes
  <2>2. Contents = <<>>
    BY InitEstablishesIInv, ContentsFacts DEF Init
  <2>3. open["r"] = TRUE /\ open["w"] = TRUE /\ buf = [t \in Threads |-> <<>>]
    BY DEF Init, Ends
  <2> QED  BY <2>1, <2>2, <2>3 DEF Ch!ChannelInit, Outcomes
<1>2. ASSUME IInv, IInv', [Next \/ Gone]_vars
      PROVE  [Ch!ChannelNext]_(Ch!channelVars)
  <2>1. CASE Gone \/ UNCHANGED vars
    BY <2>1, StutterMaps DEF Gone
  <2>2. ASSUME NEW t \in Threads, InCall(t) \/ Resume(t)
        PROVE  \/ Ch!Put(t) \/ Ch!Get(t) \/ Ch!ReturnRead(t) \/ Ch!ReturnWrite(t)
               \/ UNCHANGED Ch!channelVars
    BY <1>2, <2>2, QuietMaps, WriteByteMaps, ReadByteMaps, ReadReturnMaps,
       WriteReturnMaps, WriteFailMaps DEF InCall
  <2>3. ASSUME NEW t \in Threads, NEW n \in 0 .. MaxTransfer, Read(t, n)
        PROVE  Ch!CallRead(t)
    BY <1>2, <2>3, ReadMaps
  <2>4. ASSUME NEW t \in Threads, NEW msg \in Messages, Write(t, msg)
        PROVE  Ch!CallWrite(t) \/ Ch!Reject(t)
    BY <1>2, <2>4, WriteMaps
  <2>5. ASSUME NEW e \in Ends, Close(e) \/ Inherit(e) \/ Dup2(e)
        PROVE  Ch!CloseRead \/ Ch!CloseWrite \/ UNCHANGED Ch!channelVars
    <3>1. Other(e) \in Ends /\ Other(Other(e)) = e
      BY DEF Ends, Other
    <3>2. CASE Close(e)
      BY <1>2, <3>2, CloseMaps
    <3>3. CASE Dup2(e)
      BY <1>2, <3>1, <3>3, CloseMaps
    <3>4. CASE Inherit(e)
      <4>1. \A u \in Threads : Seen(u)' = Seen(u)
        BY <3>4, SeenFacts DEF Inherit, callVars
      <4>2. Contents' = Contents /\ buf' = buf /\ open' = open
        BY <3>4, SameContents DEF Inherit, callVars
      <4> QED  BY <4>1, <4>2 DEF Ch!channelVars
    <3> QED  BY <2>5, <3>2, <3>3, <3>4
  <2> HIDE DEF Ch!channelVars
  <2> QED  BY <1>2, <2>1, <2>2, <2>3, <2>4, <2>5 DEF Next, Ch!ChannelNext
<1> QED  BY <1>1, <1>2, InductiveInvariant, PTL DEF Spec, ImplementsChannel,
            Ch!ChannelSpec

=============================================================================
