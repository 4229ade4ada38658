---------------------------- MODULE StreamsProofs ----------------------------
(***************************************************************************)
(* Proofs about Streams, for every number of FCBs, descriptors, pipes,     *)
(* terminals and processes: no sequence of system calls loses an FCB,      *)
(* counts its references wrong or closes a stream that is still used.      *)
(*                                                                         *)
(* The lemmas are about a table o and the FCBs b that blocked calls hold,  *)
(* not about the variables, so that they can be used for other tables      *)
(* than os (module Pipeline).                                              *)
(***************************************************************************)
EXTENDS Streams, Lists, FiniteSetTheorems, WellFoundedInduction, TLAPS

-----------------------------------------------------------------------------
(* Natural numbers and ranks.                                              *)

\* A set of natural numbers that is not empty has a least element.
LEMMA SmallestNat ==
    ASSUME NEW T \in SUBSET Nat, T # {}
    PROVE  \E x \in T : \A y \in T : x <= y
<1>1. IsWellFoundedOn(OpToRel(<, Nat), Nat)
  BY NatLessThanWellFounded
<1>2. \A x, y \in Nat : <<y, x>> \in OpToRel(<, Nat) <=> y < x
  BY DEF OpToRel
<1> DEFINE R == OpToRel(<, Nat)
<1>3. IsWellFoundedOn(R, Nat) /\ \A x, y \in Nat : <<y, x>> \in R <=> y < x
  BY <1>1, <1>2
<1> HIDE DEF R
<1>4. PICK x \in T : \A y \in T : ~ (<<y, x>> \in R)
  BY <1>3, WFMin
<1>5. ASSUME NEW y \in T PROVE x <= y
  <2>1. x \in Nat /\ y \in Nat
    OBVIOUS
  <2>2. ~ (<<y, x>> \in R)
    BY <1>4
  <2>3. ~ (y < x)
    BY ONLY <1>3, <2>1, <2>2
  <2> QED  BY <2>1, <2>3
<1> QED  BY <1>5

\* A set of natural numbers below a bound has a greatest element.
LEMMA LargestNat ==
    ASSUME NEW T \in SUBSET Nat, T # {}, NEW n \in Nat, \A x \in T : x <= n
    PROVE  \E x \in T : \A y \in T : y <= x
<1> DEFINE U == {k \in Nat : \A x \in T : x <= k}
<1>1. U \in SUBSET Nat /\ U # {}
  OBVIOUS
<1> HIDE DEF U
<1>2. PICK m \in U : \A k \in U : m <= k
  BY <1>1, SmallestNat
<1>3. m \in Nat /\ \A x \in T : x <= m
  BY <1>2 DEF U
<1>4. m \in T
  <2> SUFFICES ASSUME m \notin T PROVE FALSE
    OBVIOUS
  <2>1. \A x \in T : x <= m - 1 /\ x \in Nat
    BY <1>3
  <2>2. m - 1 \in Nat
    <3>1. PICK x \in T : x \in T
      OBVIOUS
    <3> QED  BY <1>3, <2>1, <3>1
  <2>3. m - 1 \in U
    BY <2>1, <2>2 DEF U
  <2> QED  BY <1>2, <1>3, <2>3
<1> QED  BY <1>3, <1>4

\* How many elements of S are before x in the order R.
RankIn(S, R, x) == Cardinality({y \in S \ {x} : <<y, x>> \in R})

\* In a finite set that is totally ordered, there is one element of each rank.
LEMMA Ranks ==
    ASSUME NEW S, IsFiniteSet(S), NEW R,
           \A x, y \in S : x # y => (<<x, y>> \in R <=> ~ (<<y, x>> \in R)),
           \A x, y, z \in S : <<x, y>> \in R /\ <<y, z>> \in R /\ x # z => <<x, z>> \in R
    PROVE  /\ \A x \in S : RankIn(S, R, x) \in 0 .. Cardinality(S) - 1
           /\ \A x, y \in S : x # y => RankIn(S, R, x) # RankIn(S, R, y)
           /\ \A k \in 0 .. Cardinality(S) - 1 : \E x \in S : RankIn(S, R, x) = k
<1> DEFINE below(x) == {y \in S \ {x} : <<y, x>> \in R}
           rank(x) == Cardinality(below(x))
           n == Cardinality(S)
           K == 0 .. n - 1
<1>1. n \in Nat
  BY FS_CardinalityType
<1>2. ASSUME NEW x \in S
      PROVE  /\ IsFiniteSet(below(x)) /\ rank(x) \in 0 .. n - 1
             /\ x \notin below(x)
  <2>1. IsFiniteSet(S \ {x}) /\ Cardinality(S \ {x}) = n - 1
    BY FS_RemoveElement
  <2>2. below(x) \in SUBSET (S \ {x}) /\ x \notin below(x)
    OBVIOUS
  <2> HIDE DEF below
  <2>3. IsFiniteSet(below(x)) /\ rank(x) <= n - 1
    BY <2>1, <2>2, FS_Subset
  <2>4. rank(x) \in Nat
    BY <2>3, FS_CardinalityType
  <2> QED  BY <1>1, <2>2, <2>3, <2>4
<1>3. ASSUME NEW x \in S, NEW y \in S, x # y, <<x, y>> \in R
      PROVE  rank(x) < rank(y)
  <2>1. below(x) \cup {x} \in SUBSET below(y)
    <3>1. ASSUME NEW z \in below(x) PROVE z \in below(y)
      <4>1. z \in S /\ <<z, x>> \in R /\ z # x
        OBVIOUS
      <4>2. z # y
        BY <1>3, <4>1
      <4>3. <<z, y>> \in R
        BY <1>3, <4>1, <4>2
      <4> QED  BY <4>1, <4>2, <4>3
    <3>2. x \in below(y)
      BY <1>3
    <3> QED  BY <3>1, <3>2
  <2>2. /\ IsFiniteSet(below(x)) /\ x \notin below(x) /\ IsFiniteSet(below(y))
        /\ rank(x) \in Nat /\ rank(y) \in Nat
    BY <1>1, <1>2
  <2> HIDE DEF below
  <2>3. Cardinality(below(x) \cup {x}) = rank(x) + 1
    BY <2>2, FS_AddElement
  <2>4. Cardinality(below(x) \cup {x}) <= rank(y)
    BY <2>1, <2>2, FS_Subset
  <2> QED  BY <2>2, <2>3, <2>4
<1>r. \A x \in S : rank(x) \in K
  BY <1>2
<1>s. \A x \in S : rank(x) \in Nat
  BY <1>1, <1>r
<1> HIDE DEF rank
<1>4. \A x, y \in S : x # y => rank(x) # rank(y)
  <2> SUFFICES ASSUME NEW x \in S, NEW y \in S, x # y PROVE rank(x) # rank(y)
    OBVIOUS
  <2>1. <<x, y>> \in R \/ <<y, x>> \in R
    OBVIOUS
  <2>2. rank(x) \in Nat /\ rank(y) \in Nat
    BY <1>s
  <2>3. rank(x) < rank(y) \/ rank(y) < rank(x)
    BY <1>3, <2>1
  <2> QED  BY <2>2, <2>3
<1> DEFINE f == [x \in S |-> rank(x)]
<1>5. IsFiniteSet(K) /\ Cardinality(K) = n
  <2>1. 0 \in Int /\ n - 1 \in Int
    BY <1>1
  <2>2. IsFiniteSet(0 .. n - 1) /\ Cardinality(0 .. n - 1) = IF 0 > n - 1 THEN 0 ELSE (n - 1) - 0 + 1
    BY <2>1, FS_Interval
  <2> QED  BY <1>1, <2>2
<1>6. f \in Injection(S, K)
  <2>1. \A x \in S : rank(x) \in K
    BY <1>r
  <2>2. f \in [S -> K] /\ \A x, y \in S : f[x] = f[y] => x = y
    BY <1>4, <2>1
  <2> HIDE DEF f, K
  <2> QED  BY <2>2 DEF Injection, IsInjective
<1>7. f \in Surjection(S, K)
  <2> HIDE DEF f, K
  <2> QED  BY <1>5, <1>6, FS_Injection
<1>8. \A k \in K : \E x \in S : f[x] = k
  BY <1>7 DEF Surjection
<1>9. \A k \in K : \E x \in S : rank(x) = k
  BY <1>8
<1>10. \A x \in S : rank(x) = RankIn(S, R, x)
  BY DEF rank, RankIn
<1> QED  BY <1>4, <1>9, <1>10, <1>r

-----------------------------------------------------------------------------
(* Tables whose FCBs have the references that R counts.                    *)

Ends == {Reader(k) : k \in Pipes} \cup {Writer(k) : k \in Pipes}
StreamSet == {NullDevice} \cup {Terminal(n) : n \in 0 .. NTerminals} \cup Ends

TableRecord ==
    [freelist : Seq(FCBs), refcount : [FCBs -> Int], stream : [FCBs -> StreamSet],
     FIDT : [Procs -> [Fids -> {NULL} \cup FCBs]], ends : SUBSET Ends]

\* An FCB is counted or free, and each open pipe end has one FCB.
Counted(o, R) ==
    /\ Distinct(o.freelist)
    /\ \A c \in FCBs : IF R[c] > 0 THEN o.refcount[c] = R[c] /\ c \notin Members(o.freelist)
                                    ELSE c \in Members(o.freelist)
    /\ o.ends = {o.stream[c] : c \in {d \in FCBs : R[d] > 0}} \cap Ends
    /\ \A c, d \in FCBs : /\ R[c] > 0 /\ R[d] > 0
                          /\ o.stream[c] = o.stream[d] /\ o.stream[c] \in Ends
                          => c = d

\* A function with one value changed; one reference to c more, and one less.
With(F, x, v) == [F EXCEPT ![x] = v]
Plus(R, c) == [R EXCEPT ![c] = @ + 1]
Minus(R, c) == [R EXCEPT ![c] = @ - 1]

\* The streams of the FCBs that are referred to stay what they were.
Kept(o, n, R) == \A c \in FCBs : R[c] > 0 => n.stream[c] = o.stream[c]

\* The constants.
LEMMA StreamsConstants ==
    /\ MAX_FILES \in Nat \ {0} /\ MAX_FILEID \in Nat \ {0}
    /\ MaxPipes \in Nat /\ NTerminals \in Nat
    /\ Init_pid \in Procs /\ IsFiniteSet(Procs)
    /\ NULL \notin FCBs /\ FCBs \subseteq Nat /\ Fids \subseteq Nat
  BY StreamsAssumption DEF NULL, FCBs, Fids

\* Streams of different kinds differ, and so do the ends of different pipes.
LEMMA StreamKinds ==
    /\ NullDevice \in StreamSet /\ NullDevice \notin Ends
    /\ \A n \in 0 .. NTerminals : Terminal(n) \in StreamSet /\ Terminal(n) \notin Ends
    /\ \A k \in Pipes : /\ Reader(k) \in Ends /\ Writer(k) \in Ends
                        /\ Reader(k) \in StreamSet /\ Writer(k) \in StreamSet
    /\ \A k, l : /\ Reader(k) # Writer(l)
                 /\ Reader(k) = Reader(l) => k = l
                 /\ Writer(k) = Writer(l) => k = l
  BY DEF NullDevice, Terminal, Reader, Writer, Ends, StreamSet

\* FCB_incref() for one more reference.
LEMMA IncrefCounted ==
    ASSUME NEW o \in TableRecord, NEW R \in [FCBs -> Nat], Counted(o, R),
           NEW c \in FCBs, R[c] > 0,
           NEW n, n.freelist = o.freelist, n.refcount = Plus(o.refcount, c),
           n.stream = o.stream, n.ends = o.ends,
           NEW Q, Q = Plus(R, c)
    PROVE  Counted(n, Q)
<1>1. \A d \in FCBs : Q[d] = IF d = c THEN R[c] + 1 ELSE R[d]
  BY DEF Plus
<1>2. \A d \in FCBs : R[d] \in Nat /\ (Q[d] > 0 <=> R[d] > 0)
  BY <1>1
<1>3. \A d \in FCBs : n.refcount[d] = IF d = c THEN o.refcount[c] + 1 ELSE o.refcount[d]
  BY DEF Plus, TableRecord
<1>4. {d \in FCBs : Q[d] > 0} = {d \in FCBs : R[d] > 0}
  BY <1>2
<1> QED  BY <1>1, <1>2, <1>3, <1>4 DEF Counted

\* The free list in another order, and other counts of free FCBs.
LEMMA FreeListCounted ==
    ASSUME NEW o \in TableRecord, NEW R \in [FCBs -> Nat], Counted(o, R),
           NEW n, Members(n.freelist) = Members(o.freelist), Distinct(n.freelist),
           \A c \in FCBs : R[c] > 0 => /\ n.refcount[c] = o.refcount[c]
                                       /\ n.stream[c] = o.stream[c],
           n.ends = o.ends
    PROVE  Counted(n, R)
<1>1. {n.stream[c] : c \in {d \in FCBs : R[d] > 0}}
         = {o.stream[c] : c \in {d \in FCBs : R[d] > 0}}
  OBVIOUS
<1> QED  BY <1>1 DEF Counted

\* FCB_decref(): the last reference releases the FCB.
LEMMA DecrefCounted ==
    ASSUME NEW o \in TableRecord, NEW R \in [FCBs -> Nat], Counted(o, R),
           NEW c \in FCBs, R[c] > 0,
           NEW n, n.refcount = Minus(o.refcount, c),
           IF R[c] = 1
           THEN /\ n.ends = o.ends \ {o.stream[c]}
                /\ n.freelist = Append(o.freelist, c)
                /\ n.stream = [o.stream EXCEPT ![c] = NullDevice]
           ELSE n.ends = o.ends /\ n.freelist = o.freelist /\ n.stream = o.stream,
           NEW Q, Q = Minus(R, c)
    PROVE  Counted(n, Q) /\ Kept(o, n, Q)
<1> DEFINE used == {d \in FCBs : R[d] > 0}
           left == {d \in FCBs : Q[d] > 0}
<1>1. \A d \in FCBs : Q[d] = IF d = c THEN R[c] - 1 ELSE R[d]
  BY DEF Minus
<1>2. \A d \in FCBs : R[d] \in Nat /\ Q[d] \in Nat
  BY <1>1
<1>3. \A d \in FCBs : n.refcount[d] = IF d = c THEN o.refcount[c] - 1 ELSE o.refcount[d]
  BY DEF Minus, TableRecord
<1>4. o.freelist \in Seq(FCBs) /\ c \notin Members(o.freelist) /\ Distinct(o.freelist)
      /\ o.refcount[c] = R[c] /\ c \in used
  BY DEF TableRecord, Counted
<1>5. \A d \in FCBs : /\ d # c => n.stream[d] = o.stream[d]
                      /\ R[c] # 1 => n.stream[d] = o.stream[d]
  BY DEF TableRecord
<1>6. left = IF R[c] = 1 THEN used \ {c} ELSE used
  BY <1>1, <1>2
<1>7. /\ Distinct(n.freelist)
      /\ Members(n.freelist) = IF R[c] = 1 THEN Members(o.freelist) \cup {c}
                               ELSE Members(o.freelist)
  <2> DEFINE a == Append(o.freelist, c)
  <2>1. /\ Members(a) = Members(o.freelist) \cup {c} /\ Distinct(a)
    BY <1>4, AppendMembers
  <2>2. n.freelist = IF R[c] = 1 THEN a ELSE o.freelist
    OBVIOUS
  <2> HIDE DEF a
  <2> QED  BY <1>4, <2>1, <2>2
<1>8. \A d \in FCBs : IF Q[d] > 0 THEN n.refcount[d] = Q[d] /\ d \notin Members(n.freelist)
                                  ELSE d \in Members(n.freelist)
  BY <1>1, <1>2, <1>3, <1>4, <1>7 DEF Counted
<1>9. \A d \in left : d \in used /\ n.stream[d] = o.stream[d]
  BY <1>5, <1>6
<1>10. n.ends = {n.stream[d] : d \in left} \cap Ends
  <2>1. o.ends = {o.stream[d] : d \in used} \cap Ends
    BY DEF Counted
  <2>2. \A d \in used : o.stream[d] = o.stream[c] /\ o.stream[c] \in Ends => d = c
    BY <1>4 DEF Counted
  <2>3. {n.stream[d] : d \in left} = {o.stream[d] : d \in left}
    BY <1>9
  <2>4. CASE R[c] = 1
    <3>1. left = used \ {c}
      BY <1>6, <2>4
    <3>2. n.ends = o.ends \ {o.stream[c]}
      BY <2>4
    <3> HIDE DEF left, used
    <3>3. \A x \in Ends : (\E d \in left : x = o.stream[d])
                             <=> (\E d \in used : x = o.stream[d]) /\ x # o.stream[c]
      BY <1>4, <2>2, <3>1
    <3> QED  BY <2>1, <2>3, <3>2, <3>3
  <2>5. CASE R[c] # 1
    BY <1>6, <2>1, <2>3, <2>5
  <2> QED  BY <2>4, <2>5
<1>11. \A d, e \in FCBs : /\ Q[d] > 0 /\ Q[e] > 0
                          /\ n.stream[d] = n.stream[e] /\ n.stream[d] \in Ends
                          => d = e
  BY <1>9 DEF Counted
<1>12. Kept(o, n, Q)
  BY <1>9 DEF Kept
<1> QED  BY <1>7, <1>8, <1>10, <1>11, <1>12 DEF Counted

\* FCB_reserve() of one FCB and the opening of a stream in it.
LEMMA OpenCounted ==
    ASSUME NEW o \in TableRecord, NEW R \in [FCBs -> Nat], Counted(o, R),
           o.freelist # <<>>, NEW c, c = Head(o.freelist),
           NEW s \in StreamSet, s \notin o.ends,
           NEW n, n.freelist = Tail(o.freelist), n.refcount = With(o.refcount, c, 1),
           n.stream = With(o.stream, c, s), n.ends = o.ends \cup ({s} \cap Ends),
           NEW Q, Q = With(R, c, 1)
    PROVE  /\ c \in FCBs /\ R[c] = 0
           /\ Counted(n, Q) /\ Kept(o, n, R)
<1> DEFINE used == {d \in FCBs : R[d] > 0}
           left == {d \in FCBs : Q[d] > 0}
<1>1. /\ o.freelist \in Seq(FCBs) /\ Distinct(o.freelist)
  BY DEF TableRecord, Counted
<1>2. /\ c \in FCBs /\ c \in Members(o.freelist) /\ Distinct(n.freelist)
      /\ Members(n.freelist) = Members(o.freelist) \ {c}
  BY <1>1, TailMembers
<1>3. R[c] = 0
  BY <1>2 DEF Counted
<1>4. \A d \in FCBs : /\ Q[d] = IF d = c THEN 1 ELSE R[d]
                      /\ n.refcount[d] = IF d = c THEN 1 ELSE o.refcount[d]
                      /\ n.stream[d] = IF d = c THEN s ELSE o.stream[d]
                      /\ R[d] \in Nat
  BY <1>2 DEF TableRecord, With
<1>5. left = used \cup {c} /\ c \notin used
  BY <1>2, <1>3, <1>4
<1>6. \A d \in FCBs : IF Q[d] > 0 THEN n.refcount[d] = Q[d] /\ d \notin Members(n.freelist)
                                  ELSE d \in Members(n.freelist)
  BY <1>2, <1>4 DEF Counted
<1>7. o.ends = {o.stream[d] : d \in used} \cap Ends
  BY DEF Counted
<1>8. n.stream[c] = s /\ \A d \in used : n.stream[d] = o.stream[d] /\ d # c
  BY <1>2, <1>4, <1>5
<1>9. n.ends = {n.stream[d] : d \in left} \cap Ends
  <2> HIDE DEF left, used
  <2>1. {n.stream[d] : d \in left} = {o.stream[d] : d \in used} \cup {s}
    BY <1>5, <1>8
  <2> QED  BY <1>7, <2>1
<1>10. \A d, e \in FCBs : /\ Q[d] > 0 /\ Q[e] > 0
                          /\ n.stream[d] = n.stream[e] /\ n.stream[d] \in Ends
                          => d = e
  <2>1. \A d \in used : o.stream[d] \in Ends => o.stream[d] # s
    BY <1>7
  <2>2. \A d, e \in used : o.stream[d] = o.stream[e] /\ o.stream[d] \in Ends => d = e
    BY DEF Counted
  <2>3. \A d \in FCBs : Q[d] > 0 => d \in left
    OBVIOUS
  <2> HIDE DEF left, used
  <2> QED  BY <1>5, <1>8, <2>1, <2>2, <2>3
<1>11. Kept(o, n, R)
  BY <1>8 DEF Kept
<1> QED  BY <1>2, <1>3, <1>6, <1>9, <1>10, <1>11 DEF Counted

\* sys_Exec(): k[c] more descriptors lead to an FCB c that is used anyway.
LEMMA InheritCounted ==
    ASSUME NEW o \in TableRecord, NEW R \in [FCBs -> Nat], Counted(o, R),
           NEW k \in [FCBs -> Nat], \A c \in FCBs : k[c] > 0 => R[c] > 0,
           NEW n, n.freelist = o.freelist, n.stream = o.stream, n.ends = o.ends,
           n.refcount = [c \in FCBs |-> o.refcount[c] + k[c]],
           NEW Q, Q = [c \in FCBs |-> R[c] + k[c]]
    PROVE  Counted(n, Q)
<1>1. \A d \in FCBs : /\ Q[d] = R[d] + k[d] /\ R[d] \in Nat /\ k[d] \in Nat
                      /\ n.refcount[d] = o.refcount[d] + k[d]
                      /\ k[d] > 0 => R[d] > 0
  OBVIOUS
<1>2. \A d \in FCBs : Q[d] > 0 <=> R[d] > 0
  BY <1>1
<1>3. {d \in FCBs : Q[d] > 0} = {d \in FCBs : R[d] > 0}
  BY <1>2
<1>4. \A d \in FCBs : R[d] > 0 => n.refcount[d] = Q[d]
  BY <1>1 DEF Counted
<1>5. \A d \in FCBs : IF Q[d] > 0 THEN n.refcount[d] = Q[d] /\ d \notin Members(n.freelist)
                                  ELSE d \in Members(n.freelist)
  BY <1>2, <1>4 DEF Counted
<1>6. n.ends = {n.stream[d] : d \in {d \in FCBs : Q[d] > 0}} \cap Ends
  BY <1>3 DEF Counted
<1>7. \A d, e \in FCBs : /\ Q[d] > 0 /\ Q[e] > 0
                         /\ n.stream[d] = n.stream[e] /\ n.stream[d] \in Ends
                         => d = e
  BY <1>2 DEF Counted
<1>8. Distinct(n.freelist)
  BY DEF Counted
<1> QED  BY <1>5, <1>6, <1>7, <1>8 DEF Counted

\* Table n is o without k[c] of the R[c] references to each c; gone, in the
\* order r, are the FCBs that had no other.
Closed(o, R, k, r, gone, n, Q) ==
    /\ o \in TableRecord /\ R \in [FCBs -> Nat] /\ Counted(o, R)
    /\ k \in [FCBs -> Nat] /\ \A c \in FCBs : k[c] <= R[c]
    /\ r \in Seq(FCBs) /\ Distinct(r) /\ Members(r) = gone /\ gone \in SUBSET FCBs
    /\ \A c \in FCBs : c \in gone <=> k[c] > 0 /\ R[c] = k[c]
    /\ n.freelist = o.freelist \o r
    /\ \A x : x \in n.ends <=> x \in o.ends /\ ~ \E c \in gone : x = o.stream[c]
    /\ \A c \in FCBs : /\ n.stream[c] = IF c \in gone THEN NullDevice ELSE o.stream[c]
                       /\ n.refcount[c] = o.refcount[c] - k[c]
                       /\ Q[c] = R[c] - k[c]

\* Exit(): the descriptors of a process are closed.
LEMMA ExitCounted ==
    ASSUME NEW o, NEW R, NEW k, NEW r, NEW gone, NEW n, NEW Q,
           Closed(o, R, k, r, gone, n, Q)
    PROVE  Counted(n, Q) /\ Kept(o, n, Q)
<1> USE DEF Closed
<1> DEFINE used == {d \in FCBs : R[d] > 0}
           left == {d \in FCBs : Q[d] > 0}
<1>1. \A d \in FCBs : /\ Q[d] = R[d] - k[d] /\ R[d] \in Nat /\ k[d] \in Nat
                      /\ n.refcount[d] = o.refcount[d] - k[d] /\ k[d] <= R[d]
                      /\ n.stream[d] = IF d \in gone THEN NullDevice ELSE o.stream[d]
                      /\ d \in gone <=> k[d] > 0 /\ R[d] = k[d]
  OBVIOUS
<1>2. left = used \ gone /\ gone \subseteq used
  BY <1>1
<1>3. o.freelist \in Seq(FCBs) /\ Distinct(o.freelist)
  BY DEF TableRecord, Counted
<1>4. Members(o.freelist) \cap gone = {}
  BY <1>2 DEF Counted
<1>5. Distinct(n.freelist) /\ Members(n.freelist) = Members(o.freelist) \cup gone
  BY <1>3, <1>4, ConcatMembers
<1>6. \A d \in FCBs : IF R[d] > 0 THEN o.refcount[d] = R[d] /\ d \notin Members(o.freelist)
                                  ELSE d \in Members(o.freelist)
  BY DEF Counted
<1>7. \A d \in FCBs : IF Q[d] > 0 THEN n.refcount[d] = Q[d] /\ d \notin Members(n.freelist)
                                  ELSE d \in Members(n.freelist)
  <2> SUFFICES ASSUME NEW d \in FCBs
               PROVE  IF Q[d] > 0 THEN n.refcount[d] = Q[d] /\ d \notin Members(n.freelist)
                                  ELSE d \in Members(n.freelist)
    OBVIOUS
  <2>1. CASE d \in left
    <3>1. R[d] > 0 /\ d \notin gone /\ Q[d] > 0
      BY <1>2, <2>1
    <3>2. o.refcount[d] = R[d] /\ d \notin Members(o.freelist)
      BY <1>6, <3>1
    <3>3. n.refcount[d] = Q[d] /\ d \notin Members(n.freelist)
      BY <1>1, <1>5, <3>1, <3>2
    <3> QED  BY <3>1, <3>3
  <2>2. CASE d \notin left
    BY <1>1, <1>2, <1>5, <1>6, <2>2
  <2> QED  BY <2>1, <2>2
<1>8. o.ends = {o.stream[d] : d \in used} \cap Ends
  BY DEF Counted
<1>9. \A d, e \in used : o.stream[d] = o.stream[e] /\ o.stream[d] \in Ends => d = e
  BY DEF Counted
<1>10. \A d \in left : n.stream[d] = o.stream[d] /\ d \in used
  BY <1>1, <1>2
<1>11. n.ends = {n.stream[d] : d \in left} \cap Ends
  <2> HIDE DEF left, used
  <2>1. \A x \in Ends : (\E d \in left : x = o.stream[d])
                           <=> /\ \E d \in used : x = o.stream[d]
                               /\ ~ \E d \in gone : x = o.stream[d]
    <3> SUFFICES ASSUME NEW x \in Ends
                 PROVE  (\E d \in left : x = o.stream[d])
                           <=> /\ \E d \in used : x = o.stream[d]
                               /\ ~ \E d \in gone : x = o.stream[d]
      OBVIOUS
    <3>1. ASSUME NEW d \in left, x = o.stream[d], NEW e \in gone, x = o.stream[e]
          PROVE  FALSE
      BY ONLY <1>2, <1>9, <3>1
    <3>2. ASSUME NEW d \in used, x = o.stream[d], d \notin gone
          PROVE  d \in left
      BY ONLY <1>2, <3>2
    <3> QED  BY ONLY <1>2, <3>1, <3>2
  <2>2. \A x : (\E d \in left : x = n.stream[d]) <=> (\E d \in left : x = o.stream[d])
    BY ONLY <1>10

  <2>4. \A x : x \in o.ends <=> x \in Ends /\ \E d \in used : x = o.stream[d]
    BY ONLY <1>8
  <2>5. \A x : x \in n.ends <=> x \in o.ends /\ ~ \E d \in gone : x = o.stream[d]
    OBVIOUS
  <2>6. \A x : x \in n.ends <=> x \in Ends /\ \E d \in left : x = n.stream[d]
    <3> SUFFICES ASSUME NEW x
                 PROVE  x \in n.ends <=> x \in Ends /\ \E d \in left : x = n.stream[d]
      OBVIOUS
    <3>1. x \in n.ends <=> x \in o.ends /\ ~ \E d \in gone : x = o.stream[d]
      BY ONLY <2>5
    <3>2. x \in o.ends <=> x \in Ends /\ \E d \in used : x = o.stream[d]
      BY ONLY <2>4
    <3>3. (\E d \in left : x = n.stream[d]) <=> (\E d \in left : x = o.stream[d])
      BY ONLY <2>2
    <3>4. CASE x \in Ends
      <4>1. (\E d \in left : x = o.stream[d])
                           <=> /\ \E d \in used : x = o.stream[d]
                               /\ ~ \E d \in gone : x = o.stream[d]
        BY ONLY <2>1, <3>4
      <4> QED  BY ONLY <3>1, <3>2, <3>3, <3>4, <4>1
    <3> QED  BY ONLY <3>1, <3>2, <3>4
  <2> QED  BY ONLY <2>6
<1>12. \A d, e \in FCBs : /\ Q[d] > 0 /\ Q[e] > 0
                          /\ n.stream[d] = n.stream[e] /\ n.stream[d] \in Ends
                          => d = e
  <2>1. \A d \in FCBs : Q[d] > 0 => d \in left
    OBVIOUS
  <2> HIDE DEF left, used
  <2> QED  BY <1>9, <1>10, <2>1, ZenonT(40)
<1>13. Kept(o, n, Q)
  BY <1>10 DEF Kept
<1> QED  BY <1>5, <1>7, <1>11, <1>12, <1>13 DEF Counted

-----------------------------------------------------------------------------
(* References.                                                             *)

Entries(T, c) == {e \in Procs \X Fids : T[e[1]][e[2]] = c}
Blocked(b, c) == {p \in Procs : b[p] = c}

\* The references to every FCB: descriptors T and blocked calls b.
Refs(T, b) == [c \in FCBs |-> Cardinality(Entries(T, c)) + Cardinality(Blocked(b, c))]

FidTables == [Procs -> [Fids -> {NULL} \cup FCBs]]
Holders == [Procs -> {NULL} \cup FCBs]

\* References are counted in natural numbers, and a count that is not zero
\* has a reference.
LEMMA RefsCount ==
    ASSUME NEW T \in FidTables, NEW b \in Holders
    PROVE  /\ Refs(T, b) \in [FCBs -> Nat]
           /\ \A c : /\ IsFiniteSet(Entries(T, c)) /\ IsFiniteSet(Blocked(b, c))
                     /\ Cardinality(Entries(T, c)) \in Nat
                     /\ Cardinality(Blocked(b, c)) \in Nat
           /\ \A c \in FCBs : Refs(T, b)[c] > 0 <=>
                 \/ \E p \in Procs, f \in Fids : T[p][f] = c
                 \/ \E p \in Procs : b[p] = c
<1>1. IsFiniteSet(Fids) /\ IsFiniteSet(Procs) /\ IsFiniteSet(Procs \X Fids)
  <2>1. MAX_FILEID - 1 \in Int
    BY StreamsConstants
  <2>2. IsFiniteSet(Fids)
    BY <2>1, FS_Interval DEF Fids
  <2> QED  BY <2>2, StreamsConstants, FS_Product
<1>2. ASSUME NEW c
      PROVE  /\ IsFiniteSet(Entries(T, c)) /\ IsFiniteSet(Blocked(b, c))
             /\ Cardinality(Entries(T, c)) \in Nat
             /\ Cardinality(Blocked(b, c)) \in Nat
  <2>1. Entries(T, c) \in SUBSET (Procs \X Fids) /\ Blocked(b, c) \in SUBSET Procs
    BY DEF Entries, Blocked
  <2>2. IsFiniteSet(Entries(T, c)) /\ IsFiniteSet(Blocked(b, c))
    BY <1>1, <2>1, FS_Subset
  <2> QED  BY <2>2, FS_CardinalityType
<1>3. ASSUME NEW c \in FCBs
      PROVE  Refs(T, b)[c] > 0 <=> \/ \E p \in Procs, f \in Fids : T[p][f] = c
                                   \/ \E p \in Procs : b[p] = c
  <2>1. Cardinality(Entries(T, c)) > 0 <=> Entries(T, c) # {}
    BY <1>2, FS_EmptySet
  <2>2. Cardinality(Blocked(b, c)) > 0 <=> Blocked(b, c) # {}
    BY <1>2, FS_EmptySet
  <2>3. Refs(T, b)[c] = Cardinality(Entries(T, c)) + Cardinality(Blocked(b, c))
    BY DEF Refs
  <2>4. Entries(T, c) # {} <=> \E p \in Procs, f \in Fids : T[p][f] = c
    <3>1. ASSUME NEW p \in Procs, NEW f \in Fids, T[p][f] = c
          PROVE  Entries(T, c) # {}
      <4>1. <<p, f>> \in Entries(T, c)
        BY <3>1 DEF Entries
      <4> QED  BY <4>1
    <3>2. ASSUME NEW e \in Entries(T, c)
          PROVE  \E p \in Procs, f \in Fids : T[p][f] = c
      BY DEF Entries
    <3> QED  BY <3>1, <3>2
  <2>5. Blocked(b, c) # {} <=> \E p \in Procs : b[p] = c
    BY DEF Blocked
  <2> QED  BY <1>2, <2>1, <2>2, <2>3, <2>4, <2>5
<1>4. Refs(T, b) \in [FCBs -> Nat]
  BY <1>2 DEF Refs
<1> QED  BY <1>2, <1>3, <1>4

\* One descriptor leads to x, in the descriptors T or in a table o.
Enter(T, p, f, x) == [T EXCEPT ![p][f] = x]
Install(o, p, f, x) == [o EXCEPT !.FIDT[p][f] = x]

\* One reference to c has become one to x.
Moved(R, Q, c, x) ==
    \A d \in FCBs : Q[d] = R[d] - (IF c = d THEN 1 ELSE 0) + (IF x = d THEN 1 ELSE 0)

\* The descriptors after one leads to x instead.
LEMMA EnterTable ==
    ASSUME NEW T \in FidTables, NEW p \in Procs, NEW f \in Fids,
           NEW x \in {NULL} \cup FCBs, NEW U, U = Enter(T, p, f, x)
    PROVE  /\ U \in FidTables
           /\ \A q \in Procs, g \in Fids :
                 U[q][g] = IF q = p /\ g = f THEN x ELSE T[q][g]
  BY DEF FidTables, Enter

\* The references after one descriptor leads to x instead.
LEMMA EntryChanges ==
    ASSUME NEW T \in FidTables, NEW b \in Holders, NEW p \in Procs, NEW f \in Fids,
           NEW x \in {NULL} \cup FCBs, NEW U, U = Enter(T, p, f, x)
    PROVE  /\ U \in FidTables
           /\ \A q \in Procs, g \in Fids :
                 U[q][g] = IF q = p /\ g = f THEN x ELSE T[q][g]
           /\ Moved(Refs(T, b), Refs(U, b), T[p][f], x)
<1> DEFINE e == <<p, f>>
<1>1. /\ U \in FidTables
      /\ \A q \in Procs, g \in Fids : U[q][g] = IF q = p /\ g = f THEN x ELSE T[q][g]
  BY EnterTable
<1>2. ASSUME NEW c \in FCBs
      PROVE  Refs(U, b)[c] = Refs(T, b)[c] - (IF T[p][f] = c THEN 1 ELSE 0)
                                           + (IF x = c THEN 1 ELSE 0)
  <2>1. /\ IsFiniteSet(Entries(T, c)) /\ IsFiniteSet(Entries(U, c))
        /\ Cardinality(Entries(T, c)) \in Nat /\ Cardinality(Entries(U, c)) \in Nat
        /\ Cardinality(Blocked(b, c)) \in Nat
    BY <1>1, RefsCount
  <2>2. Entries(T, c) \ {e} = Entries(U, c) \ {e}
    <3>1. \A d \in Procs \X Fids : d # e => (T[d[1]][d[2]] = U[d[1]][d[2]])
      BY <1>1
    <3> QED  BY <3>1 DEF Entries
  <2>3. (e \in Entries(T, c) <=> T[p][f] = c) /\ (e \in Entries(U, c) <=> x = c)
    BY <1>1 DEF Entries
  <2>4. /\ Cardinality(Entries(T, c) \ {e})
             = Cardinality(Entries(T, c)) - (IF T[p][f] = c THEN 1 ELSE 0)
        /\ Cardinality(Entries(U, c) \ {e})
             = Cardinality(Entries(U, c)) - (IF x = c THEN 1 ELSE 0)
    <3>1. Cardinality(Entries(T, c) \ {e})
             = IF e \in Entries(T, c) THEN Cardinality(Entries(T, c)) - 1
               ELSE Cardinality(Entries(T, c))
      BY <2>1, FS_RemoveElement
    <3>2. Cardinality(Entries(U, c) \ {e})
             = IF e \in Entries(U, c) THEN Cardinality(Entries(U, c)) - 1
               ELSE Cardinality(Entries(U, c))
      BY <2>1, FS_RemoveElement
    <3> HIDE DEF e
    <3> QED  BY <2>1, <2>3, <3>1, <3>2
  <2>5. /\ Refs(T, b)[c] = Cardinality(Entries(T, c)) + Cardinality(Blocked(b, c))
        /\ Refs(U, b)[c] = Cardinality(Entries(U, c)) + Cardinality(Blocked(b, c))
    BY DEF Refs
  <2>6. Cardinality(Entries(T, c) \ {e}) = Cardinality(Entries(U, c) \ {e})
    BY <2>2
  <2> QED  BY <2>1, <2>4, <2>5, <2>6
<1> QED  BY <1>1, <1>2 DEF Moved

\* A blocked call begins or ends.
LEMMA BlockedChanges ==
    ASSUME NEW T \in FidTables, NEW b \in Holders, NEW p \in Procs,
           NEW x \in {NULL} \cup FCBs, NEW d, d = With(b, p, x)
    PROVE  /\ d \in Holders
           /\ \A q \in Procs : d[q] = IF q = p THEN x ELSE b[q]
           /\ Moved(Refs(T, b), Refs(T, d), b[p], x)
<1>1. d \in Holders /\ \A q \in Procs : d[q] = IF q = p THEN x ELSE b[q]
  BY DEF Holders, With
<1>2. ASSUME NEW c \in FCBs
      PROVE  Refs(T, d)[c] = Refs(T, b)[c] - (IF b[p] = c THEN 1 ELSE 0)
                                           + (IF x = c THEN 1 ELSE 0)
  <2>1. /\ IsFiniteSet(Blocked(b, c)) /\ IsFiniteSet(Blocked(d, c))
        /\ Cardinality(Blocked(b, c)) \in Nat /\ Cardinality(Blocked(d, c)) \in Nat
        /\ Cardinality(Entries(T, c)) \in Nat
    BY <1>1, RefsCount
  <2>2. Blocked(b, c) \ {p} = Blocked(d, c) \ {p}
    BY <1>1 DEF Blocked
  <2>3. (p \in Blocked(b, c) <=> b[p] = c) /\ (p \in Blocked(d, c) <=> x = c)
    BY <1>1 DEF Blocked
  <2>4. Cardinality(Blocked(b, c) \ {p})
             = Cardinality(Blocked(b, c)) - (IF b[p] = c THEN 1 ELSE 0)
    <3>1. Cardinality(Blocked(b, c) \ {p})
             = IF p \in Blocked(b, c) THEN Cardinality(Blocked(b, c)) - 1
               ELSE Cardinality(Blocked(b, c))
      BY <2>1, FS_RemoveElement
    <3> QED  BY <2>1, <2>3, <3>1
  <2>5. Cardinality(Blocked(d, c) \ {p})
             = Cardinality(Blocked(d, c)) - (IF x = c THEN 1 ELSE 0)
    <3>1. Cardinality(Blocked(d, c) \ {p})
             = IF p \in Blocked(d, c) THEN Cardinality(Blocked(d, c)) - 1
               ELSE Cardinality(Blocked(d, c))
      BY <2>1, FS_RemoveElement
    <3> QED  BY <2>1, <2>3, <3>1
  <2>6. /\ Refs(T, b)[c] = Cardinality(Entries(T, c)) + Cardinality(Blocked(b, c))
        /\ Refs(T, d)[c] = Cardinality(Entries(T, c)) + Cardinality(Blocked(d, c))
    BY DEF Refs
  <2>7. Cardinality(Blocked(b, c) \ {p}) = Cardinality(Blocked(d, c) \ {p})
    BY <2>2
  <2> QED  BY <2>1, <2>4, <2>5, <2>6, <2>7
<1> QED  BY <1>1, <1>2 DEF Moved

\* The sizes of disjoint sets add up.
LEMMA DisjointUnion ==
    ASSUME NEW S, NEW T, IsFiniteSet(S), IsFiniteSet(T), S \cap T = {}
    PROVE  Cardinality(S \cup T) = Cardinality(S) + Cardinality(T)
<1>1. Cardinality(S \cup T) = Cardinality(S) + Cardinality(T) - Cardinality(S \cap T)
  BY FS_Union
<1>2. Cardinality(S \cap T) = 0
  BY FS_EmptySet
<1>3. Cardinality(S) \in Nat /\ Cardinality(T) \in Nat
  BY FS_CardinalityType
<1> QED  BY <1>1, <1>2, <1>3

\* The descriptors of a process that lead to c.
FidsOf(r, c) == {f \in Fids : r[f] = c}

\* The descriptors of one process that lead to c, as entries of the table.
LEMMA OneProcess ==
    ASSUME NEW p, NEW S \in SUBSET Fids
    PROVE  /\ IsFiniteSet(S) /\ Cardinality(S) \in Nat
           /\ IsFiniteSet({p} \X S) /\ Cardinality({p} \X S) = Cardinality(S)
<1>1. IsFiniteSet(Fids)
  <2>1. MAX_FILEID - 1 \in Int
    BY StreamsConstants
  <2> QED  BY <2>1, FS_Interval DEF Fids
<1>2. IsFiniteSet(S) /\ IsFiniteSet({p}) /\ Cardinality({p}) = 1
  BY <1>1, FS_Subset, FS_Singleton
<1>3. Cardinality(S) \in Nat
  BY <1>2, FS_CardinalityType
<1>4. /\ IsFiniteSet({p} \X S)
      /\ Cardinality({p} \X S) = Cardinality({p}) * Cardinality(S)
  BY <1>2, FS_Product
<1> QED  BY <1>2, <1>3, <1>4

\* Process p gets the row r of descriptors in the place of its own.
LEMMA RowChanges ==
    ASSUME NEW T \in FidTables, NEW b \in Holders, NEW p \in Procs,
           NEW r \in [Fids -> {NULL} \cup FCBs], NEW U, U = With(T, p, r)
    PROVE  /\ U \in FidTables
           /\ \A q \in Procs, g \in Fids :
                 U[q][g] = IF q = p THEN r[g] ELSE T[q][g]
           /\ \A c \in FCBs : /\ Cardinality(FidsOf(T[p], c)) \in Nat
                              /\ Cardinality(FidsOf(r, c)) \in Nat
                              /\ Refs(U, b)[c]
                                   = Refs(T, b)[c] - Cardinality(FidsOf(T[p], c))
                                        + Cardinality(FidsOf(r, c))
                              /\ Cardinality(FidsOf(T[p], c)) <= Refs(T, b)[c]
<1>1. /\ U \in FidTables
      /\ \A q \in Procs, g \in Fids : U[q][g] = IF q = p THEN r[g] ELSE T[q][g]
  BY DEF FidTables, With
<1>2. ASSUME NEW c \in FCBs
      PROVE  /\ Cardinality(FidsOf(T[p], c)) \in Nat
             /\ Cardinality(FidsOf(r, c)) \in Nat
             /\ Refs(U, b)[c] = Refs(T, b)[c] - Cardinality(FidsOf(T[p], c))
                                              + Cardinality(FidsOf(r, c))
             /\ Cardinality(FidsOf(T[p], c)) <= Refs(T, b)[c]
  <2> DEFINE was == FidsOf(T[p], c)
             is == FidsOf(r, c)
             rest == {e \in Entries(T, c) : e[1] # p}
  <2>1. /\ was \in SUBSET Fids /\ is \in SUBSET Fids
    BY DEF FidsOf
  <2>2. /\ Entries(T, c) = rest \cup ({p} \X was)
        /\ Entries(U, c) = rest \cup ({p} \X is)
        /\ rest \cap ({p} \X was) = {} /\ rest \cap ({p} \X is) = {}
    <3>1. \A e \in Procs \X Fids : /\ e \in {p} \X was <=> e[1] = p /\ T[p][e[2]] = c
                                   /\ e \in {p} \X is <=> e[1] = p /\ r[e[2]] = c
      BY DEF FidsOf
    <3>2. \A e \in Procs \X Fids : U[e[1]][e[2]] = IF e[1] = p THEN r[e[2]] ELSE T[e[1]][e[2]]
      BY <1>1
    <3>3. ({p} \X was) \subseteq Procs \X Fids /\ ({p} \X is) \subseteq Procs \X Fids
      BY <2>1
    <3> HIDE DEF was, is
    <3> QED  BY <3>1, <3>2, <3>3 DEF Entries
  <2>3. /\ IsFiniteSet({p} \X was) /\ Cardinality({p} \X was) = Cardinality(was)
        /\ IsFiniteSet({p} \X is) /\ Cardinality({p} \X is) = Cardinality(is)
        /\ Cardinality(was) \in Nat /\ Cardinality(is) \in Nat
    BY <2>1, OneProcess
  <2>4. IsFiniteSet(Entries(T, c)) /\ Cardinality(Blocked(b, c)) \in Nat
    BY RefsCount
  <2>5. IsFiniteSet(rest) /\ Cardinality(rest) \in Nat
    <3>1. rest \in SUBSET Entries(T, c)
      OBVIOUS
    <3> QED  BY <2>4, <3>1, FS_Subset, FS_CardinalityType
  <2> HIDE DEF was, is, rest
  <2>6. Cardinality(Entries(T, c)) = Cardinality(rest) + Cardinality(was)
    <3> DEFINE W == {p} \X was
    <3>1. /\ IsFiniteSet(W) /\ Cardinality(W) = Cardinality(was)
          /\ Entries(T, c) = rest \cup W /\ rest \cap W = {}
      BY <2>2, <2>3
    <3> HIDE DEF W
    <3> QED  BY <2>3, <2>5, <3>1, DisjointUnion
  <2>7. Cardinality(Entries(U, c)) = Cardinality(rest) + Cardinality(is)
    <3> DEFINE W == {p} \X is
    <3>1. /\ IsFiniteSet(W) /\ Cardinality(W) = Cardinality(is)
          /\ Entries(U, c) = rest \cup W /\ rest \cap W = {}
      BY <2>2, <2>3
    <3> HIDE DEF W
    <3> QED  BY <2>3, <2>5, <3>1, DisjointUnion
  <2>8. /\ Refs(T, b)[c] = Cardinality(Entries(T, c)) + Cardinality(Blocked(b, c))
        /\ Refs(U, b)[c] = Cardinality(Entries(U, c)) + Cardinality(Blocked(b, c))
    BY DEF Refs
  <2>9. /\ Cardinality(was) \in Nat /\ Cardinality(is) \in Nat
        /\ Refs(U, b)[c] = Refs(T, b)[c] - Cardinality(was) + Cardinality(is)
        /\ Cardinality(was) <= Refs(T, b)[c]
    BY <2>3, <2>4, <2>5, <2>6, <2>7, <2>8
  <2> QED  BY <2>9 DEF was, is
<1> QED  BY <1>1, <1>2

-----------------------------------------------------------------------------
(* The system calls.                                                       *)

Sound(o, b) ==
    /\ o \in TableRecord /\ b \in Holders
    /\ Counted(o, Refs(o.FIDT, b))

None == <<"none", 0>>

\* What descriptor f of process p leads to.
At(o, p, f) == IF o.FIDT[p][f] = NULL THEN None ELSE o.stream[o.FIDT[p][f]]

\* The fields of a table.
LEMMA TableFields ==
    ASSUME NEW o \in TableRecord
    PROVE  /\ o.freelist \in Seq(FCBs) /\ o.refcount \in [FCBs -> Int]
           /\ o.stream \in [FCBs -> StreamSet] /\ o.FIDT \in FidTables
           /\ o.ends \in SUBSET Ends
  BY DEF TableRecord, FidTables

\* A used FCB is not free, and the counts are natural numbers.
LEMMA SoundParts ==
    ASSUME NEW o, NEW b, Sound(o, b)
    PROVE  /\ o \in TableRecord /\ b \in Holders /\ o.FIDT \in FidTables
           /\ Counted(o, Refs(o.FIDT, b)) /\ Refs(o.FIDT, b) \in [FCBs -> Nat]
           /\ \A c \in FCBs : Refs(o.FIDT, b)[c] > 0 => o.refcount[c] = Refs(o.FIDT, b)[c]
           /\ \A p \in Procs, f \in Fids :
                 /\ o.FIDT[p][f] \in {NULL} \cup FCBs
                 /\ o.FIDT[p][f] # NULL => Refs(o.FIDT, b)[o.FIDT[p][f]] > 0
           /\ \A p \in Procs : /\ b[p] \in {NULL} \cup FCBs
                               /\ b[p] # NULL => Refs(o.FIDT, b)[b[p]] > 0
<1>1. /\ o \in TableRecord /\ b \in Holders /\ o.FIDT \in FidTables
      /\ Counted(o, Refs(o.FIDT, b))
  BY TableFields DEF Sound
<1>2. /\ Refs(o.FIDT, b) \in [FCBs -> Nat]
      /\ \A c \in FCBs : Refs(o.FIDT, b)[c] > 0 <=>
                 \/ \E p \in Procs, f \in Fids : o.FIDT[p][f] = c
                 \/ \E p \in Procs : b[p] = c
  BY <1>1, RefsCount
<1>3. \A p \in Procs, f \in Fids : o.FIDT[p][f] \in {NULL} \cup FCBs
  BY <1>1 DEF FidTables
<1>4. \A p \in Procs : b[p] \in {NULL} \cup FCBs
  BY <1>1 DEF Holders
<1> QED  BY <1>1, <1>2, <1>3, <1>4 DEF Counted

\* Table n is o with one reference less to c.
Less(o, n, c) ==
    /\ n.refcount = Minus(o.refcount, c)
    /\ IF o.refcount[c] = 1
       THEN /\ n.ends = o.ends \ {o.stream[c]}
            /\ n.freelist = Append(o.freelist, c)
            /\ n.stream = [o.stream EXCEPT ![c] = NullDevice]
       ELSE n.ends = o.ends /\ n.freelist = o.freelist /\ n.stream = o.stream

\* FCB_decref()
LEMMA DecrefFields ==
    ASSUME NEW o \in TableRecord, NEW c \in FCBs, NEW n, n = FCB_decref(o, c)
    PROVE  n \in TableRecord /\ n.FIDT = o.FIDT /\ Less(o, n, c)
<1> DEFINE d == [o EXCEPT !.refcount[c] = @ - 1]
           e == [d EXCEPT !.ends = @ \ {o.stream[c]}, !.freelist = Append(@, c),
                          !.stream[c] = NullDevice]
           r == Minus(o.refcount, c)
<1>1. /\ d \in TableRecord /\ d.FIDT = o.FIDT /\ d.ends = o.ends
      /\ d.freelist = o.freelist /\ d.stream = o.stream
      /\ d.refcount = Minus(o.refcount, c)
      /\ d.refcount[c] = o.refcount[c] - 1 /\ o.refcount[c] \in Int
  <2>1. o.refcount \in [FCBs -> Int]
    BY TableFields
  <2>2. r \in [FCBs -> Int] /\ r[c] = o.refcount[c] - 1 /\ o.refcount[c] \in Int
    BY <2>1 DEF Minus
  <2>3. d = [o EXCEPT !.refcount = r]
    BY DEF Minus
  <2>4. r = Minus(o.refcount, c)
    OBVIOUS
  <2> HIDE DEF d, r
  <2>5. /\ d \in TableRecord /\ d.FIDT = o.FIDT /\ d.ends = o.ends
        /\ d.freelist = o.freelist /\ d.stream = o.stream /\ d.refcount = r
    BY <2>2, <2>3 DEF TableRecord
  <2> QED  BY <2>2, <2>4, <2>5
<1> HIDE DEF d
<1>2. /\ e \in TableRecord /\ e.FIDT = d.FIDT /\ e.ends = d.ends \ {o.stream[c]}
      /\ e.freelist = Append(d.freelist, c)
      /\ e.stream = [d.stream EXCEPT ![c] = NullDevice] /\ e.refcount = d.refcount
  <2>1. NullDevice \in StreamSet
    BY StreamKinds
  <2>2. /\ Append(d.freelist, c) \in Seq(FCBs)
        /\ [d.stream EXCEPT ![c] = NullDevice] \in [FCBs -> StreamSet]
        /\ d.ends \ {o.stream[c]} \in SUBSET Ends
    BY <1>1, <2>1, TableFields
  <2> QED  BY <1>1, <2>2 DEF TableRecord
<1> HIDE DEF e
<1>3. n = IF d.refcount[c] = 0 THEN e ELSE d
  <2>1. d.stream = o.stream
    BY <1>1
  <2> QED  BY <2>1 DEF FCB_decref, d, e
<1>4. d.stream = o.stream /\ o.refcount[c] - 1 = 0 <=> o.refcount[c] = 1
  BY <1>1
<1> QED  BY <1>1, <1>2, <1>3, <1>4 DEF Less

\* FCB_incref()
LEMMA IncrefFields ==
    ASSUME NEW o \in TableRecord, NEW c \in FCBs, NEW n, n = FCB_incref(o, c)
    PROVE  /\ n \in TableRecord /\ n.FIDT = o.FIDT /\ n.ends = o.ends
           /\ n.refcount = Plus(o.refcount, c)
           /\ n.freelist = o.freelist /\ n.stream = o.stream
<1> DEFINE r == Plus(o.refcount, c)
<1>1. o.refcount \in [FCBs -> Int]
  BY TableFields
<1>2. r \in [FCBs -> Int] /\ r = Plus(o.refcount, c)
  BY <1>1 DEF Plus
<1>3. n = [o EXCEPT !.refcount = r]
  BY DEF Plus, FCB_incref
<1> HIDE DEF r
<1>4. /\ n \in TableRecord /\ n.FIDT = o.FIDT /\ n.ends = o.ends
      /\ n.refcount = r /\ n.freelist = o.freelist /\ n.stream = o.stream
  BY <1>2, <1>3 DEF TableRecord
<1> QED  BY <1>2, <1>4

\* A table is its fields.
LEMMA SameTable ==
    ASSUME NEW n \in TableRecord, NEW k \in TableRecord, n.freelist = k.freelist,
           n.refcount = k.refcount, n.stream = k.stream, n.FIDT = k.FIDT, n.ends = k.ends
    PROVE  n = k
<1>1. n = [freelist |-> n.freelist, refcount |-> n.refcount, stream |-> n.stream,
           FIDT |-> n.FIDT, ends |-> n.ends]
  BY DEF TableRecord
<1>2. k = [freelist |-> k.freelist, refcount |-> k.refcount, stream |-> k.stream,
           FIDT |-> k.FIDT, ends |-> k.ends]
  BY DEF TableRecord
<1> QED  BY <1>1, <1>2

\* Only the last value that is entered stays.
LEMMA EnterTwice ==
    ASSUME NEW T \in FidTables, NEW p \in Procs, NEW f \in Fids, NEW x, NEW y
    PROVE  Enter(Enter(T, p, f, x), p, f, y) = Enter(T, p, f, y)
  BY DEF Enter, FidTables

\* Entering what is there already changes nothing.
LEMMA EnterSame ==
    ASSUME NEW T \in FidTables, NEW p \in Procs, NEW f \in Fids, NEW x, x = T[p][f]
    PROVE  Enter(T, p, f, x) = T
  BY DEF Enter, FidTables

\* A table with one descriptor changed.
LEMMA FidFields ==
    ASSUME NEW o \in TableRecord, NEW p \in Procs, NEW f \in Fids,
           NEW x \in {NULL} \cup FCBs, NEW n, n = Install(o, p, f, x)
    PROVE  /\ n \in TableRecord /\ n.FIDT = Enter(o.FIDT, p, f, x)
           /\ n.ends = o.ends /\ n.refcount = o.refcount
           /\ n.freelist = o.freelist /\ n.stream = o.stream
<1>1. PICK U : U = Enter(o.FIDT, p, f, x)
  OBVIOUS
<1>2. U \in FidTables
  <2>1. o.FIDT \in FidTables
    BY TableFields
  <2> QED  BY <1>1, <2>1 DEF FidTables, Enter
<1>3. n = [o EXCEPT !.FIDT = U]
  BY <1>1 DEF Install, Enter
<1>4. /\ n \in TableRecord /\ n.FIDT = U /\ n.ends = o.ends /\ n.refcount = o.refcount
      /\ n.freelist = o.freelist /\ n.stream = o.stream
  BY <1>2, <1>3 DEF TableRecord, FidTables
<1> QED  BY <1>1, <1>4

\* sys_Close() of an open descriptor.
LEMMA CloseSound ==
    ASSUME NEW o, NEW b, Sound(o, b), NEW p \in Procs, NEW f \in Fids,
           o.FIDT[p][f] # NULL, NEW n, n = sys_Close(o, p, f)
    PROVE  /\ Sound(n, b) /\ n.FIDT = Enter(o.FIDT, p, f, NULL)
           /\ Kept(o, n, Refs(n.FIDT, b))
<1>1. PICK c : c = o.FIDT[p][f]
  OBVIOUS
<1>2. PICK m : m = Install(o, p, f, NULL)
  OBVIOUS
<1>3. PICK U : U = Enter(o.FIDT, p, f, NULL)
  OBVIOUS
<1>4. PICK R : R = Refs(o.FIDT, b)
  OBVIOUS
<1>5. PICK Q : Q = Refs(U, b)
  OBVIOUS
<1>6. /\ o \in TableRecord /\ b \in Holders /\ o.FIDT \in FidTables /\ Counted(o, R)
      /\ R \in [FCBs -> Nat] /\ c \in FCBs /\ R[c] > 0 /\ o.refcount[c] = R[c]
  BY <1>1, <1>4, SoundParts
<1>7. NULL \in {NULL} \cup FCBs
  OBVIOUS
<1>8. /\ m \in TableRecord /\ m.FIDT = U /\ m.ends = o.ends /\ m.refcount = o.refcount
      /\ m.freelist = o.freelist /\ m.stream = o.stream
  BY <1>2, <1>3, <1>6, <1>7, FidFields
<1>9. n = FCB_decref(m, c)
  BY <1>1, <1>2 DEF sys_Close, Install
<1>10. /\ U \in FidTables
       /\ Moved(R, Q, c, NULL)
  <2>1. U \in FidTables /\ Moved(Refs(o.FIDT, b), Refs(U, b), o.FIDT[p][f], NULL)
    BY <1>3, <1>6, <1>7, EntryChanges
  <2> QED  BY <1>1, <1>4, <1>5, <2>1
<1>11. Q \in [FCBs -> Nat]
  BY <1>5, <1>6, <1>10, RefsCount
<1>12. Q = Minus(R, c)
  <2>1. \A d \in FCBs : R[d] \in Nat /\ d # NULL
    BY <1>6, StreamsConstants
  <2>2. \A d \in FCBs : Q[d] = IF d = c THEN R[d] - 1 ELSE R[d]
    BY <1>10, <2>1 DEF Moved
  <2> QED  BY <1>6, <1>11, <2>2 DEF Minus
<1>13. /\ n \in TableRecord /\ n.FIDT = U
       /\ n.refcount = Minus(o.refcount, c)
       /\ IF R[c] = 1
          THEN /\ n.ends = o.ends \ {o.stream[c]}
               /\ n.freelist = Append(o.freelist, c)
               /\ n.stream = [o.stream EXCEPT ![c] = NullDevice]
          ELSE n.ends = o.ends /\ n.freelist = o.freelist /\ n.stream = o.stream
  <2>1. n \in TableRecord /\ n.FIDT = m.FIDT /\ Less(m, n, c)
    BY <1>6, <1>8, <1>9, DecrefFields
  <2> QED  BY <1>6, <1>8, <2>1 DEF Less
<1>14. Counted(n, Q) /\ Kept(o, n, Q)
  BY <1>6, <1>12, <1>13, DecrefCounted
<1> QED  BY <1>3, <1>5, <1>6, <1>13, <1>14 DEF Sound

\* The end of a blocked call.
LEMMA UnblockSound ==
    ASSUME NEW o, NEW b, Sound(o, b), NEW p \in Procs, b[p] # NULL,
           NEW n, n = FCB_decref(o, b[p]), NEW e, e = With(b, p, NULL)
    PROVE  Sound(n, e) /\ n.FIDT = o.FIDT /\ Kept(o, n, Refs(n.FIDT, e))
<1>1. PICK c : c = b[p]
  OBVIOUS
<1>2. PICK R : R = Refs(o.FIDT, b)
  OBVIOUS
<1>3. PICK Q : Q = Refs(o.FIDT, e)
  OBVIOUS
<1>4. /\ o \in TableRecord /\ b \in Holders /\ o.FIDT \in FidTables /\ Counted(o, R)
      /\ R \in [FCBs -> Nat] /\ c \in FCBs /\ R[c] > 0 /\ o.refcount[c] = R[c]
  BY <1>1, <1>2, SoundParts
<1>5. NULL \in {NULL} \cup FCBs
  OBVIOUS
<1>6. /\ e \in Holders
      /\ Moved(R, Q, c, NULL)
  BY <1>1, <1>2, <1>3, <1>4, <1>5, BlockedChanges
<1>7. Q \in [FCBs -> Nat]
  BY <1>3, <1>4, <1>6, RefsCount
<1>8. Q = Minus(R, c)
  <2>1. \A d \in FCBs : R[d] \in Nat /\ d # NULL
    BY <1>4, StreamsConstants
  <2>2. \A d \in FCBs : Q[d] = IF d = c THEN R[d] - 1 ELSE R[d]
    BY <1>6, <2>1 DEF Moved
  <2> QED  BY <1>4, <1>7, <2>2 DEF Minus
<1>9. n \in TableRecord /\ n.FIDT = o.FIDT /\ Less(o, n, c)
  <2>1. n = FCB_decref(o, c)
    BY <1>1
  <2> QED  BY <1>4, <2>1, DecrefFields
<1>10. Counted(n, Q) /\ Kept(o, n, Q)
  BY <1>4, <1>8, <1>9, DecrefCounted DEF Less
<1> QED  BY <1>3, <1>6, <1>9, <1>10 DEF Sound

\* A blocked call takes a reference to the FCB of an open descriptor.
LEMMA BlockSound ==
    ASSUME NEW o, NEW b, Sound(o, b), NEW p \in Procs, NEW f \in Fids,
           b[p] = NULL, o.FIDT[p][f] # NULL,
           NEW n, n = FCB_incref(o, o.FIDT[p][f]),
           NEW e, e = With(b, p, o.FIDT[p][f])
    PROVE  Sound(n, e) /\ n.FIDT = o.FIDT /\ n.stream = o.stream
<1>1. PICK c : c = o.FIDT[p][f]
  OBVIOUS
<1>2. PICK R : R = Refs(o.FIDT, b)
  OBVIOUS
<1>3. PICK Q : Q = Refs(o.FIDT, e)
  OBVIOUS
<1>4. /\ o \in TableRecord /\ b \in Holders /\ o.FIDT \in FidTables /\ Counted(o, R)
      /\ R \in [FCBs -> Nat] /\ c \in FCBs /\ R[c] > 0
  BY <1>1, <1>2, SoundParts
<1>5. e \in Holders /\ Moved(R, Q, NULL, c)
  <2>1. e = With(b, p, c)
    BY <1>1
  <2>2. c \in {NULL} \cup FCBs
    BY <1>4
  <2>3. e \in Holders /\ Moved(Refs(o.FIDT, b), Refs(o.FIDT, e), b[p], c)
    BY <1>4, <2>1, <2>2, BlockedChanges
  <2> QED  BY <1>2, <1>3, <2>3
<1>6. Q \in [FCBs -> Nat]
  BY <1>3, <1>4, <1>5, RefsCount
<1>7. Q = Plus(R, c)
  <2>1. \A d \in FCBs : R[d] \in Nat /\ d # NULL
    BY <1>4, StreamsConstants
  <2>2. \A d \in FCBs : Q[d] = IF d = c THEN R[d] + 1 ELSE R[d]
    BY <1>5, <2>1 DEF Moved
  <2> QED  BY <1>4, <1>6, <2>2 DEF Plus
<1>8. /\ n \in TableRecord /\ n.FIDT = o.FIDT /\ n.ends = o.ends
      /\ n.refcount = Plus(o.refcount, c)
      /\ n.freelist = o.freelist /\ n.stream = o.stream
  <2>1. n = FCB_incref(o, c)
    BY <1>1
  <2> QED  BY <1>4, <2>1, IncrefFields
<1>9. Counted(n, Q)
  BY <1>4, <1>7, <1>8, IncrefCounted
<1> QED  BY <1>3, <1>5, <1>8, <1>9 DEF Sound

\* A descriptor that is free comes to lead to c, where another one leads.
LEMMA LinkSound ==
    ASSUME NEW o, NEW b, Sound(o, b), NEW p \in Procs, NEW f \in Fids,
           o.FIDT[p][f] = NULL, NEW c \in FCBs, Refs(o.FIDT, b)[c] > 0,
           NEW m, m = FCB_incref(o, c), NEW n, n = Install(m, p, f, c)
    PROVE  /\ Sound(n, b) /\ n.FIDT = Enter(o.FIDT, p, f, c)
           /\ n.stream = o.stream
<1>1. PICK U : U = Enter(o.FIDT, p, f, c)
  OBVIOUS
<1>2. PICK R : R = Refs(o.FIDT, b)
  OBVIOUS
<1>3. PICK Q : Q = Refs(U, b)
  OBVIOUS
<1>4. /\ o \in TableRecord /\ b \in Holders /\ o.FIDT \in FidTables /\ Counted(o, R)
      /\ R \in [FCBs -> Nat] /\ R[c] > 0
  BY <1>2, SoundParts
<1>5. U \in FidTables /\ Moved(R, Q, NULL, c)
  <2>1. U \in FidTables /\ Moved(Refs(o.FIDT, b), Refs(U, b), o.FIDT[p][f], c)
    BY <1>1, <1>4, EntryChanges
  <2> QED  BY <1>2, <1>3, <2>1
<1>6. Q \in [FCBs -> Nat]
  BY <1>3, <1>4, <1>5, RefsCount
<1>7. Q = Plus(R, c)
  <2>1. \A d \in FCBs : R[d] \in Nat /\ d # NULL
    BY <1>4, StreamsConstants
  <2>2. \A d \in FCBs : Q[d] = IF d = c THEN R[d] + 1 ELSE R[d]
    BY <1>5, <2>1 DEF Moved
  <2> QED  BY <1>4, <1>6, <2>2 DEF Plus
<1>8. /\ n \in TableRecord /\ n.FIDT = U /\ n.ends = o.ends
      /\ n.refcount = Plus(o.refcount, c)
      /\ n.freelist = o.freelist /\ n.stream = o.stream
  <2>2. /\ m \in TableRecord /\ m.FIDT = o.FIDT /\ m.ends = o.ends
        /\ m.refcount = Plus(o.refcount, c)
        /\ m.freelist = o.freelist /\ m.stream = o.stream
    BY <1>4, IncrefFields
  <2>3. c \in {NULL} \cup FCBs
    OBVIOUS
  <2>4. /\ n \in TableRecord /\ n.FIDT = Enter(m.FIDT, p, f, c)
        /\ n.ends = m.ends /\ n.refcount = m.refcount
        /\ n.freelist = m.freelist /\ n.stream = m.stream
    BY <2>2, <2>3, FidFields
  <2> QED  BY <1>1, <2>2, <2>4
<1>9. Counted(n, Q)
  BY <1>4, <1>7, <1>8, IncrefCounted
<1> QED  BY <1>1, <1>3, <1>4, <1>8, <1>9 DEF Sound

\* sys_Dup2() of an open descriptor.
LEMMA DupSound ==
    ASSUME NEW o, NEW b, Sound(o, b), NEW p \in Procs, NEW old \in Fids, NEW new \in Fids,
           o.FIDT[p][old] # NULL, NEW n, n = sys_Dup2(o, p, old, new)
    PROVE  /\ Sound(n, b)
           /\ n.FIDT = Enter(o.FIDT, p, new, o.FIDT[p][old])
           /\ Kept(o, n, Refs(n.FIDT, b))
<1>1. PICK c : c = o.FIDT[p][old]
  OBVIOUS
<1>2. PICK d : d = o.FIDT[p][new]
  OBVIOUS
<1>3. /\ o \in TableRecord /\ b \in Holders /\ o.FIDT \in FidTables
      /\ c \in FCBs /\ Refs(o.FIDT, b)[c] > 0 /\ d \in {NULL} \cup FCBs
  BY <1>1, <1>2, SoundParts
<1>4. CASE c = d
  <2>1. n = o
    BY <1>1, <1>2, <1>4 DEF sys_Dup2
  <2>2. o.FIDT = Enter(o.FIDT, p, new, c)
    BY <1>2, <1>3, <1>4, EnterSame
  <2> QED  BY <1>1, <2>1, <2>2 DEF Kept
<1>5. CASE c # d
  <2>1. PICK m : m = IF d = NULL THEN o ELSE sys_Close(o, p, new)
    OBVIOUS
  <2>2. /\ Sound(m, b) /\ m.FIDT = Enter(o.FIDT, p, new, NULL)
        /\ Kept(o, m, Refs(m.FIDT, b))
    <3>1. CASE d = NULL
      <4>2. o.FIDT[p][new] = NULL
        BY <1>2, <3>1
      <4>1. o.FIDT = Enter(o.FIDT, p, new, NULL)
        BY <1>3, <4>2, EnterSame
      <4> QED  BY <2>1, <3>1, <4>1 DEF Kept
    <3>2. CASE d # NULL
      BY <1>2, <2>1, <3>2, CloseSound
    <3> QED  BY <3>1, <3>2
  <2>3. /\ m.FIDT \in FidTables /\ m.FIDT[p][new] = NULL /\ m.FIDT[p][old] = c
        /\ old # new
    <3>1. old # new
      BY <1>1, <1>2, <1>5
    <3>2. NULL \in {NULL} \cup FCBs
      OBVIOUS
    <3>3. PICK U : U = Enter(o.FIDT, p, new, NULL)
      OBVIOUS
    <3>4. /\ U \in FidTables
          /\ \A q \in Procs, g \in Fids :
                 U[q][g] = IF q = p /\ g = new THEN NULL ELSE o.FIDT[q][g]
      BY <1>3, <3>2, <3>3, EntryChanges
    <3> QED  BY <1>1, <2>2, <3>1, <3>3, <3>4
  <2>4. Refs(m.FIDT, b)[c] > 0
    <3>1. m.FIDT[p][old] # NULL
      BY <1>3, <2>3, StreamsConstants
    <3> QED  BY <2>2, <2>3, <3>1, SoundParts
  <2>10. PICK i : i = FCB_incref(m, c)
    OBVIOUS
  <2>5. PICK k : k = Install(i, p, new, c)
    OBVIOUS
  <2>6. Sound(k, b) /\ k.FIDT = Enter(m.FIDT, p, new, c) /\ k.stream = m.stream
    BY <1>3, <2>2, <2>3, <2>4, <2>5, <2>10, LinkSound
  <2>8. k.FIDT = Enter(o.FIDT, p, new, c)
    BY <1>3, <2>2, <2>6, EnterTwice
  <2>7. n = k
    <3>1. n = [FCB_incref(IF d = NULL THEN o ELSE FCB_decref(o, d), c)
                 EXCEPT !.FIDT[p][new] = c]
      <4>1. c # NULL
        BY <1>3, StreamsConstants
      <4> QED  BY <1>1, <1>2, <1>5, <4>1 DEF sys_Dup2
    <3>2. PICK x : x = IF d = NULL THEN o ELSE FCB_decref(o, d)
      OBVIOUS
    <3>3. PICK y : y = FCB_incref(x, c)
      OBVIOUS
    <3>4. n = Install(y, p, new, c)
      BY <3>1, <3>2, <3>3 DEF Install
    <3>5. /\ x \in TableRecord /\ x.FIDT = o.FIDT /\ x.freelist = m.freelist
          /\ x.refcount = m.refcount /\ x.stream = m.stream /\ x.ends = m.ends
      <4>1. CASE d = NULL
        BY <1>3, <2>1, <3>2, <4>1
      <4>2. CASE d # NULL
        <5>1. PICK w : w = Install(o, p, new, NULL)
          OBVIOUS
        <5>2. NULL \in {NULL} \cup FCBs /\ d \in FCBs
          BY <1>3, <4>2
        <5>3. /\ w \in TableRecord /\ w.ends = o.ends /\ w.refcount = o.refcount
              /\ w.freelist = o.freelist /\ w.stream = o.stream
          BY <1>3, <5>1, <5>2, FidFields
        <5>4. m = FCB_decref(w, d)
          BY <1>2, <2>1, <4>2, <5>1 DEF sys_Close, Install
        <5>5. Less(w, m, d)
          BY <5>2, <5>3, <5>4, DecrefFields
        <5>6. x \in TableRecord /\ x.FIDT = o.FIDT /\ Less(o, x, d)
          BY <1>3, <3>2, <4>2, <5>2, DecrefFields
        <5> QED  BY <5>3, <5>5, <5>6 DEF Less
      <4> QED  BY <4>1, <4>2
    <3>6. /\ y \in TableRecord /\ y.FIDT = o.FIDT /\ y.ends = x.ends
          /\ y.refcount = Plus(x.refcount, c)
          /\ y.freelist = x.freelist /\ y.stream = x.stream
      BY <1>3, <3>3, <3>5, IncrefFields
    <3>7. /\ i \in TableRecord /\ i.FIDT = m.FIDT /\ i.ends = m.ends
          /\ i.refcount = Plus(m.refcount, c)
          /\ i.freelist = m.freelist /\ i.stream = m.stream
      <4>1. m \in TableRecord
        BY <2>2 DEF Sound
      <4> QED  BY <1>3, <2>10, <4>1, IncrefFields
    <3>8. c \in {NULL} \cup FCBs
      BY <1>3
    <3>9. /\ n \in TableRecord /\ n.FIDT = Enter(o.FIDT, p, new, c)
          /\ n.ends = y.ends /\ n.refcount = y.refcount
          /\ n.freelist = y.freelist /\ n.stream = y.stream
      BY <3>4, <3>6, <3>8, FidFields
    <3>10. /\ k \in TableRecord /\ k.FIDT = Enter(i.FIDT, p, new, c)
           /\ k.ends = i.ends /\ k.refcount = i.refcount
           /\ k.freelist = i.freelist /\ k.stream = i.stream
      BY <2>5, <3>7, <3>8, FidFields
    <3>11. k.FIDT = n.FIDT
      BY <2>6, <2>8, <3>9
    <3> QED  BY <3>5, <3>6, <3>7, <3>9, <3>10, <3>11, SameTable
  <2>9. \A e \in FCBs : Refs(k.FIDT, b)[e] > 0 => Refs(m.FIDT, b)[e] > 0
    <3>1. Moved(Refs(m.FIDT, b), Refs(k.FIDT, b), m.FIDT[p][new], c)
      BY <1>3, <2>3, <2>6, EntryChanges
    <3>2. Refs(m.FIDT, b) \in [FCBs -> Nat] /\ Refs(m.FIDT, b)[c] > 0
      BY <2>2, <2>4, SoundParts
    <3> QED  BY <2>3, <3>1, <3>2, StreamsConstants DEF Moved
  <2> QED  BY <1>1, <2>2, <2>6, <2>7, <2>8, <2>9 DEF Kept
<1> QED  BY <1>4, <1>5

-----------------------------------------------------------------------------
(* FCB_reserve() and what the calls that open streams do with it.          *)

BelowFid(S, f) == {g \in S : g < f}

\* The free descriptors FCB_reserve() finds are free, and the i-th one has
\* i - 1 free descriptors below it.
LEMMA LowestSpec ==
    ASSUME NEW o, NEW p, NEW num \in Nat, Cardinality(FreeFids(o, p)) >= num,
           NEW L, L = LowestFids(o, p, num)
    PROVE  /\ DOMAIN L = 1 .. num
           /\ \A i \in 1 .. num :
                 /\ L[i] \in FreeFids(o, p) /\ L[i] \in Fids /\ o.FIDT[p][L[i]] = NULL
                 /\ Cardinality(BelowFid(FreeFids(o, p), L[i])) = i - 1
           /\ \A i, j \in 1 .. num : L[i] = L[j] => i = j
<1> DEFINE S == FreeFids(o, p)
           Rank(f) == Cardinality({g \in S : g < f})
           R == {e \in Fids \X Fids : e[1] < e[2]}
<1>1. /\ S \in SUBSET Fids /\ IsFiniteSet(S) /\ Cardinality(S) \in Nat
      /\ \A x \in Fids : x \in Nat
  BY OneProcess, StreamsConstants DEF FreeFids
<1>2. \A x, y \in Fids : <<x, y>> \in R <=> x < y
  OBVIOUS
<1>3. /\ \A x, y \in S : x # y => (<<x, y>> \in R <=> ~ (<<y, x>> \in R))
      /\ \A x, y, z \in S : <<x, y>> \in R /\ <<y, z>> \in R /\ x # z => <<x, z>> \in R
  <2> HIDE DEF R
  <2> QED  BY <1>1, <1>2
<1>4. \A x \in S : RankIn(S, R, x) = Rank(x)
  <2> SUFFICES ASSUME NEW x \in S PROVE RankIn(S, R, x) = Rank(x)
    OBVIOUS
  <2>1. \A y \in S : y # x /\ <<y, x>> \in R <=> y < x
    <3> HIDE DEF R
    <3> QED  BY <1>1, <1>2
  <2>2. {y \in S \ {x} : <<y, x>> \in R} = {g \in S : g < x}
    BY <2>1
  <2> QED  BY <2>2 DEF RankIn
<1> HIDE DEF R, Rank
<1>5. \A k \in 0 .. Cardinality(S) - 1 : \E x \in S : Rank(x) = k
  <2>1. \A k \in 0 .. Cardinality(S) - 1 :
           \E x \in S : RankIn(S, R, x) = k
    BY <1>1, <1>3, Ranks
  <2> QED  BY <1>4, <2>1
<1>6. L = [i \in 1 .. num |-> CHOOSE f \in S : Rank(f) = i - 1]
  BY DEF LowestFids, Rank
<1> HIDE DEF Rank
<1>7. ASSUME NEW i \in 1 .. num PROVE L[i] \in S /\ Rank(L[i]) = i - 1
  <2>1. i - 1 \in 0 .. Cardinality(S) - 1
    BY <1>1
  <2>2. L[i] = CHOOSE f \in S : Rank(f) = i - 1
    BY <1>6
  <2>3. \E f \in S : Rank(f) = i - 1
    BY <1>5, <2>1
  <2> QED  BY ONLY <2>2, <2>3
<1>8. DOMAIN L = 1 .. num
  BY <1>6
<1>9. \A i, j \in 1 .. num : L[i] = L[j] => i = j
  <2> SUFFICES ASSUME NEW i \in 1 .. num, NEW j \in 1 .. num, L[i] = L[j] PROVE i = j
    OBVIOUS
  <2>1. i - 1 = j - 1
    BY <1>7
  <2> QED  BY <2>1
<1>10. \A x \in S : Rank(x) = Cardinality(BelowFid(FreeFids(o, p), x))
  BY DEF Rank, BelowFid
<1>11. \A x \in S : x \in Fids /\ o.FIDT[p][x] = NULL
  BY DEF FreeFids
<1> QED  BY <1>7, <1>8, <1>9, <1>10, <1>11

\* The free descriptors below one are finitely many.
LEMMA BelowFinite ==
    \A o, p, f : IsFiniteSet(BelowFid(FreeFids(o, p), f))
<1>1. IsFiniteSet(Fids)
  BY StreamsConstants, FS_Interval DEF Fids
<1>2. \A o, p, f : BelowFid(FreeFids(o, p), f) \subseteq Fids
  BY DEF BelowFid, FreeFids
<1> QED  BY <1>1, <1>2, FS_Subset

\* The lowest free descriptor, and the two lowest.
LEMMA LowestOne ==
    ASSUME NEW o, NEW p, Cardinality(FreeFids(o, p)) >= 1, NEW f, f = LowestFids(o, p, 1)[1]
    PROVE  \A g \in Fids : g < f => o.FIDT[p][g] # NULL
<1>1. PICK L : L = LowestFids(o, p, 1)
  OBVIOUS
<1>2. f = L[1] /\ 1 \in Nat /\ 1 \in 1 .. 1
  BY <1>1
<1>3. Cardinality(BelowFid(FreeFids(o, p), L[1])) = 1 - 1
  BY <1>1, <1>2, LowestSpec
<1>4. IsFiniteSet(BelowFid(FreeFids(o, p), f))
  BY BelowFinite
<1>5. BelowFid(FreeFids(o, p), f) = {}
  BY <1>2, <1>3, <1>4, FS_EmptySet
<1> QED  BY <1>5 DEF BelowFid, FreeFids

\* The two lowest free descriptors.
LEMMA LowestTwo ==
    ASSUME NEW o, NEW p, Cardinality(FreeFids(o, p)) >= 2, NEW L, L = LowestFids(o, p, 2)
    PROVE  /\ L[1] < L[2] /\ o.FIDT[p][L[2]] = NULL
           /\ \A g \in Fids : g < L[2] /\ g # L[1] => o.FIDT[p][g] # NULL
<1> DEFINE B(i) == BelowFid(FreeFids(o, p), L[i])
<1>1. /\ 2 \in Nat /\ 1 \in 1 .. 2 /\ 2 \in 1 .. 2 /\ 1 # 2
  OBVIOUS
<1>2. /\ \A i \in 1 .. 2 : /\ L[i] \in FreeFids(o, p) /\ L[i] \in Fids
                           /\ o.FIDT[p][L[i]] = NULL /\ Cardinality(B(i)) = i - 1
      /\ \A i, j \in 1 .. 2 : L[i] = L[j] => i = j
  BY <1>1, LowestSpec
<1>3. IsFiniteSet(B(1)) /\ IsFiniteSet(B(2))
  BY BelowFinite
<1>4. B(1) = {}
  BY <1>1, <1>2, <1>3, FS_EmptySet
<1>5. PICK x : B(2) = {x}
  <2>1. Cardinality(B(2)) = 1
    BY <1>1, <1>2
  <2> QED  BY ONLY <1>3, <2>1, FS_Singleton
<1>6. L[1] \in Nat /\ L[2] \in Nat /\ L[1] # L[2]
  BY <1>1, <1>2, StreamsConstants
<1>7. ~ (L[2] < L[1])
  BY <1>1, <1>2, <1>4 DEF BelowFid
<1>8. L[1] < L[2]
  BY <1>6, <1>7
<1>9. L[1] \in B(2)
  BY <1>1, <1>2, <1>8 DEF BelowFid
<1>10. ASSUME NEW g \in Fids, g < L[2], g # L[1] PROVE o.FIDT[p][g] # NULL
  BY <1>5, <1>9, <1>10 DEF BelowFid, FreeFids
<1> QED  BY <1>1, <1>2, <1>8, <1>10

\* The table o with the first free FCB at descriptor f, open for stream s.
Opened(o, p, f, s) ==
    LET c == Head(o.freelist)
    IN  [freelist |-> Tail(o.freelist), refcount |-> With(o.refcount, c, 1),
         stream |-> With(o.stream, c, s), FIDT |-> Enter(o.FIDT, p, f, c),
         ends |-> o.ends \cup ({s} \cap Ends)]

\* The fields of that table.
LEMMA OpenedFields ==
    ASSUME NEW o \in TableRecord, o.freelist # <<>>, NEW p \in Procs, NEW f \in Fids,
           NEW s \in StreamSet, NEW n, n = Opened(o, p, f, s), NEW c, c = Head(o.freelist)
    PROVE  /\ c \in FCBs /\ n \in TableRecord
           /\ n.freelist = Tail(o.freelist) /\ n.refcount = With(o.refcount, c, 1)
           /\ n.stream = With(o.stream, c, s) /\ n.FIDT = Enter(o.FIDT, p, f, c)
           /\ n.ends = o.ends \cup ({s} \cap Ends)
           /\ n.stream[c] = s /\ n.FIDT \in FidTables
<1>1. /\ o.freelist \in Seq(FCBs) /\ o.refcount \in [FCBs -> Int]
      /\ o.stream \in [FCBs -> StreamSet] /\ o.FIDT \in FidTables
      /\ o.ends \in SUBSET Ends
  BY TableFields
<1>2. c \in FCBs /\ Tail(o.freelist) \in Seq(FCBs)
  BY <1>1
<1>3. c \in {NULL} \cup FCBs
  BY <1>2
<1>4. PICK U : U = Enter(o.FIDT, p, f, c)
  OBVIOUS
<1>5. U \in FidTables
  <2>1. o.FIDT \in FidTables
    BY <1>1
  <2> QED  BY <1>3, <1>4, <2>1 DEF FidTables, Enter
<1>6. PICK r : r = With(o.refcount, c, 1)
  OBVIOUS
<1>7. PICK t : t = With(o.stream, c, s)
  OBVIOUS
<1>8. r \in [FCBs -> Int] /\ t \in [FCBs -> StreamSet] /\ t[c] = s
  BY <1>1, <1>2, <1>6, <1>7 DEF With
<1>9. n = [freelist |-> Tail(o.freelist), refcount |-> r, stream |-> t, FIDT |-> U,
           ends |-> o.ends \cup ({s} \cap Ends)]
  BY <1>4, <1>6, <1>7 DEF Opened
<1>10. /\ n.freelist = Tail(o.freelist) /\ n.refcount = r /\ n.stream = t /\ n.FIDT = U
       /\ n.ends = o.ends \cup ({s} \cap Ends)
  BY <1>9
<1>11. n \in TableRecord
  <2>1. o.ends \cup ({s} \cap Ends) \in SUBSET Ends
    BY <1>1
  <2> QED  BY <1>2, <1>5, <1>8, <1>9, <2>1 DEF TableRecord, FidTables
<1> QED  BY <1>2, <1>4, <1>5, <1>6, <1>7, <1>8, <1>10, <1>11

\* FCB_reserve() of one FCB.
LEMMA ReserveOne ==
    ASSUME NEW o \in TableRecord, NEW p \in Procs, CanReserve(o, p, 1),
           NEW L, L = LowestFids(o, p, 1), NEW c, c = Head(o.freelist),
           NEW n, n = FCB_reserve(o, p, 1)
    PROVE  /\ o.freelist # <<>> /\ L[1] \in Fids /\ o.FIDT[p][L[1]] = NULL /\ c \in FCBs
           /\ n \in TableRecord /\ n.freelist = Tail(o.freelist)
           /\ n.refcount = With(o.refcount, c, 1) /\ n.stream = o.stream
           /\ n.FIDT = Enter(o.FIDT, p, L[1], c) /\ n.ends = o.ends
           /\ n.FIDT[p][L[1]] = c
<1>1. /\ o.freelist \in Seq(FCBs) /\ o.refcount \in [FCBs -> Int]
      /\ o.stream \in [FCBs -> StreamSet] /\ o.FIDT \in FidTables
      /\ o.ends \in SUBSET Ends
  BY TableFields
<1>2. /\ Cardinality(FreeFids(o, p)) >= 1 /\ Len(o.freelist) >= 1
  BY DEF CanReserve
<1>3. /\ DOMAIN L = 1 .. 1
      /\ \A i \in 1 .. 1 : L[i] \in Fids /\ o.FIDT[p][L[i]] = NULL
  <2>1. PICK num \in Nat : num = 1
    OBVIOUS
  <2>2. L = LowestFids(o, p, num) /\ Cardinality(FreeFids(o, p)) >= num
    BY <1>2, <2>1
  <2>3. /\ DOMAIN L = 1 .. num
        /\ \A i \in 1 .. num : L[i] \in Fids /\ o.FIDT[p][L[i]] = NULL
    BY <2>2, LowestSpec
  <2> QED  BY <2>1, <2>3
<1>4. L[1] \in Fids /\ o.FIDT[p][L[1]] = NULL
  BY <1>3
<1>5. PICK k : k = L[1]
  OBVIOUS
<1>6. /\ o.freelist # <<>> /\ c \in FCBs /\ Len(o.freelist) \in Nat
      /\ Tail(o.freelist) \in Seq(FCBs)
      /\ SubSeq(o.freelist, 2, Len(o.freelist)) = Tail(o.freelist)
  <2>1. o.freelist # <<>> /\ Len(o.freelist) \in Nat
    BY <1>1, <1>2
  <2>2. Head(o.freelist) \in FCBs /\ Tail(o.freelist) \in Seq(FCBs)
    BY <1>1, <2>1
  <2>3. SubSeq(o.freelist, 2, Len(o.freelist)) = Tail(o.freelist)
    BY <1>1, <2>1, <2>2
  <2> QED  BY <2>1, <2>2, <2>3
<1>7. PICK a : a = Acquired(o, 1)
  OBVIOUS
<1>8. a[1] = c /\ ToSet(a) = {c}
  <2>1. /\ a = SubSeq(o.freelist, 1, 1) /\ Len(a) = 1 /\ a[1] = Head(o.freelist)
        /\ DOMAIN a = 1 .. 1
    BY <1>1, <1>2, <1>7 DEF Acquired
  <2>2. ToSet(a) = {a[i] : i \in 1 .. 1}
    BY <2>1 DEF ToSet
  <2> QED  BY <2>1, <2>2
<1>9. ToSet(L) = {k}
  <2>1. DOMAIN L = 1 .. 1
    BY <1>3
  <2> QED  BY <1>5, <2>1 DEF ToSet
<1>10. PICK r : r = With(o.refcount, c, 1)
  OBVIOUS
<1>11. r \in [FCBs -> Int] /\ [d \in FCBs |-> IF d \in ToSet(a) THEN 1 ELSE o.refcount[d]] = r
  <2>1. r \in [FCBs -> Int]
    BY <1>1, <1>6, <1>10 DEF With
  <2>2. \A d \in FCBs : r[d] = IF d \in ToSet(a) THEN 1 ELSE o.refcount[d]
    BY <1>1, <1>6, <1>8, <1>10 DEF With
  <2> QED  BY <2>1, <2>2
<1>12. PICK U : U = Enter(o.FIDT, p, k, c)
  OBVIOUS
<1>13. PICK w : w = [f \in Fids |-> IF f \in ToSet(L)
                          THEN a[CHOOSE i \in 1 .. 1 : L[i] = f] ELSE o.FIDT[p][f]]
  OBVIOUS
<1>14. [o.FIDT EXCEPT ![p] = w] = U /\ U \in FidTables /\ U[p][k] = c
  <2>1. (CHOOSE i \in 1 .. 1 : L[i] = k) = 1
    BY <1>5
  <2>2. w = [f \in Fids |-> IF f = k THEN c ELSE o.FIDT[p][f]]
    BY <1>8, <1>9, <1>13, <2>1
  <2>3. [o.FIDT EXCEPT ![p] = w] = U
    BY <1>1, <1>12, <2>2 DEF Enter, FidTables
  <2>4. U \in FidTables /\ U[p][k] = c
    <3>1. c \in {NULL} \cup FCBs
      BY <1>6
    <3> QED  BY <1>1, <1>4, <1>5, <1>12, <3>1, EntryChanges DEF Enter, FidTables
  <2> QED  BY <2>3, <2>4
<1>15. n = [o EXCEPT !.freelist = SubSeq(o.freelist, 1 + 1, Len(o.freelist)),
                     !.refcount = [d \in FCBs |-> IF d \in ToSet(a) THEN 1 ELSE o.refcount[d]],
                     !.FIDT[p] = w]
  BY <1>7, <1>13 DEF FCB_reserve
<1>16. n = [o EXCEPT !.freelist = Tail(o.freelist), !.refcount = r, !.FIDT = U]
  <2>1. 1 + 1 = 2
    OBVIOUS
  <2> QED  BY <1>6, <1>11, <1>14, <1>15, <2>1
<1>17. /\ n \in TableRecord /\ n.freelist = Tail(o.freelist) /\ n.refcount = r
       /\ n.stream = o.stream /\ n.FIDT = U /\ n.ends = o.ends
  BY <1>1, <1>6, <1>11, <1>14, <1>16 DEF TableRecord, FidTables
<1> QED  BY <1>4, <1>5, <1>6, <1>10, <1>12, <1>14, <1>17

\* FCB_reserve() of two FCBs.
LEMMA ReserveTwo ==
    ASSUME NEW o \in TableRecord, NEW p \in Procs, CanReserve(o, p, 2), Distinct(o.freelist),
           NEW L, L = LowestFids(o, p, 2), NEW c, c = Head(o.freelist),
           NEW e, e = Head(Tail(o.freelist)), NEW n, n = FCB_reserve(o, p, 2)
    PROVE  /\ o.freelist # <<>> /\ Tail(o.freelist) # <<>> /\ c \in FCBs /\ e \in FCBs
           /\ L[1] \in Fids /\ o.FIDT[p][L[1]] = NULL
           /\ L[2] \in Fids /\ o.FIDT[p][L[2]] = NULL /\ L[1] # L[2]
           /\ n \in TableRecord /\ n.freelist = Tail(Tail(o.freelist))
           /\ n.refcount = With(With(o.refcount, c, 1), e, 1)
           /\ n.stream = o.stream /\ n.ends = o.ends
           /\ n.FIDT = Enter(Enter(o.FIDT, p, L[1], c), p, L[2], e)
           /\ n.FIDT[p][L[1]] = c /\ n.FIDT[p][L[2]] = e
<1>1. /\ o.freelist \in Seq(FCBs) /\ o.refcount \in [FCBs -> Int]
      /\ o.stream \in [FCBs -> StreamSet] /\ o.FIDT \in FidTables
      /\ o.ends \in SUBSET Ends
  BY TableFields
<1>2. /\ Cardinality(FreeFids(o, p)) >= 2 /\ Len(o.freelist) >= 2
  BY DEF CanReserve
<1>3. /\ DOMAIN L = 1 .. 2 /\ L[1] # L[2]
      /\ \A i \in 1 .. 2 : L[i] \in Fids /\ o.FIDT[p][L[i]] = NULL
  <2>1. PICK num \in Nat : num = 2
    OBVIOUS
  <2>2. L = LowestFids(o, p, num) /\ Cardinality(FreeFids(o, p)) >= num
    BY <1>2, <2>1
  <2>3. /\ DOMAIN L = 1 .. num
        /\ \A i \in 1 .. num : L[i] \in Fids /\ o.FIDT[p][L[i]] = NULL
        /\ \A i, j \in 1 .. num : L[i] = L[j] => i = j
    BY <2>2, LowestSpec, SMTT(30)
  <2> QED  BY <2>1, <2>3
<1>5. PICK k : k = L[1]
  OBVIOUS
<1>6. PICK l : l = L[2]
  OBVIOUS
<1>7. k \in Fids /\ l \in Fids /\ k # l /\ o.FIDT[p][k] = NULL /\ o.FIDT[p][l] = NULL
  BY <1>3, <1>5, <1>6
<1>8. /\ o.freelist # <<>> /\ Tail(o.freelist) # <<>> /\ c \in FCBs /\ e \in FCBs
      /\ c = o.freelist[1] /\ e = o.freelist[2]
      /\ Len(o.freelist) \in Nat /\ Tail(Tail(o.freelist)) \in Seq(FCBs)
      /\ SubSeq(o.freelist, 3, Len(o.freelist)) = Tail(Tail(o.freelist))
  <2>1. o.freelist # <<>> /\ Len(o.freelist) \in Nat
    BY <1>1, <1>2
  <2>2. PICK t : t = Tail(o.freelist)
    OBVIOUS
  <2>3. /\ t \in Seq(FCBs) /\ Len(t) = Len(o.freelist) - 1
        /\ \A i \in 1 .. Len(t) : t[i] = o.freelist[i + 1]
        /\ Head(o.freelist) = o.freelist[1] /\ Head(o.freelist) \in FCBs
    BY <1>1, <2>1, <2>2
  <2>4. t # <<>>
    BY <1>2, <2>1, <2>3
  <2>5. PICK u : u = Tail(t)
    OBVIOUS
  <2>6. /\ u \in Seq(FCBs) /\ Len(u) = Len(t) - 1
        /\ \A i \in 1 .. Len(u) : u[i] = t[i + 1]
        /\ Head(t) = t[1] /\ Head(t) \in FCBs
    BY <2>3, <2>4, <2>5
  <2>7. PICK s : s = SubSeq(o.freelist, 3, Len(o.freelist))
    OBVIOUS
  <2>8. /\ s \in Seq(FCBs) /\ Len(s) = Len(o.freelist) - 2
        /\ \A i \in 1 .. Len(s) : s[i] = o.freelist[i + 2]
    BY <1>1, <1>2, <2>1, <2>7
  <2>9. s = u
    <3>1. Len(s) = Len(u) /\ Len(u) \in Nat
      BY <2>1, <2>3, <2>6, <2>8
    <3>2. \A i \in 1 .. Len(u) : s[i] = u[i]
      <4> SUFFICES ASSUME NEW i \in 1 .. Len(u) PROVE s[i] = u[i]
        OBVIOUS
      <4>1. u[i] = t[i + 1] /\ i + 1 \in 1 .. Len(t)
        BY <1>2, <2>1, <2>3, <2>6, SMTT(30)
      <4>2. t[i + 1] = o.freelist[(i + 1) + 1]
        BY <2>3, <4>1
      <4>3. s[i] = o.freelist[i + 2] /\ (i + 1) + 1 = i + 2
        BY <2>8, <3>1
      <4> QED  BY <4>1, <4>2, <4>3
    <3> QED  BY <2>6, <2>8, <3>1, <3>2, SMTT(30)
  <2>10. t[1] = o.freelist[2]
    <3>1. 1 \in 1 .. Len(t) /\ 1 + 1 = 2
      BY <1>2, <2>1, <2>3
    <3> QED  BY <2>3, <3>1
  <2> QED  BY <2>1, <2>2, <2>3, <2>4, <2>5, <2>6, <2>7, <2>9, <2>10
<1>9. c # e
  <2>1. 1 \in 1 .. Len(o.freelist) /\ 2 \in 1 .. Len(o.freelist)
    BY <1>2, <1>8
  <2> QED  BY <1>8, <2>1, SMTT(30) DEF Distinct
<1>10. PICK a : a = Acquired(o, 2)
  OBVIOUS
<1>11. a[1] = c /\ a[2] = e /\ ToSet(a) = {c, e}
  <2>1. /\ a = SubSeq(o.freelist, 1, 2) /\ DOMAIN a = 1 .. 2
        /\ a[1] = o.freelist[1] /\ a[2] = o.freelist[2]
    BY <1>1, <1>2, <1>8, <1>10 DEF Acquired
  <2>2. ToSet(a) = {a[i] : i \in 1 .. 2} /\ 1 .. 2 = {1, 2}
    BY <2>1 DEF ToSet
  <2> QED  BY <1>8, <2>1, <2>2
<1>12. ToSet(L) = {k, l}
  <2>1. ToSet(L) = {L[i] : i \in 1 .. 2} /\ 1 .. 2 = {1, 2}
    BY <1>3 DEF ToSet
  <2> QED  BY <1>5, <1>6, <2>1
<1>13. PICK r : r = With(With(o.refcount, c, 1), e, 1)
  OBVIOUS
<1>14. r \in [FCBs -> Int] /\ [d \in FCBs |-> IF d \in ToSet(a) THEN 1 ELSE o.refcount[d]] = r
  <2>0. PICK m : m = With(o.refcount, c, 1)
    OBVIOUS
  <2>3. m \in [FCBs -> Int] /\ \A d \in FCBs : m[d] = IF d = c THEN 1 ELSE o.refcount[d]
    BY <1>1, <1>8, <2>0 DEF With
  <2>4. r = With(m, e, 1)
    BY <1>13, <2>0
  <2>1. r \in [FCBs -> Int]
    BY <1>8, <2>3, <2>4 DEF With
  <2>2. \A d \in FCBs : r[d] = IF d \in ToSet(a) THEN 1 ELSE o.refcount[d]
    BY <1>8, <1>11, <2>3, <2>4 DEF With
  <2> QED  BY <2>1, <2>2
<1>15. PICK V : V = Enter(o.FIDT, p, k, c)
  OBVIOUS
<1>16. PICK U : U = Enter(V, p, l, e)
  OBVIOUS
<1>17. PICK w : w = [f \in Fids |-> IF f \in ToSet(L)
                          THEN a[CHOOSE i \in 1 .. 2 : L[i] = f] ELSE o.FIDT[p][f]]
  OBVIOUS
<1>18. [o.FIDT EXCEPT ![p] = w] = U /\ U \in FidTables /\ U[p][k] = c /\ U[p][l] = e
  <2>1. /\ (CHOOSE i \in 1 .. 2 : L[i] = k) = 1
        /\ (CHOOSE i \in 1 .. 2 : L[i] = l) = 2
    <3>1. \A i \in 1 .. 2 : i = 1 \/ i = 2
      OBVIOUS
    <3>2. \A i \in 1 .. 2 : /\ L[i] = k <=> i = 1
                            /\ L[i] = l <=> i = 2
      BY <1>3, <1>5, <1>6, <3>1
    <3> QED  BY <3>2
  <2>2. \A f \in Fids : w[f] = IF f = l THEN e ELSE IF f = k THEN c ELSE o.FIDT[p][f]
    BY <1>7, <1>11, <1>12, <1>17, <2>1
  <2>3. V \in FidTables /\ \A q \in Procs, g \in Fids :
                 V[q][g] = IF q = p /\ g = k THEN c ELSE o.FIDT[q][g]
    <3>1. c \in {NULL} \cup FCBs
      BY <1>8
    <3>2. p \in Procs /\ k \in Fids /\ o.FIDT \in FidTables
      BY <1>1, <1>7
    <3> QED  BY ONLY <1>15, <3>1, <3>2, EnterTable
  <2>4. U \in FidTables /\ \A q \in Procs, g \in Fids :
                 U[q][g] = IF q = p /\ g = l THEN e ELSE V[q][g]
    <3>1. e \in {NULL} \cup FCBs
      BY <1>8
    <3>2. p \in Procs /\ l \in Fids /\ V \in FidTables
      BY <1>7, <2>3
    <3> QED  BY ONLY <1>16, <3>1, <3>2, EnterTable
  <2>5. w \in [Fids -> {NULL} \cup FCBs]
    <3>1. \A f \in Fids : w[f] \in {NULL} \cup FCBs
      <4>1. \A f \in Fids : o.FIDT[p][f] \in {NULL} \cup FCBs
        BY <1>1 DEF FidTables
      <4> QED  BY <1>8, <2>2, <4>1
    <3> QED  BY <1>17, <3>1
  <2>6. [o.FIDT EXCEPT ![p] = w] \in FidTables
    BY <1>1, <2>5 DEF FidTables
  <2>7. \A q \in Procs : [o.FIDT EXCEPT ![p] = w][q] = U[q]
    <3> SUFFICES ASSUME NEW q \in Procs PROVE [o.FIDT EXCEPT ![p] = w][q] = U[q]
      OBVIOUS
    <3>1. [o.FIDT EXCEPT ![p] = w][q] = IF q = p THEN w ELSE o.FIDT[q]
      BY <1>1 DEF FidTables
    <3>2. U[q] \in [Fids -> {NULL} \cup FCBs] /\ o.FIDT[q] \in [Fids -> {NULL} \cup FCBs]
      BY <1>1, <2>4 DEF FidTables
    <3>3. \A g \in Fids : U[q][g] = IF q = p THEN w[g] ELSE o.FIDT[q][g]
      BY <2>2, <2>3, <2>4, ZenonT(40)
    <3> QED  BY <2>5, <3>1, <3>2, <3>3
  <2> QED  BY <1>7, <2>3, <2>4, <2>6, <2>7 DEF FidTables
<1>19. n = [o EXCEPT !.freelist = SubSeq(o.freelist, 2 + 1, Len(o.freelist)),
                     !.refcount = [d \in FCBs |-> IF d \in ToSet(a) THEN 1 ELSE o.refcount[d]],
                     !.FIDT[p] = w]
  BY <1>10, <1>17 DEF FCB_reserve
<1>20. n = [o EXCEPT !.freelist = Tail(Tail(o.freelist)), !.refcount = r, !.FIDT = U]
  <2>1. 2 + 1 = 3
    OBVIOUS
  <2> QED  BY <1>8, <1>14, <1>18, <1>19, <2>1
<1>21. /\ n \in TableRecord /\ n.freelist = Tail(Tail(o.freelist)) /\ n.refcount = r
       /\ n.stream = o.stream /\ n.FIDT = U /\ n.ends = o.ends
  BY <1>1, <1>8, <1>14, <1>18, <1>20 DEF TableRecord, FidTables
<1> QED  BY <1>5, <1>6, <1>7, <1>8, <1>13, <1>15, <1>16, <1>18, <1>21

\* A free FCB becomes used at a free descriptor.
LEMMA OpenSound ==
    ASSUME NEW o, NEW b, Sound(o, b), NEW p \in Procs, NEW f \in Fids, o.FIDT[p][f] = NULL,
           o.freelist # <<>>, NEW s \in StreamSet, s \notin o.ends,
           NEW n, n = Opened(o, p, f, s), NEW c, c = Head(o.freelist)
    PROVE  /\ Sound(n, b) /\ Kept(o, n, Refs(o.FIDT, b))
           /\ c \in FCBs /\ Refs(o.FIDT, b)[c] = 0
<1>1. PICK R : R = Refs(o.FIDT, b)
  OBVIOUS
<1>2. /\ o \in TableRecord /\ b \in Holders /\ o.FIDT \in FidTables /\ Counted(o, R)
      /\ R \in [FCBs -> Nat]
  BY <1>1, SoundParts
<1>3. PICK U : U = Enter(o.FIDT, p, f, c)
  OBVIOUS
<1>4. PICK Q : Q = Refs(U, b)
  OBVIOUS
<1>5. /\ c \in FCBs /\ n \in TableRecord
      /\ n.freelist = Tail(o.freelist) /\ n.refcount = With(o.refcount, c, 1)
      /\ n.stream = With(o.stream, c, s) /\ n.FIDT = U
      /\ n.ends = o.ends \cup ({s} \cap Ends)
  BY <1>2, <1>3, OpenedFields
<1>6. R[c] = 0
  <2>1. o.freelist \in Seq(FCBs) /\ Distinct(o.freelist)
    BY <1>2, TableFields DEF Counted
  <2>2. c \in Members(o.freelist)
    BY <2>1, TailMembers
  <2> QED  BY <1>2, <1>5, <2>2 DEF Counted
<1>7. U \in FidTables /\ Moved(R, Q, NULL, c)
  <2>1. c \in {NULL} \cup FCBs
    BY <1>5
  <2>2. U \in FidTables /\ Moved(Refs(o.FIDT, b), Refs(U, b), o.FIDT[p][f], c)
    BY <1>2, <1>3, <2>1, EntryChanges
  <2> QED  BY <1>1, <1>4, <2>2
<1>8. Q \in [FCBs -> Nat]
  BY <1>2, <1>4, <1>7, RefsCount
<1>9. Q = With(R, c, 1)
  <2>1. \A d \in FCBs : R[d] \in Nat /\ d # NULL
    BY <1>2, StreamsConstants
  <2>2. \A d \in FCBs : Q[d] = IF d = c THEN 1 ELSE R[d]
    BY <1>6, <1>7, <2>1 DEF Moved
  <2> QED  BY <1>2, <1>5, <1>8, <2>2 DEF With
<1>10. Counted(n, Q) /\ Kept(o, n, R)
  BY <1>2, <1>5, <1>9, OpenCounted
<1> QED  BY <1>1, <1>2, <1>4, <1>5, <1>6, <1>10 DEF Sound

\* FCB_reserve() that fails.
LEMMA ReserveFails ==
    ASSUME NEW o, NEW b, Sound(o, b), NEW p, NEW num, NEW n, n = FCB_reserve_fails(o, p, num)
    PROVE  /\ Sound(n, b) /\ n.FIDT = o.FIDT /\ n.stream = o.stream
<1>1. PICK R : R = Refs(o.FIDT, b)
  OBVIOUS
<1>2. /\ o \in TableRecord /\ b \in Holders /\ Counted(o, R) /\ R \in [FCBs -> Nat]
  BY <1>1, SoundParts
<1>3. CASE n = o
  BY <1>3
<1>4. CASE n # o
  <2>1. PICK L : L = Reverse(o.freelist)
    OBVIOUS
  <2>2. PICK r : r = [c \in FCBs |-> IF c \in ToSet(o.freelist) THEN 0 ELSE o.refcount[c]]
    OBVIOUS
  <2>3. n = [o EXCEPT !.freelist = L, !.refcount = r]
    BY <1>4, <2>1, <2>2 DEF FCB_reserve_fails
  <2>4. o.freelist \in Seq(FCBs) /\ Len(o.freelist) \in Nat /\ o.refcount \in [FCBs -> Int]
    BY <1>2, TableFields
  <2>5. /\ L \in Seq(FCBs) /\ Len(L) = Len(o.freelist)
        /\ \A i \in 1 .. Len(L) : L[i] = o.freelist[(Len(o.freelist) - i) + 1]
    <3>1. L = [i \in 1 .. Len(o.freelist) |-> o.freelist[(Len(o.freelist) - i) + 1]]
      BY <2>1 DEF Reverse
    <3>2. \A i \in 1 .. Len(o.freelist) : o.freelist[(Len(o.freelist) - i) + 1] \in FCBs
      BY <2>4
    <3> QED  BY <2>4, <3>1, <3>2
  <2>6. Members(L) = Members(o.freelist)
    <3>1. ASSUME NEW i \in 1 .. Len(L) PROVE L[i] \in Members(o.freelist)
      <4>1. (Len(o.freelist) - i) + 1 \in 1 .. Len(o.freelist)
        BY <2>4, <2>5
      <4> QED  BY <2>5, <4>1 DEF Members
    <3>2. ASSUME NEW i \in 1 .. Len(o.freelist) PROVE o.freelist[i] \in Members(L)
      <4>1. PICK j : j = (Len(o.freelist) - i) + 1
        OBVIOUS
      <4>2. j \in 1 .. Len(L) /\ (Len(o.freelist) - j) + 1 = i
        BY <2>4, <2>5, <4>1
      <4>3. L[j] = o.freelist[i]
        BY <2>5, <4>2
      <4> QED  BY <4>2, <4>3 DEF Members
    <3> QED  BY <3>1, <3>2 DEF Members
  <2>7. Distinct(L)
    <3>1. Distinct(o.freelist)
      BY <1>2 DEF Counted
    <3> SUFFICES ASSUME NEW i \in 1 .. Len(L), NEW j \in 1 .. Len(L), L[i] = L[j]
                 PROVE  i = j
      BY DEF Distinct
    <3>2. /\ (Len(o.freelist) - i) + 1 \in 1 .. Len(o.freelist)
          /\ (Len(o.freelist) - j) + 1 \in 1 .. Len(o.freelist)
      BY <2>4, <2>5
    <3>3. (Len(o.freelist) - i) + 1 = (Len(o.freelist) - j) + 1
      BY <2>5, <3>1, <3>2 DEF Distinct
    <3> QED  BY <2>4, <2>5, <3>3
  <2>8. r \in [FCBs -> Int]
    <3>1. \A c \in FCBs : r[c] \in Int
      BY <2>2, <2>4
    <3> QED  BY <2>2, <3>1
  <2>9. /\ n \in TableRecord /\ n.freelist = L /\ n.refcount = r /\ n.stream = o.stream
        /\ n.FIDT = o.FIDT /\ n.ends = o.ends
    BY <1>2, <2>3, <2>5, <2>8 DEF TableRecord
  <2>10. \A c \in FCBs : R[c] > 0 => r[c] = o.refcount[c]
    <3>1. ToSet(o.freelist) = Members(o.freelist)
      BY <2>4 DEF ToSet, Members
    <3> QED  BY <1>2, <2>2, <3>1 DEF Counted
  <2>11. Counted(n, R)
    BY <1>2, <2>6, <2>7, <2>9, <2>10, FreeListCounted
  <2> QED  BY <1>1, <1>2, <2>9, <2>11 DEF Sound
<1> QED  BY <1>3, <1>4

\* open_stream() of a device that is found.
LEMMA OpenStream ==
    ASSUME NEW o \in TableRecord, NEW p \in Procs, CanReserve(o, p, 1),
           NEW f, f = LowestFids(o, p, 1)[1], NEW s \in StreamSet, s \notin Ends,
           NEW found, found = TRUE, NEW n, n = open_stream(o, p, s, found)
    PROVE  /\ n = Opened(o, p, f, s) /\ f \in Fids /\ o.FIDT[p][f] = NULL
           /\ o.freelist # <<>>
<1>1. PICK r : r = FCB_reserve(o, p, 1)
  OBVIOUS
<1>2. PICK c : c = Head(o.freelist)
  OBVIOUS
<1>3. /\ o.freelist # <<>> /\ f \in Fids /\ o.FIDT[p][f] = NULL /\ c \in FCBs
      /\ r \in TableRecord /\ r.freelist = Tail(o.freelist)
      /\ r.refcount = With(o.refcount, c, 1) /\ r.stream = o.stream
      /\ r.FIDT = Enter(o.FIDT, p, f, c) /\ r.ends = o.ends
      /\ r.FIDT[p][f] = c
  BY <1>1, <1>2, ReserveOne
<1>4. n = [r EXCEPT !.stream[c] = s]
  BY <1>1, <1>3 DEF open_stream
<1>5. PICK t : t = With(r.stream, c, s)
  OBVIOUS
<1>6. t \in [FCBs -> StreamSet]
  <2>1. r.stream \in [FCBs -> StreamSet]
    BY <1>3, TableFields
  <2> QED  BY <1>5, <2>1 DEF With
<1>7. n = [r EXCEPT !.stream = t]
  BY <1>4, <1>5 DEF With
<1>8. /\ n \in TableRecord /\ n.freelist = r.freelist /\ n.refcount = r.refcount
      /\ n.stream = t /\ n.FIDT = r.FIDT /\ n.ends = r.ends
  BY <1>3, <1>6, <1>7 DEF TableRecord
<1>9. PICK k : k = Opened(o, p, f, s)
  OBVIOUS
<1>10. /\ k \in TableRecord
       /\ k.freelist = Tail(o.freelist) /\ k.refcount = With(o.refcount, c, 1)
       /\ k.stream = With(o.stream, c, s) /\ k.FIDT = Enter(o.FIDT, p, f, c)
       /\ k.ends = o.ends \cup ({s} \cap Ends)
  BY <1>2, <1>3, <1>9, OpenedFields
<1>11. n = k
  <2>1. k.ends = o.ends
    BY <1>10
  <2>2. /\ n.freelist = k.freelist /\ n.refcount = k.refcount /\ n.stream = k.stream
        /\ n.FIDT = k.FIDT /\ n.ends = k.ends
    BY <1>3, <1>5, <1>8, <1>10, <2>1
  <2> QED  BY <1>8, <1>10, <2>2, SameTable
<1> QED  BY <1>3, <1>9, <1>11

\* open_stream() of a device that is not found.
LEMMA OpenNotFound ==
    ASSUME NEW o, NEW b, Sound(o, b), NEW p \in Procs, NEW s,
           CanReserve(o, p, 1), NEW n, n = open_stream(o, p, s, FALSE)
    PROVE  Sound(n, b) /\ n.FIDT = o.FIDT /\ n.stream = o.stream
<1>1. PICK R : R = Refs(o.FIDT, b)
  OBVIOUS
<1>2. /\ o \in TableRecord /\ b \in Holders /\ Counted(o, R) /\ R \in [FCBs -> Nat]
      /\ o.FIDT \in FidTables
  BY <1>1, SoundParts
<1>3. PICK r : r = FCB_reserve(o, p, 1)
  OBVIOUS
<1>4. PICK c : c = Head(o.freelist)
  OBVIOUS
<1>5. PICK f : f = LowestFids(o, p, 1)[1]
  OBVIOUS
<1>6. /\ o.freelist # <<>> /\ f \in Fids /\ o.FIDT[p][f] = NULL /\ c \in FCBs
      /\ r \in TableRecord /\ r.freelist = Tail(o.freelist)
      /\ r.refcount = With(o.refcount, c, 1) /\ r.stream = o.stream
      /\ r.FIDT = Enter(o.FIDT, p, f, c) /\ r.ends = o.ends
      /\ r.FIDT[p][f] = c
  BY <1>2, <1>3, <1>4, <1>5, ReserveOne
<1>7. n = [r EXCEPT !.FIDT[p][f] = NULL, !.freelist = Append(@, c)]
  BY <1>3, <1>5, <1>6 DEF open_stream, FCB_unreserve
<1>8. PICK U : U = Enter(r.FIDT, p, f, NULL)
  OBVIOUS
<1>9. U = o.FIDT
  <2>1. U = Enter(Enter(o.FIDT, p, f, c), p, f, NULL)
    BY <1>6, <1>8
  <2>2. U = Enter(o.FIDT, p, f, NULL)
    BY <1>2, <1>6, <2>1, EnterTwice
  <2> QED  BY <1>2, <1>6, <2>2, EnterSame
<1>10. PICK L : L = Append(r.freelist, c)
  OBVIOUS
<1>11. L \in Seq(FCBs) /\ Members(L) = Members(o.freelist) /\ Distinct(L)
  <2>1. o.freelist \in Seq(FCBs) /\ Distinct(o.freelist)
    BY <1>2, TableFields DEF Counted
  <2>2. /\ c \in Members(o.freelist) /\ Tail(o.freelist) \in Seq(FCBs)
        /\ Members(Tail(o.freelist)) = Members(o.freelist) \ {c}
        /\ Distinct(Tail(o.freelist))
    BY <1>4, <1>6, <2>1, TailMembers
  <2>3. PICK t : t = Tail(o.freelist)
    OBVIOUS
  <2>4. /\ Append(t, c) \in Seq(FCBs) /\ Members(Append(t, c)) = Members(t) \cup {c}
        /\ Distinct(Append(t, c))
    <3>1. t \in Seq(FCBs) /\ Distinct(t) /\ c \notin Members(t)
      BY <2>2, <2>3
    <3>2. c \in FCBs
      BY <1>6
    <3> QED  BY ONLY <3>1, <3>2, AppendMembers
  <2> QED  BY <1>6, <1>10, <2>2, <2>3, <2>4
<1>12. n = [r EXCEPT !.FIDT = U, !.freelist = L]
  BY <1>7, <1>8, <1>10 DEF Enter
<1>13. /\ n \in TableRecord /\ n.freelist = L /\ n.refcount = r.refcount
       /\ n.stream = o.stream /\ n.FIDT = o.FIDT /\ n.ends = o.ends
  BY <1>2, <1>6, <1>9, <1>11, <1>12 DEF TableRecord, FidTables
<1>14. \A e \in FCBs : R[e] > 0 => n.refcount[e] = o.refcount[e]
  <2>1. R[c] = 0
    <3>1. o.freelist \in Seq(FCBs) /\ Distinct(o.freelist)
      BY <1>2, TableFields DEF Counted
    <3>2. c \in Members(o.freelist)
      BY <1>4, <1>6, <3>1, TailMembers
    <3> QED  BY <1>2, <1>6, <3>2 DEF Counted
  <2>2. \A e \in FCBs : e # c => n.refcount[e] = o.refcount[e]
    <3>1. o.refcount \in [FCBs -> Int]
      BY <1>2, TableFields
    <3> QED  BY <1>6, <1>13, <3>1 DEF With
  <2>3. \A e \in FCBs : R[e] > 0 => e # c
    BY <2>1
  <2> QED  BY ONLY <2>2, <2>3
<1>15. Counted(n, R)
  BY <1>2, <1>11, <1>13, <1>14, FreeListCounted
<1> QED  BY <1>1, <1>2, <1>13, <1>15 DEF Sound

\* sys_Pipe() that finds two descriptors and two FCBs is two openings.
LEMMA PipeOpens ==
    ASSUME NEW o \in TableRecord, Distinct(o.freelist), NEW p \in Procs, NEW k \in Pipes,
           CanReserve(o, p, 2), NEW L, L = LowestFids(o, p, 2),
           NEW m, m = Opened(o, p, L[1], Reader(k)), NEW n, n = sys_Pipe(o, p, k)
    PROVE  /\ L[1] \in Fids /\ o.FIDT[p][L[1]] = NULL /\ o.freelist # <<>>
           /\ L[2] \in Fids /\ o.FIDT[p][L[2]] = NULL /\ L[1] # L[2]
           /\ m \in TableRecord /\ m.freelist # <<>> /\ m.FIDT[p][L[2]] = NULL
           /\ n = Opened(m, p, L[2], Writer(k))
<1>1. PICK r : r = FCB_reserve(o, p, 2)
  OBVIOUS
<1>2. PICK c : c = Head(o.freelist)
  OBVIOUS
<1>3. PICK e : e = Head(Tail(o.freelist))
  OBVIOUS
<1>4. PICK x : x = L[1]
  OBVIOUS
<1>5. PICK y : y = L[2]
  OBVIOUS
<1>6. /\ o.freelist # <<>> /\ Tail(o.freelist) # <<>> /\ c \in FCBs /\ e \in FCBs
      /\ x \in Fids /\ o.FIDT[p][x] = NULL
      /\ y \in Fids /\ o.FIDT[p][y] = NULL /\ x # y
      /\ r \in TableRecord /\ r.freelist = Tail(Tail(o.freelist))
      /\ r.refcount = With(With(o.refcount, c, 1), e, 1)
      /\ r.stream = o.stream /\ r.ends = o.ends
      /\ r.FIDT = Enter(Enter(o.FIDT, p, x, c), p, y, e)
      /\ r.FIDT[p][x] = c /\ r.FIDT[p][y] = e
  BY <1>1, <1>2, <1>3, <1>4, <1>5, ReserveTwo
<1>7. n = [r EXCEPT !.stream[c] = Reader(k), !.stream[e] = Writer(k),
                    !.ends = @ \cup {Reader(k), Writer(k)}]
  BY <1>1, <1>4, <1>5, <1>6 DEF sys_Pipe
<1>8. Reader(k) \in StreamSet /\ Writer(k) \in StreamSet /\ Reader(k) \in Ends /\ Writer(k) \in Ends
  BY StreamKinds
<1>9. /\ m \in TableRecord
      /\ m.freelist = Tail(o.freelist) /\ m.refcount = With(o.refcount, c, 1)
      /\ m.stream = With(o.stream, c, Reader(k)) /\ m.FIDT = Enter(o.FIDT, p, x, c)
      /\ m.ends = o.ends \cup ({Reader(k)} \cap Ends)
  BY <1>2, <1>4, <1>6, <1>8, OpenedFields
<1>10. PICK h : h = Opened(m, p, y, Writer(k))
  OBVIOUS
<1>11. m.freelist # <<>> /\ e = Head(m.freelist)
  BY <1>3, <1>6, <1>9
<1>12. /\ h \in TableRecord
       /\ h.freelist = Tail(m.freelist) /\ h.refcount = With(m.refcount, e, 1)
       /\ h.stream = With(m.stream, e, Writer(k)) /\ h.FIDT = Enter(m.FIDT, p, y, e)
       /\ h.ends = m.ends \cup ({Writer(k)} \cap Ends)
  <2>1. m \in TableRecord /\ p \in Procs /\ y \in Fids /\ Writer(k) \in StreamSet
    BY <1>6, <1>8, <1>9
  <2> QED  BY ONLY <1>10, <1>11, <2>1, OpenedFields
<1>13. PICK t : t = With(With(r.stream, c, Reader(k)), e, Writer(k))
  OBVIOUS
<1>14. t \in [FCBs -> StreamSet]
  <2>1. r.stream \in [FCBs -> StreamSet]
    BY <1>6, TableFields
  <2>2. PICK u : u = With(r.stream, c, Reader(k))
    OBVIOUS
  <2>3. u \in [FCBs -> StreamSet]
    BY <1>6, <1>8, <2>1, <2>2 DEF With
  <2>4. t = With(u, e, Writer(k))
    BY <1>13, <2>2
  <2> QED  BY <1>6, <1>8, <2>3, <2>4 DEF With
<1>15. n = [r EXCEPT !.stream = t, !.ends = r.ends \cup {Reader(k), Writer(k)}]
  BY <1>7, <1>13 DEF With
<1>16. r.ends \cup {Reader(k), Writer(k)} \in SUBSET Ends
  BY <1>6, <1>8, TableFields
<1>17. /\ n \in TableRecord /\ n.freelist = r.freelist /\ n.refcount = r.refcount
       /\ n.stream = t /\ n.FIDT = r.FIDT /\ n.ends = r.ends \cup {Reader(k), Writer(k)}
  BY <1>6, <1>14, <1>15, <1>16 DEF TableRecord
<1>18. n = h
  <2>1. n.ends = h.ends
    BY <1>6, <1>8, <1>9, <1>12, <1>17
  <2>2. n.stream = h.stream /\ n.FIDT = h.FIDT /\ n.freelist = h.freelist
        /\ n.refcount = h.refcount
    BY <1>6, <1>9, <1>12, <1>13, <1>17
  <2> QED  BY <1>12, <1>17, <2>1, <2>2, SameTable
<1>19. m.FIDT[p][y] = NULL
  <2>1. c \in {NULL} \cup FCBs
    BY <1>6
  <2>2. o.FIDT \in FidTables
    BY TableFields
  <2>3. PICK V : V = Enter(o.FIDT, p, x, c)
    OBVIOUS
  <2>4. \A q \in Procs, g \in Fids : V[q][g] = IF q = p /\ g = x THEN c ELSE o.FIDT[q][g]
    <3>1. p \in Procs /\ x \in Fids
      BY <1>6
    <3> QED  BY ONLY <2>1, <2>2, <2>3, <3>1, EnterTable
  <2> QED  BY <1>6, <1>9, <2>3, <2>4
<1> QED  BY <1>4, <1>5, <1>6, <1>9, <1>10, <1>11, <1>18, <1>19

-----------------------------------------------------------------------------
(* Exec() and Exit().                                                      *)

\* sys_Exec(): process q, with no descriptor, gets the ones of p.
LEMMA InheritSound ==
    ASSUME NEW o, NEW b, Sound(o, b), NEW p \in Procs, NEW q \in Procs,
           \A f \in Fids : o.FIDT[q][f] = NULL, NEW n, n = Inherit(o, p, q)
    PROVE  /\ Sound(n, b) /\ n.stream = o.stream
           /\ n.FIDT = With(o.FIDT, q, o.FIDT[p])
<1>1. PICK R : R = Refs(o.FIDT, b)
  OBVIOUS
<1>2. /\ o \in TableRecord /\ b \in Holders /\ o.FIDT \in FidTables /\ Counted(o, R)
      /\ R \in [FCBs -> Nat]
  BY <1>1, SoundParts
<1>3. PICK row : row = o.FIDT[p]
  OBVIOUS
<1>4. PICK U : U = With(o.FIDT, q, row)
  OBVIOUS
<1>5. row \in [Fids -> {NULL} \cup FCBs]
  BY <1>2, <1>3 DEF FidTables
<1>6. PICK k : k = [c \in FCBs |-> Cardinality(FidsOf(row, c))]
  OBVIOUS
<1>7. PICK Q : Q = Refs(U, b)
  OBVIOUS
<1>8. /\ U \in FidTables
      /\ \A c \in FCBs : /\ Cardinality(FidsOf(o.FIDT[q], c)) \in Nat
                         /\ Cardinality(FidsOf(row, c)) \in Nat
                         /\ Refs(U, b)[c]
                              = Refs(o.FIDT, b)[c] - Cardinality(FidsOf(o.FIDT[q], c))
                                   + Cardinality(FidsOf(row, c))
  BY <1>2, <1>4, <1>5, RowChanges
<1>9. k \in [FCBs -> Nat]
  BY <1>6, <1>8
<1>10. \A c \in FCBs : Cardinality(FidsOf(o.FIDT[q], c)) = 0
  <2> SUFFICES ASSUME NEW c \in FCBs PROVE Cardinality(FidsOf(o.FIDT[q], c)) = 0
    OBVIOUS
  <2>1. FidsOf(o.FIDT[q], c) = {}
    BY StreamsConstants DEF FidsOf
  <2> QED  BY <2>1, FS_EmptySet
<1>11. Q \in [FCBs -> Nat]
  BY <1>2, <1>7, <1>8, RefsCount
<1>12. Q = [c \in FCBs |-> R[c] + k[c]]
  <2>1. ASSUME NEW c \in FCBs PROVE Q[c] = R[c] + k[c]
    <3>1. /\ Refs(U, b)[c]
                = Refs(o.FIDT, b)[c] - Cardinality(FidsOf(o.FIDT[q], c))
                      + Cardinality(FidsOf(row, c))
          /\ Cardinality(FidsOf(o.FIDT[q], c)) = 0 /\ R[c] \in Nat /\ k[c] \in Nat
          /\ k[c] = Cardinality(FidsOf(row, c))
      BY <1>2, <1>6, <1>8, <1>9, <1>10
    <3> QED  BY <1>1, <1>7, <3>1
  <2> QED  BY <1>11, <2>1
<1>13. \A c \in FCBs : k[c] > 0 => R[c] > 0
  <2> SUFFICES ASSUME NEW c \in FCBs, k[c] > 0 PROVE R[c] > 0
    OBVIOUS
  <2>1. FidsOf(row, c) # {}
    <3>1. k[c] = Cardinality(FidsOf(row, c))
      BY <1>6
    <3> QED  BY <3>1, FS_EmptySet
  <2>2. PICK f \in Fids : o.FIDT[p][f] = c
    BY <1>3, <2>1 DEF FidsOf
  <2> QED  BY <1>1, <2>2, SoundParts, StreamsConstants
<1>14. PICK r : r = [c \in FCBs |-> o.refcount[c] + k[c]]
  OBVIOUS
<1>15. r \in [FCBs -> Int]
  <2>1. \A c \in FCBs : o.refcount[c] \in Int /\ k[c] \in Int
    BY <1>2, <1>9, TableFields
  <2> QED  BY <1>14, <2>1
<1>16. n = [o EXCEPT !.FIDT = U, !.refcount = r]
  <2>1. r = [c \in FCBs |-> o.refcount[c] + Cardinality({f \in Fids : o.FIDT[p][f] = c})]
    BY <1>3, <1>6, <1>14 DEF FidsOf
  <2> QED  BY <1>3, <1>4, <2>1 DEF Inherit, With
<1>17. /\ n \in TableRecord /\ n.freelist = o.freelist /\ n.refcount = r
       /\ n.stream = o.stream /\ n.FIDT = U /\ n.ends = o.ends
  BY <1>2, <1>8, <1>15, <1>16 DEF TableRecord, FidTables
<1>18. Counted(n, Q)
  BY <1>2, <1>9, <1>12, <1>13, <1>14, <1>17, InheritCounted
<1> QED  BY <1>2, <1>3, <1>4, <1>7, <1>17, <1>18 DEF Sound

\* The FCB c is before d in the descriptors r: its last descriptor is smaller.
BeforeIn(r, c, d) == \A f \in FidsOf(r, c) : \E g \in FidsOf(r, d) : f < g

BeforeRel(r) == {e \in FCBs \X FCBs : BeforeIn(r, e[1], e[2])}

\* The order in which an exiting process releases FCBs is a total order.
LEMMA LastDescriptors ==
    ASSUME NEW r \in [Fids -> {NULL} \cup FCBs], NEW S \in SUBSET FCBs,
           \A c \in S : FidsOf(r, c) # {},
           NEW T, T = BeforeRel(r)
    PROVE  /\ \A x, y \in S : x # y => (<<x, y>> \in T <=> ~ (<<y, x>> \in T))
           /\ \A x, y, z \in S : <<x, y>> \in T /\ <<y, z>> \in T /\ x # z => <<x, z>> \in T
           /\ IsFiniteSet(S)
<1> DEFINE IsLast(c, m) == m \in FidsOf(r, c) /\ \A f \in FidsOf(r, c) : f <= m
<1>1. \A x, y \in FCBs : <<x, y>> \in T <=> BeforeIn(r, x, y)
  BY DEF BeforeRel
<1>2. \A c \in S : \E m \in Fids : IsLast(c, m)
  <2> SUFFICES ASSUME NEW c \in S PROVE \E m \in Fids : IsLast(c, m)
    OBVIOUS
  <2>1. PICK F : F = FidsOf(r, c)
    OBVIOUS
  <2>2. F \in SUBSET Nat /\ F # {} /\ F \subseteq Fids
    BY <2>1, StreamsConstants DEF FidsOf
  <2>3. MAX_FILEID \in Nat /\ \A x \in F : x <= MAX_FILEID
    BY <2>2, StreamsConstants DEF Fids
  <2>4. \E x \in F : \A y \in F : y <= x
    BY <2>2, <2>3, LargestNat
  <2> QED  BY <2>1, <2>2, <2>4
<1>3. PICK last : last = [c \in S |-> CHOOSE m \in Fids : IsLast(c, m)]
  OBVIOUS
<1>4. \A c \in S : last[c] \in Fids /\ IsLast(c, last[c])
  <2> HIDE DEF IsLast
  <2> QED  BY <1>2, <1>3
<1>5. \A c \in S : last[c] \in Nat /\ r[last[c]] = c
  BY <1>4, StreamsConstants DEF FidsOf
<1>6. \A x, y \in S : x # y => last[x] # last[y]
  BY <1>5
<1>7. \A x, y \in S : BeforeIn(r, x, y) <=> last[x] < last[y]
  <2> SUFFICES ASSUME NEW x \in S, NEW y \in S
               PROVE  BeforeIn(r, x, y) <=> last[x] < last[y]
    OBVIOUS
  <2>1. /\ IsLast(x, last[x]) /\ IsLast(y, last[y])
        /\ last[x] \in Nat /\ last[y] \in Nat
    BY <1>4, <1>5
  <2>2. \A c : FidsOf(r, c) \subseteq Nat
    BY StreamsConstants DEF FidsOf
  <2>3. ASSUME BeforeIn(r, x, y) PROVE last[x] < last[y]
    <3>1. PICK g \in FidsOf(r, y) : last[x] < g
      BY <2>1, <2>3 DEF BeforeIn
    <3>2. g <= last[y] /\ g \in Nat
      BY <2>1, <2>2, <3>1
    <3> QED  BY <2>1, <3>1, <3>2
  <2>4. ASSUME last[x] < last[y] PROVE BeforeIn(r, x, y)
    <3> SUFFICES ASSUME NEW f \in FidsOf(r, x) PROVE \E g \in FidsOf(r, y) : f < g
      BY DEF BeforeIn
    <3>1. f <= last[x] /\ f \in Nat
      BY <2>1, <2>2
    <3>2. f < last[y] /\ last[y] \in FidsOf(r, y)
      BY <2>1, <2>4, <3>1
    <3> QED  BY <3>2
  <2> QED  BY <2>3, <2>4
<1> HIDE DEF IsLast
<1>8. \A x, y \in S : <<x, y>> \in T <=> last[x] < last[y]
  BY <1>1, <1>7
<1>9. \A x, y \in S : x # y => (<<x, y>> \in T <=> ~ (<<y, x>> \in T))
  <2> SUFFICES ASSUME NEW x \in S, NEW y \in S, x # y
               PROVE  <<x, y>> \in T <=> ~ (<<y, x>> \in T)
    OBVIOUS
  <2>1. last[x] \in Nat /\ last[y] \in Nat /\ last[x] # last[y]
    BY <1>5, <1>6
  <2> QED  BY <1>8, <2>1
<1>10. \A x, y, z \in S : <<x, y>> \in T /\ <<y, z>> \in T /\ x # z => <<x, z>> \in T
  <2> SUFFICES ASSUME NEW x \in S, NEW y \in S, NEW z \in S, <<x, y>> \in T, <<y, z>> \in T
               PROVE  <<x, z>> \in T
    OBVIOUS
  <2>1. last[x] \in Nat /\ last[y] \in Nat /\ last[z] \in Nat
    BY <1>5
  <2>2. last[x] < last[y] /\ last[y] < last[z]
    BY <1>8
  <2>3. last[x] < last[z]
    BY <2>1, <2>2
  <2> QED  BY <1>8, <2>3
<1>11. IsFiniteSet(S)
  <2>1. IsFiniteSet(FCBs)
    BY StreamsConstants, FS_Interval DEF FCBs
  <2> QED  BY <2>1, FS_Subset
<1> QED  BY <1>9, <1>10, <1>11

\* The elements of S in the order T.
InOrder(S, T) == [i \in 1 .. Cardinality(S) |-> CHOOSE c \in S : RankIn(S, T, c) = i - 1]

\* A list of the elements of a finite set by their rank has each of them once.
LEMMA ByRank ==
    ASSUME NEW S \in SUBSET FCBs, IsFiniteSet(S), NEW T,
           \A x, y \in S : x # y => (<<x, y>> \in T <=> ~ (<<y, x>> \in T)),
           \A x, y, z \in S : <<x, y>> \in T /\ <<y, z>> \in T /\ x # z => <<x, z>> \in T,
           NEW r, r = InOrder(S, T)
    PROVE  r \in Seq(FCBs) /\ Members(r) = S /\ Distinct(r)
<1>1. /\ \A x \in S : RankIn(S, T, x) \in 0 .. Cardinality(S) - 1
      /\ \A x, y \in S : x # y => RankIn(S, T, x) # RankIn(S, T, y)
      /\ \A k \in 0 .. Cardinality(S) - 1 : \E x \in S : RankIn(S, T, x) = k
  BY Ranks
<1>2. PICK n \in Nat : n = Cardinality(S)
  BY FS_CardinalityType
<1>3. \A i \in 1 .. n : r[i] \in S /\ RankIn(S, T, r[i]) = i - 1
  <2> SUFFICES ASSUME NEW i \in 1 .. n PROVE r[i] \in S /\ RankIn(S, T, r[i]) = i - 1
    OBVIOUS
  <2>1. i - 1 \in 0 .. n - 1
    BY <1>2
  <2>2. \E c \in S : RankIn(S, T, c) = i - 1
    BY <1>1, <1>2, <2>1
  <2>3. r[i] = CHOOSE c \in S : RankIn(S, T, c) = i - 1
    BY <1>2 DEF InOrder
  <2> QED  BY ONLY <2>2, <2>3
<1>4. r \in Seq(FCBs) /\ Len(r) = n
  <2>1. r = [i \in 1 .. n |-> r[i]] /\ \A i \in 1 .. n : r[i] \in FCBs
    BY <1>2, <1>3 DEF InOrder
  <2> HIDE DEF RankIn
  <2> QED  BY ONLY <1>2, <2>1
<1>5. \A x \in S : \E i \in 1 .. n : r[i] = x
  <2> SUFFICES ASSUME NEW x \in S PROVE \E i \in 1 .. n : r[i] = x
    OBVIOUS
  <2>1. PICK i : i = RankIn(S, T, x) + 1
    OBVIOUS
  <2>2. RankIn(S, T, x) \in 0 .. n - 1
    BY <1>1, <1>2
  <2>3. i \in 1 .. n /\ RankIn(S, T, x) = i - 1
    BY <1>2, <2>1, <2>2
  <2>4. r[i] \in S /\ RankIn(S, T, r[i]) = RankIn(S, T, x)
    BY <1>3, <2>3
  <2> QED  BY <1>1, <2>3, <2>4
<1>6. \A i, j \in 1 .. n : r[i] = r[j] => i = j
  <2> SUFFICES ASSUME NEW i \in 1 .. n, NEW j \in 1 .. n, r[i] = r[j] PROVE i = j
    OBVIOUS
  <2>1. i - 1 = j - 1
    BY <1>3
  <2> QED  BY <1>2, <2>1
<1> HIDE DEF RankIn
<1>7. Members(r) = S
  <2>1. Members(r) = {r[i] : i \in 1 .. n}
    BY <1>4 DEF Members
  <2>2. \A x : x \in S <=> \E i \in 1 .. n : r[i] = x
    BY ONLY <1>3, <1>5
  <2> QED  BY ONLY <2>1, <2>2
<1>8. Distinct(r)
  BY <1>4, <1>6 DEF Distinct
<1> QED  BY <1>4, <1>7, <1>8

\* Exit() closes all the descriptors of p.
LEMMA ExitSound ==
    ASSUME NEW o, NEW b, Sound(o, b), NEW p \in Procs, NEW n, n = ExitFids(o, p)
    PROVE  /\ Sound(n, b) /\ n.FIDT = With(o.FIDT, p, [f \in Fids |-> NULL])
           /\ Kept(o, n, Refs(n.FIDT, b))
<1>1. PICK R : R = Refs(o.FIDT, b)
  OBVIOUS
<1>2. /\ o \in TableRecord /\ b \in Holders /\ o.FIDT \in FidTables /\ Counted(o, R)
      /\ R \in [FCBs -> Nat]
      /\ \A c \in FCBs : R[c] > 0 => o.refcount[c] = R[c]
  BY <1>1, SoundParts
<1>3. PICK none : none = [f \in Fids |-> NULL]
  OBVIOUS
<1>4. PICK U : U = With(o.FIDT, p, none)
  OBVIOUS
<1>5. PICK row : row = o.FIDT[p]
  OBVIOUS
<1>6. none \in [Fids -> {NULL} \cup FCBs] /\ row \in [Fids -> {NULL} \cup FCBs]
  BY <1>2, <1>3, <1>5 DEF FidTables
<1>7. PICK k : k = [c \in FCBs |-> Cardinality(FidsOf(row, c))]
  OBVIOUS
<1>8. PICK Q : Q = Refs(U, b)
  OBVIOUS
<1>9. /\ U \in FidTables
      /\ \A c \in FCBs : /\ Cardinality(FidsOf(o.FIDT[p], c)) \in Nat
                         /\ Cardinality(FidsOf(none, c)) \in Nat
                         /\ Refs(U, b)[c]
                              = Refs(o.FIDT, b)[c] - Cardinality(FidsOf(o.FIDT[p], c))
                                   + Cardinality(FidsOf(none, c))
                         /\ Cardinality(FidsOf(o.FIDT[p], c)) <= Refs(o.FIDT, b)[c]
  BY <1>2, <1>4, <1>6, RowChanges
<1>10. \A c \in FCBs : Cardinality(FidsOf(none, c)) = 0
  <2> SUFFICES ASSUME NEW c \in FCBs PROVE Cardinality(FidsOf(none, c)) = 0
    OBVIOUS
  <2>1. FidsOf(none, c) = {}
    BY <1>3, StreamsConstants DEF FidsOf
  <2> QED  BY <2>1, FS_EmptySet
<1>11. /\ k \in [FCBs -> Nat] /\ Q \in [FCBs -> Nat]
       /\ \A c \in FCBs : k[c] <= R[c] /\ k[c] = Cardinality(FidsOf(row, c))
                          /\ R[c] \in Nat /\ k[c] \in Nat
  <2>1. \A c \in FCBs : Cardinality(FidsOf(row, c)) \in Nat
    BY <1>5, <1>9
  <2> QED  BY <1>1, <1>2, <1>5, <1>7, <1>8, <1>9, <2>1, RefsCount
<1>12. Q = [c \in FCBs |-> R[c] - k[c]]
  <2>1. ASSUME NEW c \in FCBs PROVE Q[c] = R[c] - k[c]
    <3>1. /\ Refs(U, b)[c]
                = Refs(o.FIDT, b)[c] - Cardinality(FidsOf(o.FIDT[p], c))
                      + Cardinality(FidsOf(none, c))
          /\ Cardinality(FidsOf(none, c)) = 0 /\ R[c] \in Nat /\ k[c] \in Nat
          /\ k[c] = Cardinality(FidsOf(row, c))
      BY <1>9, <1>10, <1>11
    <3> QED  BY <1>1, <1>5, <1>8, <3>1
  <2> QED  BY <1>11, <2>1
<1>13. PICK gone : gone = {c \in FCBs : FidsOf(row, c) # {}
                                           /\ o.refcount[c] = Cardinality(FidsOf(row, c))}
  OBVIOUS
<1>14. /\ gone = {c \in FCBs : k[c] > 0 /\ R[c] = k[c]} /\ gone \in SUBSET FCBs
       /\ \A c \in gone : FidsOf(row, c) # {}
  <2>1. ASSUME NEW c \in FCBs PROVE k[c] > 0 <=> FidsOf(row, c) # {}
    <3>1. FidsOf(row, c) \in SUBSET Fids
      BY DEF FidsOf
    <3>2. IsFiniteSet(FidsOf(row, c))
      BY <3>1, OneProcess
    <3>3. Cardinality(FidsOf(row, c)) = 0 <=> FidsOf(row, c) = {}
      BY <3>2, FS_EmptySet
    <3> QED  BY <1>11, <3>3
  <2>2. \A c \in FCBs : k[c] > 0 => o.refcount[c] = R[c]
    BY <1>2, <1>11
  <2>3. \A c \in FCBs : c \in gone <=> k[c] > 0 /\ R[c] = k[c]
    BY <1>11, <1>13, <2>1, <2>2
  <2> QED  BY <1>13, <2>3
<1>15. PICK T : T = BeforeRel(row)
  OBVIOUS
<1>16. PICK r : r = InOrder(gone, T)
  OBVIOUS
<1>17. r \in Seq(FCBs) /\ Members(r) = gone /\ Distinct(r)
  <2>1. /\ \A x, y \in gone : x # y => (<<x, y>> \in T <=> ~ (<<y, x>> \in T))
        /\ \A x, y, z \in gone : <<x, y>> \in T /\ <<y, z>> \in T /\ x # z => <<x, z>> \in T
        /\ IsFiniteSet(gone)
    <3>1. gone \in SUBSET FCBs /\ \A c \in gone : FidsOf(row, c) # {}
      BY <1>14
    <3> QED  BY ONLY <1>6, <1>15, <3>1, LastDescriptors
  <2>2. gone \in SUBSET FCBs
    BY <1>14
  <2> QED  BY ONLY <1>16, <2>1, <2>2, ByRank
<1>18. PICK t : t = [c \in FCBs |-> IF c \in gone THEN NullDevice ELSE o.stream[c]]
  OBVIOUS
<1>19. PICK u : u = [c \in FCBs |-> o.refcount[c] - k[c]]
  OBVIOUS
<1>20. t \in [FCBs -> StreamSet] /\ u \in [FCBs -> Int]
  <2>1. \A c \in FCBs : /\ o.stream[c] \in StreamSet /\ NullDevice \in StreamSet
                        /\ o.refcount[c] \in Int /\ k[c] \in Int
    BY <1>2, <1>11, TableFields, StreamKinds
  <2>2. \A c \in FCBs : t[c] \in StreamSet /\ u[c] \in Int
    BY <1>18, <1>19, <2>1
  <2> QED  BY <1>18, <1>19, <2>2
<1>21. n = [o EXCEPT !.FIDT[p] = none, !.refcount = u, !.stream = t,
                     !.ends = @ \ {o.stream[c] : c \in gone}, !.freelist = @ \o r]
  <2> DEFINE fids(c) == {f \in Fids : o.FIDT[p][f] = c}
             Gone == {c \in FCBs : fids(c) # {} /\ o.refcount[c] = Cardinality(fids(c))}
             Before(c, d) == \A f \in fids(c) : \E g \in fids(d) : f < g
             released == [i \in 1 .. Cardinality(Gone) |-> CHOOSE c \in Gone :
                             Cardinality({d \in Gone \ {c} : Before(d, c)}) = i - 1]
  <2>1. n = [o EXCEPT !.FIDT[p] = [f \in Fids |-> NULL],
                  !.refcount = [c \in FCBs |-> @[c] - Cardinality(fids(c))],
                  !.stream = [c \in FCBs |-> IF c \in Gone THEN NullDevice ELSE @[c]],
                  !.ends = @ \ {o.stream[c] : c \in Gone},
                  !.freelist = @ \o released]
    BY DEF ExitFids
  <2>2. \A c : fids(c) = FidsOf(row, c)
    BY <1>5 DEF FidsOf
  <2>3. \A c, d : Before(c, d) <=> BeforeIn(row, c, d)
    BY <2>2 DEF BeforeIn
  <2> HIDE DEF fids, Before
  <2>4. Gone = gone
    BY <1>13, <2>2
  <2>5. u = [c \in FCBs |-> o.refcount[c] - Cardinality(fids(c))]
    BY <1>7, <1>19, <2>2
  <2>6. released = r
    <3>1. \A c \in gone : {d \in Gone \ {c} : Before(d, c)} = {y \in gone \ {c} : <<y, c>> \in T}
      <4> SUFFICES ASSUME NEW c \in gone
                   PROVE  {d \in Gone \ {c} : Before(d, c)} = {y \in gone \ {c} : <<y, c>> \in T}
        OBVIOUS
      <4>1. \A y \in gone : <<y, c>> \in T <=> Before(y, c)
        BY <1>14, <1>15, <2>3 DEF BeforeRel
      <4> HIDE DEF Gone
      <4> QED  BY <2>4, <4>1
    <3>2. \A c \in gone : Cardinality({d \in Gone \ {c} : Before(d, c)}) = RankIn(gone, T, c)
      BY <3>1 DEF RankIn
    <3> HIDE DEF Gone
    <3> DEFINE Pos(c) == Cardinality({d \in Gone \ {c} : Before(d, c)})
               one(i) == CHOOSE c \in gone : Pos(c) = i - 1
               two(i) == CHOOSE c \in gone : RankIn(gone, T, c) = i - 1
    <3>4. \A c \in gone : Pos(c) = RankIn(gone, T, c)
      BY <3>2
    <3> HIDE DEF Pos
    <3>3. \A i : one(i) = two(i)
      BY <3>4
    <3>5. released = [i \in 1 .. Cardinality(gone) |-> one(i)]
      BY <2>4 DEF Pos, released
    <3>6. r = [i \in 1 .. Cardinality(gone) |-> two(i)]
      BY <1>16 DEF InOrder
    <3> HIDE DEF one, two, released
    <3> QED  BY <3>3, <3>5, <3>6
  <2> HIDE DEF Gone, released
  <2> QED  BY <1>3, <1>18, <2>1, <2>4, <2>5, <2>6
<1>22. PICK L : L = o.freelist \o r
  OBVIOUS
<1>23. L \in Seq(FCBs)
  BY <1>2, <1>17, <1>22, TableFields, ConcatMembers
<1>24. PICK w : w = o.ends \ {o.stream[c] : c \in gone}
  OBVIOUS
<1>25. w \in SUBSET Ends
  BY <1>2, <1>24, TableFields
<1>26. n = [o EXCEPT !.FIDT = U, !.refcount = u, !.stream = t, !.ends = w, !.freelist = L]
  BY <1>4, <1>21, <1>22, <1>24 DEF With
<1>27. /\ n \in TableRecord /\ n.freelist = L /\ n.refcount = u
       /\ n.stream = t /\ n.FIDT = U /\ n.ends = w
  BY <1>2, <1>9, <1>20, <1>23, <1>25, <1>26 DEF TableRecord, FidTables
<1>28. Counted(n, Q) /\ Kept(o, n, Q)
  <2>1. \A c \in FCBs : /\ n.stream[c] = IF c \in gone THEN NullDevice ELSE o.stream[c]
                        /\ n.refcount[c] = o.refcount[c] - k[c]
                        /\ Q[c] = R[c] - k[c]
    BY <1>12, <1>18, <1>19, <1>27
  <2>4. \A c \in FCBs : c \in gone <=> k[c] > 0 /\ R[c] = k[c]
    BY <1>14
  <2>5. \A c \in FCBs : k[c] <= R[c]
    BY <1>11
  <2>6. o \in TableRecord /\ R \in [FCBs -> Nat] /\ Counted(o, R) /\ k \in [FCBs -> Nat]
    BY <1>2, <1>11
  <2>2. \A x : x \in n.ends <=> x \in o.ends /\ ~ \E c \in gone : x = o.stream[c]
    BY <1>24, <1>27
  <2>3. n.freelist = o.freelist \o r /\ gone \in SUBSET FCBs
    BY <1>14, <1>22, <1>27
  <2>7. Closed(o, R, k, r, gone, n, Q)
    BY ONLY <1>17, <2>1, <2>2, <2>3, <2>4, <2>5, <2>6 DEF Closed
  <2> QED  BY ONLY <2>7, ExitCounted
<1> QED  BY <1>2, <1>3, <1>4, <1>8, <1>27, <1>28 DEF Sound

-----------------------------------------------------------------------------
(* The system calls in any order.                                          *)

\* OpenNull() and OpenTerminal(), of devices that exist and that do not.
LEMMA OpenCall ==
    ASSUME NEW o, NEW b, Sound(o, b), NEW p \in Procs, NEW s \in StreamSet, s \notin Ends,
           NEW found \in BOOLEAN, NEW n, n = open_stream(o, p, s, found)
    PROVE  Sound(n, b)
<1>1. CASE ~ CanReserve(o, p, 1)
  <2>1. n = FCB_reserve_fails(o, p, 1)
    BY <1>1 DEF open_stream
  <2> QED  BY <2>1, ReserveFails
<1>2. CASE CanReserve(o, p, 1) /\ found = FALSE
  <2>1. n = open_stream(o, p, s, FALSE)
    BY <1>2
  <2> QED  BY <1>2, <2>1, OpenNotFound
<1>3. CASE CanReserve(o, p, 1) /\ found = TRUE
  <2>1. n = open_stream(o, p, s, TRUE)
    BY <1>3
  <2>2. PICK f : f = LowestFids(o, p, 1)[1]
    OBVIOUS
  <2>3. o \in TableRecord
    BY DEF Sound
  <2>4. /\ n = Opened(o, p, f, s) /\ f \in Fids /\ o.FIDT[p][f] = NULL
        /\ o.freelist # <<>>
    BY <1>3, <2>1, <2>2, <2>3, OpenStream
  <2>5. s \notin o.ends
    BY <2>3, TableFields
  <2> QED  BY <2>4, <2>5, OpenSound
<1> QED  BY <1>1, <1>2, <1>3

\* Pipe().
LEMMA PipeCall ==
    ASSUME NEW o, NEW b, Sound(o, b), NEW p \in Procs, NEW k \in FreePipes(o),
           NEW n, n = sys_Pipe(o, p, k)
    PROVE  Sound(n, b)
<1>1. CASE ~ CanReserve(o, p, 2)
  <2>1. n = FCB_reserve_fails(o, p, 2)
    BY <1>1 DEF sys_Pipe
  <2> QED  BY <2>1, ReserveFails
<1>2. CASE CanReserve(o, p, 2)
  <2>1. /\ k \in Pipes /\ Reader(k) \notin o.ends /\ Writer(k) \notin o.ends
        /\ o \in TableRecord /\ Distinct(o.freelist)
    BY DEF FreePipes, Sound, Counted
  <2>2. PICK L : L = LowestFids(o, p, 2)
    OBVIOUS
  <2>3. PICK m : m = Opened(o, p, L[1], Reader(k))
    OBVIOUS
  <2>4. /\ L[1] \in Fids /\ o.FIDT[p][L[1]] = NULL /\ o.freelist # <<>>
        /\ L[2] \in Fids /\ m.freelist # <<>> /\ m.FIDT[p][L[2]] = NULL
        /\ n = Opened(m, p, L[2], Writer(k))
    BY <1>2, <2>1, <2>2, <2>3, PipeOpens
  <2>5. /\ Reader(k) \in StreamSet /\ Writer(k) \in StreamSet /\ Reader(k) # Writer(k)
    BY <2>1, StreamKinds
  <2>6. Sound(m, b)
    BY <2>1, <2>3, <2>4, <2>5, OpenSound
  <2>7. Writer(k) \notin m.ends
    BY <2>1, <2>3, <2>5 DEF Opened
  <2> QED  BY <2>4, <2>5, <2>6, <2>7, OpenSound
<1> QED  BY <1>1, <1>2

\* At first every FCB is free.
LEMMA SoundInit ==
    ASSUME NEW b, b = [p \in Procs |-> NULL]
    PROVE  Sound(EmptyTable, b)
<1>1. PICK o : o = EmptyTable
  OBVIOUS
<1>2. o \in TableRecord /\ b \in Holders /\ o.FIDT \in FidTables
  <2>1. [i \in FCBs |-> i] \in Seq(FCBs)
    BY StreamsConstants DEF FCBs
  <2>2. NullDevice \in StreamSet
    BY StreamKinds
  <2> QED  BY <1>1, <2>1, <2>2 DEF EmptyTable, TableRecord, Holders, FidTables
<1>3. PICK R : R = Refs(o.FIDT, b)
  OBVIOUS
<1>4. \A c \in FCBs : R[c] = 0
  <2> SUFFICES ASSUME NEW c \in FCBs PROVE R[c] = 0
    OBVIOUS
  <2>1. /\ \A p \in Procs, f \in Fids : o.FIDT[p][f] = NULL
        /\ \A p \in Procs : b[p] = NULL
    BY <1>1 DEF EmptyTable
  <2>2. R \in [FCBs -> Nat] /\ ~ (R[c] > 0)
    BY <1>2, <1>3, <2>1, RefsCount, StreamsConstants
  <2> QED  BY <2>2
<1>5. Distinct(o.freelist) /\ Members(o.freelist) = FCBs
  <2>1. /\ o.freelist = [i \in 1 .. MAX_FILES |-> i] /\ Len(o.freelist) = MAX_FILES
        /\ MAX_FILES \in Nat
    BY <1>1, StreamsConstants DEF EmptyTable, FCBs
  <2> QED  BY <2>1 DEF Distinct, Members, FCBs
<1>6. o.ends = {o.stream[c] : c \in {d \in FCBs : R[d] > 0}} \cap Ends
  <2>1. {d \in FCBs : R[d] > 0} = {}
    BY <1>4
  <2> QED  BY <1>1, <2>1 DEF EmptyTable
<1>7. Counted(o, R)
  BY <1>4, <1>5, <1>6 DEF Counted
<1> QED  BY <1>1, <1>2, <1>3, <1>7 DEF Sound

\* A step keeps the table sound.
LEMMA SoundStep ==
    ASSUME Sound(os, inuse), [StreamsNext]_streamsVars
    PROVE  Sound(os, inuse)'
<1>1. CASE UNCHANGED streamsVars
  BY <1>1 DEF streamsVars, Sound
<1>2. CASE StreamsNext
  <2>1. PICK p \in Procs :
           \/ ~ Absent(p) /\ (Open(p) \/ CloseOrDup(p) \/ Exec(p) \/ Exit(p))
           \/ \E f \in Fids : Block(p, f)
           \/ Unblock(p)
    BY <1>2 DEF StreamsNext
  <2>2. PICK n : n = os'
    OBVIOUS
  <2>3. PICK d : d = inuse'
    OBVIOUS
  <2>4. PICK o : o = os
    OBVIOUS
  <2>5. PICK b : b = inuse
    OBVIOUS
  <2>6. Sound(o, b)
    BY <2>4, <2>5
  <2>7. /\ NullDevice \in StreamSet /\ NullDevice \notin Ends
        /\ \A i \in 0 .. NTerminals : Terminal(i) \in StreamSet /\ Terminal(i) \notin Ends
    BY StreamKinds
  <2>8. CASE Open(p)
    <3>1. d = b
      BY <2>3, <2>5, <2>8 DEF Open
    <3>2. CASE os' = sys_OpenNull(os, p)
      <4>1. n = open_stream(o, p, NullDevice, TRUE)
        BY <2>2, <2>4, <3>2 DEF sys_OpenNull
      <4> QED  BY <2>2, <2>3, <2>6, <2>7, <3>1, <4>1, OpenCall
    <3>3. ASSUME NEW i \in 0 .. NTerminals, os' = sys_OpenTerminal(os, p, i)
          PROVE  Sound(os', inuse')
      <4>1. n = open_stream(o, p, Terminal(i), i < NTerminals) /\ (i < NTerminals) \in BOOLEAN
        BY <2>2, <2>4, <3>3 DEF sys_OpenTerminal
      <4>2. PICK found \in BOOLEAN : n = open_stream(o, p, Terminal(i), found)
        BY <4>1
      <4> QED  BY <2>2, <2>3, <2>6, <2>7, <3>1, <4>2, OpenCall
    <3>4. ASSUME NEW k \in FreePipes(os), os' = sys_Pipe(os, p, k)
          PROVE  Sound(os', inuse')
      <4>1. n = sys_Pipe(o, p, k) /\ k \in FreePipes(o)
        BY <2>2, <2>4, <3>4
      <4> QED  BY <2>2, <2>3, <2>6, <3>1, <4>1, PipeCall
    <3> QED  BY <2>8, <3>2, <3>3, <3>4 DEF Open
  <2>9. CASE CloseOrDup(p)
    <3>1. d = b
      BY <2>3, <2>5, <2>9 DEF CloseOrDup
    <3>2. ASSUME NEW f \in Fids, os' = sys_Close(os, p, f)
          PROVE  Sound(os', inuse')
      <4>1. n = sys_Close(o, p, f)
        BY <2>2, <2>4, <3>2
      <4>2. CASE o.FIDT[p][f] = NULL
        <5>1. n = o
          BY <4>1, <4>2 DEF sys_Close
        <5> QED  BY <2>2, <2>3, <2>6, <3>1, <5>1
      <4>3. CASE o.FIDT[p][f] # NULL
        BY <2>2, <2>3, <2>6, <3>1, <4>1, <4>3, CloseSound
      <4> QED  BY <4>2, <4>3
    <3>3. ASSUME NEW f \in Fids, NEW g \in Fids, os' = sys_Dup2(os, p, f, g)
          PROVE  Sound(os', inuse')
      <4>1. n = sys_Dup2(o, p, f, g)
        BY <2>2, <2>4, <3>3
      <4>2. CASE o.FIDT[p][f] = NULL
        <5>1. n = o
          BY <4>1, <4>2 DEF sys_Dup2
        <5> QED  BY <2>2, <2>3, <2>6, <3>1, <5>1
      <4>3. CASE o.FIDT[p][f] # NULL
        BY <2>2, <2>3, <2>6, <3>1, <4>1, <4>3, DupSound
      <4> QED  BY <4>2, <4>3
    <3> QED  BY <2>9, <3>2, <3>3 DEF CloseOrDup
  <2>10. CASE Exec(p)
    <3>1. PICK q \in Procs : Absent(q) /\ os' = Inherit(os, p, q) /\ inuse' = inuse
      BY <2>10 DEF Exec
    <3>2. n = Inherit(o, p, q) /\ d = b /\ \A f \in Fids : o.FIDT[q][f] = NULL
      BY <2>2, <2>3, <2>4, <2>5, <3>1 DEF Absent
    <3> QED  BY <2>2, <2>3, <2>6, <3>2, InheritSound
  <2>11. CASE Exit(p)
    <3>1. n = ExitFids(o, p) /\ d = b
      BY <2>2, <2>3, <2>4, <2>5, <2>11 DEF Exit
    <3> QED  BY <2>2, <2>3, <2>6, <3>1, ExitSound
  <2>12. ASSUME NEW f \in Fids, Block(p, f) PROVE Sound(os', inuse')
    <3>1. /\ b[p] = NULL /\ o.FIDT[p][f] # NULL
          /\ n = FCB_incref(o, o.FIDT[p][f]) /\ d = With(b, p, o.FIDT[p][f])
      BY <2>2, <2>3, <2>4, <2>5, <2>12 DEF Block, With
    <3> QED  BY <2>2, <2>3, <2>6, <3>1, BlockSound
  <2>13. CASE Unblock(p)
    <3>1. b[p] # NULL /\ n = FCB_decref(o, b[p]) /\ d = With(b, p, NULL)
      BY <2>2, <2>3, <2>4, <2>5, <2>13 DEF Unblock, With
    <3> QED  BY <2>2, <2>3, <2>6, <3>1, UnblockSound
  <2> QED  BY <2>1, <2>8, <2>9, <2>10, <2>11, <2>12, <2>13
<1> QED  BY <1>1, <1>2

\* A sound table is what FilesSound says.
LEMMA SoundIsFilesSound ==
    ASSUME Sound(os, inuse)
    PROVE  FilesSound
<1>1. PICK R : R = Refs(os.FIDT, inuse)
  OBVIOUS
<1>2. /\ os \in TableRecord /\ inuse \in Holders /\ os.FIDT \in FidTables
      /\ Counted(os, R) /\ R \in [FCBs -> Nat]
  BY <1>1, SoundParts
<1>3. \A c \in FCBs : References(c) = R[c]
  BY <1>1 DEF References, Refs, Entries, Blocked
<1>4. os.freelist \in Seq(FCBs) /\ Distinct(os.freelist)
      /\ DOMAIN os.freelist = 1 .. Len(os.freelist) /\ Len(os.freelist) \in Nat
  BY <1>2, TableFields DEF Counted
<1>5. ToSet(os.freelist) = Members(os.freelist)
  BY <1>4 DEF ToSet, Members
<1>6. ASSUME NEW c \in Members(os.freelist)
      PROVE  Cardinality({i \in DOMAIN os.freelist : os.freelist[i] = c}) = 1
  <2>1. PICK i \in 1 .. Len(os.freelist) : os.freelist[i] = c
    BY DEF Members
  <2>2. {j \in DOMAIN os.freelist : os.freelist[j] = c} = {i}
    BY <1>4, <2>1 DEF Distinct
  <2> QED  BY <2>2, FS_Singleton
<1>7. ASSUME NEW c \in FCBs
      PROVE  IF References(c) > 0
             THEN os.refcount[c] = References(c) /\ c \notin ToSet(os.freelist)
             ELSE Cardinality({i \in DOMAIN os.freelist : os.freelist[i] = c}) = 1
  BY <1>2, <1>3, <1>5, <1>6 DEF Counted
<1>8. {d \in FCBs : References(d) > 0} = {d \in FCBs : R[d] > 0}
  BY <1>3
<1>9. os.ends = {os.stream[c] : c \in {d \in FCBs : References(d) > 0}}
                   \cap ({Reader(k) : k \in Pipes} \cup {Writer(k) : k \in Pipes})
  BY <1>2, <1>8 DEF Counted, Ends
<1> QED  BY <1>7, <1>9 DEF FilesSound

\* Every FCB that something refers to has the count of its references and is
\* not free, every other one is free once, and the open pipe ends are the
\* streams of FCBs in use, whatever calls the processes make in any order.
THEOREM FilesAreSound ==
    StreamsInit /\ [][StreamsNext]_streamsVars => []FilesSound
<1>1. StreamsInit => Sound(os, inuse)
  BY SoundInit DEF StreamsInit
<1>2. Sound(os, inuse) /\ [StreamsNext]_streamsVars => Sound(os, inuse)'
  BY SoundStep
<1>3. Sound(os, inuse) => FilesSound
  BY SoundIsFilesSound
<1> QED  BY <1>1, <1>2, <1>3, PTL

-----------------------------------------------------------------------------
(* What descriptors lead to, when no call is blocked.                      *)

View(o) == [p \in Procs |-> [f \in Fids |-> At(o, p, f)]]
ViewTables == [Procs -> [Fids -> StreamSet \cup {None}]]
NoneRow == [f \in Fids |-> None]

\* The streams of a table.
LEMMA ViewTable ==
    ASSUME NEW o \in TableRecord
    PROVE  /\ View(o) \in ViewTables /\ None \notin StreamSet
           /\ \A p \in Procs, f \in Fids :
                 /\ View(o)[p][f] = None <=> o.FIDT[p][f] = NULL
                 /\ o.FIDT[p][f] # NULL => View(o)[p][f] = o.stream[o.FIDT[p][f]]
<1>1. None \notin StreamSet
  BY DEF None, StreamSet, NullDevice, Terminal, Ends, Reader, Writer
<1>2. ASSUME NEW p \in Procs, NEW f \in Fids
      PROVE  /\ At(o, p, f) \in StreamSet \cup {None}
             /\ At(o, p, f) = None <=> o.FIDT[p][f] = NULL
             /\ o.FIDT[p][f] # NULL => At(o, p, f) = o.stream[o.FIDT[p][f]]
  <2>1. o.FIDT[p][f] \in {NULL} \cup FCBs
    BY TableFields DEF FidTables
  <2>2. \A c \in FCBs : o.stream[c] \in StreamSet
    BY TableFields
  <2> QED  BY <1>1, <2>1, <2>2 DEF At
<1> QED  BY <1>1, <1>2 DEF View, ViewTables

\* One descriptor leads to x, in the streams V of all descriptors.
LEMMA EnterView ==
    ASSUME NEW V \in ViewTables, NEW p \in Procs, NEW f \in Fids,
           NEW x \in StreamSet \cup {None}, NEW W \in ViewTables,
           \A q \in Procs, g \in Fids :
              W[q][g] = IF q = p /\ g = f THEN x ELSE V[q][g]
    PROVE  W = Enter(V, p, f, x)
<1>1. PICK U : U = Enter(V, p, f, x)
  OBVIOUS
<1>2. /\ U \in ViewTables
      /\ \A q \in Procs, g \in Fids : U[q][g] = IF q = p /\ g = f THEN x ELSE V[q][g]
  BY <1>1 DEF Enter, ViewTables
<1>3. \A q \in Procs, g \in Fids : W[q][g] = U[q][g]
  BY <1>2
<1>4. \A q \in Procs : W[q] = U[q]
  BY <1>2, <1>3 DEF ViewTables
<1>5. W = U
  BY <1>2, <1>4 DEF ViewTables
<1> QED  BY <1>1, <1>5

\* Where an entry of n is one of o and the stream is kept, it leads to the same.
LEMMA KeptView ==
    ASSUME NEW o \in TableRecord, NEW n \in TableRecord,
           NEW p \in Procs, NEW f \in Fids, NEW q \in Procs, NEW g \in Fids,
           n.FIDT[p][f] = o.FIDT[q][g],
           n.FIDT[p][f] # NULL => n.stream[n.FIDT[p][f]] = o.stream[n.FIDT[p][f]]
    PROVE  View(n)[p][f] = View(o)[q][g]
  BY DEF View, At

\* What is known of streams by Kept().
LEMMA KeptStreams ==
    ASSUME NEW o, NEW b, Sound(o, b), NEW n, NEW m, Kept(m, n, Refs(o.FIDT, b))
    PROVE  \A p \in Procs, f \in Fids :
              o.FIDT[p][f] # NULL => n.stream[o.FIDT[p][f]] = m.stream[o.FIDT[p][f]]
<1>1. \A p \in Procs, f \in Fids :
         /\ o.FIDT[p][f] \in {NULL} \cup FCBs
         /\ o.FIDT[p][f] # NULL => Refs(o.FIDT, b)[o.FIDT[p][f]] > 0
  BY SoundParts
<1> QED  BY <1>1 DEF Kept

\* Close()
LEMMA CloseView ==
    ASSUME NEW o, NEW b, Sound(o, b), NEW p \in Procs, NEW f \in Fids,
           o.FIDT[p][f] # NULL, NEW n, n = sys_Close(o, p, f)
    PROVE  Sound(n, b) /\ View(n) = Enter(View(o), p, f, None)
<1>1. /\ Sound(n, b) /\ n.FIDT = Enter(o.FIDT, p, f, NULL)
      /\ Kept(o, n, Refs(n.FIDT, b))
  BY CloseSound
<1>2. o \in TableRecord /\ n \in TableRecord /\ o.FIDT \in FidTables
  BY <1>1, TableFields DEF Sound
<1>3. \A q \in Procs, g \in Fids :
         n.FIDT[q][g] = IF q = p /\ g = f THEN NULL ELSE o.FIDT[q][g]
  BY <1>1, <1>2, EnterTable
<1>4. \A q \in Procs, g \in Fids :
         n.FIDT[q][g] # NULL => n.stream[n.FIDT[q][g]] = o.stream[n.FIDT[q][g]]
  BY ONLY <1>1, KeptStreams
<1>5. ASSUME NEW q \in Procs, NEW g \in Fids
      PROVE  View(n)[q][g] = IF q = p /\ g = f THEN None ELSE View(o)[q][g]
  <2>1. CASE q = p /\ g = f
    BY <1>2, <1>3, <2>1, ViewTable
  <2>2. CASE ~ (q = p /\ g = f)
    BY <1>2, <1>3, <1>4, <2>2, KeptView
  <2> QED  BY <2>1, <2>2
<1>6. View(n) = Enter(View(o), p, f, None)
  BY <1>2, <1>5, ViewTable, EnterView
<1> QED  BY <1>1, <1>6

\* Dup2()
LEMMA DupView ==
    ASSUME NEW o, NEW b, Sound(o, b), NEW p \in Procs, NEW old \in Fids, NEW new \in Fids,
           o.FIDT[p][old] # NULL, NEW n, n = sys_Dup2(o, p, old, new)
    PROVE  Sound(n, b) /\ View(n) = Enter(View(o), p, new, View(o)[p][old])
<1>1. /\ Sound(n, b) /\ n.FIDT = Enter(o.FIDT, p, new, o.FIDT[p][old])
      /\ Kept(o, n, Refs(n.FIDT, b))
  BY DupSound
<1>2. o \in TableRecord /\ n \in TableRecord /\ o.FIDT \in FidTables
      /\ o.FIDT[p][old] \in {NULL} \cup FCBs
  BY <1>1, TableFields DEF Sound, FidTables
<1>3. \A q \in Procs, g \in Fids :
         n.FIDT[q][g] = IF q = p /\ g = new THEN o.FIDT[p][old] ELSE o.FIDT[q][g]
  BY <1>1, <1>2, EnterTable
<1>4. \A q \in Procs, g \in Fids :
         n.FIDT[q][g] # NULL => n.stream[n.FIDT[q][g]] = o.stream[n.FIDT[q][g]]
  BY ONLY <1>1, KeptStreams
<1>5. ASSUME NEW q \in Procs, NEW g \in Fids
      PROVE  View(n)[q][g] = IF q = p /\ g = new THEN View(o)[p][old] ELSE View(o)[q][g]
  <2>1. CASE q = p /\ g = new
    BY <1>2, <1>3, <1>4, <2>1, KeptView
  <2>2. CASE ~ (q = p /\ g = new)
    BY <1>2, <1>3, <1>4, <2>2, KeptView
  <2> QED  BY <2>1, <2>2
<1>6. View(o) \in ViewTables /\ View(n) \in ViewTables
      /\ View(o)[p][old] \in StreamSet \cup {None}
  BY <1>2, ViewTable DEF ViewTables
<1>7. View(n) = Enter(View(o), p, new, View(o)[p][old])
  BY <1>5, <1>6, EnterView
<1> QED  BY <1>1, <1>7

\* A stream opened at a free descriptor.
LEMMA OpenedView ==
    ASSUME NEW o, NEW b, Sound(o, b), NEW p \in Procs, NEW f \in Fids, o.FIDT[p][f] = NULL,
           o.freelist # <<>>, NEW s \in StreamSet, s \notin o.ends,
           NEW n, n = Opened(o, p, f, s)
    PROVE  Sound(n, b) /\ View(n) = Enter(View(o), p, f, s)
<1>1. PICK c : c = Head(o.freelist)
  OBVIOUS
<1>2. /\ Sound(n, b) /\ Kept(o, n, Refs(o.FIDT, b)) /\ c \in FCBs
  BY <1>1, OpenSound
<1>3. o \in TableRecord /\ n \in TableRecord /\ o.FIDT \in FidTables
  BY <1>2, TableFields DEF Sound
<1>4. n.FIDT = Enter(o.FIDT, p, f, c) /\ n.stream[c] = s /\ c # NULL
  BY <1>1, <1>2, <1>3, OpenedFields, StreamsConstants
<1>5. \A q \in Procs, g \in Fids :
         n.FIDT[q][g] = IF q = p /\ g = f THEN c ELSE o.FIDT[q][g]
  BY <1>2, <1>3, <1>4, EnterTable
<1>6. \A q \in Procs, g \in Fids :
         o.FIDT[q][g] # NULL => n.stream[o.FIDT[q][g]] = o.stream[o.FIDT[q][g]]
  <2>1. \A q \in Procs, g \in Fids :
           /\ o.FIDT[q][g] \in {NULL} \cup FCBs
           /\ o.FIDT[q][g] # NULL => Refs(o.FIDT, b)[o.FIDT[q][g]] > 0
    BY SoundParts
  <2> QED  BY <1>2, <2>1 DEF Kept
<1>7. ASSUME NEW q \in Procs, NEW g \in Fids
      PROVE  View(n)[q][g] = IF q = p /\ g = f THEN s ELSE View(o)[q][g]
  <2>1. CASE q = p /\ g = f
    BY <1>3, <1>4, <1>5, <2>1, ViewTable
  <2>2. CASE ~ (q = p /\ g = f)
    BY <1>3, <1>5, <1>6, <2>2, KeptView
  <2> QED  BY <2>1, <2>2
<1>8. View(n) = Enter(View(o), p, f, s)
  BY <1>3, <1>7, ViewTable, EnterView
<1> QED  BY <1>2, <1>8

\* Table n is o with stream s open at the lowest free descriptor, f.
OpenedAt(o, b, p, f, s, n) ==
    /\ f \in Fids /\ o.FIDT[p][f] = NULL
    /\ \A g \in Fids : g < f => o.FIDT[p][g] # NULL
    /\ Sound(n, b) /\ View(n) = Enter(View(o), p, f, s)
    /\ n.freelist = Tail(o.freelist)

\* Opening a device takes the lowest free descriptor.
LEMMA DeviceView ==
    ASSUME NEW o, NEW b, Sound(o, b), NEW p \in Procs, CanReserve(o, p, 1),
           NEW f, f = LowestFids(o, p, 1)[1], NEW s \in StreamSet, s \notin Ends,
           NEW n, n = open_stream(o, p, s, TRUE)
    PROVE  OpenedAt(o, b, p, f, s, n)
<1>1. o \in TableRecord /\ s \notin o.ends
  BY TableFields DEF Sound
<1>2. /\ n = Opened(o, p, f, s) /\ f \in Fids /\ o.FIDT[p][f] = NULL
      /\ o.freelist # <<>>
  BY <1>1, OpenStream
<1>3. Sound(n, b) /\ View(n) = Enter(View(o), p, f, s)
  <2>1. n = Opened(o, p, f, s) /\ s \notin o.ends
    BY <1>1, <1>2
  <2> QED  BY ONLY Sound(o, b), p \in Procs, s \in StreamSet, <1>2, <2>1, OpenedView
<1>4. \A g \in Fids : g < f => o.FIDT[p][g] # NULL
  BY LowestOne DEF CanReserve
<1>5. n.freelist = Tail(o.freelist)
  <2>1. n = Opened(o, p, f, s)
    BY <1>2
  <2> QED  BY ONLY <2>1 DEF Opened
<1> QED  BY <1>2, <1>3, <1>4, <1>5 DEF OpenedAt

\* OpenNull() and OpenTerminal(n), of a terminal that exists.
LEMMA OpenView ==
    ASSUME NEW o, NEW b, Sound(o, b), NEW p \in Procs, CanReserve(o, p, 1),
           NEW f, f = LowestFids(o, p, 1)[1]
    PROVE  /\ OpenedAt(o, b, p, f, NullDevice, sys_OpenNull(o, p))
           /\ \A n \in 0 .. NTerminals - 1 :
                 OpenedAt(o, b, p, f, Terminal(n), sys_OpenTerminal(o, p, n))
<1>1. ASSUME NEW s \in StreamSet, s \notin Ends
      PROVE  OpenedAt(o, b, p, f, s, open_stream(o, p, s, TRUE))
  BY <1>1, DeviceView
<1>2. OpenedAt(o, b, p, f, NullDevice, sys_OpenNull(o, p))
  BY <1>1, StreamKinds DEF sys_OpenNull
<1>3. ASSUME NEW n \in 0 .. NTerminals - 1
      PROVE  OpenedAt(o, b, p, f, Terminal(n), sys_OpenTerminal(o, p, n))
  <2>1. n \in 0 .. NTerminals /\ (n < NTerminals) = TRUE
    BY StreamsConstants
  <2>2. sys_OpenTerminal(o, p, n) = open_stream(o, p, Terminal(n), TRUE)
    BY <2>1 DEF sys_OpenTerminal
  <2>3. Terminal(n) \in StreamSet /\ Terminal(n) \notin Ends
    BY <2>1, StreamKinds
  <2> QED  BY <1>1, <2>2, <2>3
<1> QED  BY <1>2, <1>3

\* boot_shell() opens the terminal twice, for the first two descriptors.
LEMMA BootView ==
    ASSUME MAX_FILES > 1, MAX_FILEID > 1, NTerminals > 0, NEW p \in Procs,
           NEW b, b = [q \in Procs |-> NULL],
           NEW m, m = sys_OpenTerminal(EmptyTable, p, 0), NEW n, n = sys_OpenTerminal(m, p, 0)
    PROVE  /\ Sound(n, b)
           /\ \A q \in Procs, g \in Fids :
                 View(n)[q][g] = IF q = p /\ g \in {0, 1} THEN Terminal(0) ELSE None
<1>1. PICK o : o = EmptyTable
  OBVIOUS
<1>2. Sound(o, b) /\ o \in TableRecord
  BY <1>1, SoundInit DEF Sound
<1>3. /\ View(o) = [q \in Procs |-> [g \in Fids |-> None]]
      /\ \A q \in Procs, g \in Fids : o.FIDT[q][g] = NULL
  BY <1>1 DEF EmptyTable, View, At
<1>4. Len(o.freelist) = MAX_FILES /\ Len(Tail(o.freelist)) >= 1 /\ Len(o.freelist) >= 1
  <2>1. o.freelist = [i \in 1 .. MAX_FILES |-> i]
    BY <1>1 DEF EmptyTable, FCBs
  <2>2. o.freelist \in Seq(FCBs) /\ Len(o.freelist) = MAX_FILES /\ MAX_FILES \in Nat
    BY <1>2, <2>1, StreamsConstants, TableFields
  <2>3. Len(Tail(o.freelist)) = MAX_FILES - 1
    BY <2>2
  <2> QED  BY <2>2, <2>3
<1>5. 0 \in Fids /\ 1 \in Fids /\ 0 \in 0 .. NTerminals - 1 /\ Fids \subseteq Nat
  BY StreamsConstants DEF Fids
<1>6. ASSUME NEW t, NEW f \in Fids, t.FIDT[p][f] = NULL, Len(t.freelist) >= 1
      PROVE  CanReserve(t, p, 1)
  <2>1. IsFiniteSet(FreeFids(t, p)) /\ f \in FreeFids(t, p)
    <3>1. IsFiniteSet(Fids)
      BY StreamsConstants, FS_Interval DEF Fids
    <3> QED  BY <1>6, <3>1, FS_Subset DEF FreeFids
  <2>2. Cardinality(FreeFids(t, p)) \in Nat /\ Cardinality(FreeFids(t, p)) # 0
    BY <2>1, FS_EmptySet, FS_CardinalityType
  <2> QED  BY <1>6, <2>2 DEF CanReserve
<1>7. PICK f : f = LowestFids(o, p, 1)[1]
  OBVIOUS
<1>8. OpenedAt(o, b, p, f, Terminal(0), m)
  <2>1. CanReserve(o, p, 1)
    BY <1>3, <1>4, <1>5, <1>6
  <2> QED  BY <1>1, <1>2, <1>5, <1>7, <2>1, OpenView
<1>9. /\ f \in Fids /\ \A g \in Fids : ~ (g < f)
      /\ Sound(m, b) /\ View(m) = Enter(View(o), p, f, Terminal(0))
      /\ Len(m.freelist) >= 1
  BY <1>3, <1>4, <1>8 DEF OpenedAt
<1>10. f = 0
  BY <1>5, <1>9
<1>11. /\ m \in TableRecord
       /\ \A q \in Procs, g \in Fids :
             /\ View(m)[q][g] = IF q = p /\ g = 0 THEN Terminal(0) ELSE None
             /\ View(m)[q][g] = None <=> m.FIDT[q][g] = NULL
  <2>1. m \in TableRecord
    BY <1>9 DEF Sound
  <2>2. \A q \in Procs, g \in Fids :
           View(m)[q][g] = IF q = p /\ g = 0 THEN Terminal(0) ELSE None
    BY <1>3, <1>9, <1>10 DEF Enter
  <2> QED  BY <2>1, <2>2, ViewTable
<1>12. Terminal(0) # None
  BY DEF Terminal, None
<1>13. PICK g : g = LowestFids(m, p, 1)[1]
  OBVIOUS
<1>14. OpenedAt(m, b, p, g, Terminal(0), n)
  <2>1. m.FIDT[p][1] = NULL
    BY <1>5, <1>11
  <2>2. CanReserve(m, p, 1)
    BY <1>5, <1>6, <1>9, <2>1
  <2> QED  BY <1>5, <1>9, <1>13, <2>2, OpenView
<1>15. /\ g \in Fids /\ m.FIDT[p][g] = NULL /\ \A h \in Fids : h < g => m.FIDT[p][h] # NULL
       /\ Sound(n, b) /\ View(n) = Enter(View(m), p, g, Terminal(0))
  BY <1>14 DEF OpenedAt
<1>16. g = 1
  <2>1. g # 0
    BY <1>5, <1>11, <1>12, <1>15
  <2>2. ~ (1 < g)
    BY <1>5, <1>11, <1>15
  <2> QED  BY <1>5, <1>15, <2>1, <2>2
<1>17. View(m) \in ViewTables
  BY <1>11, ViewTable
<1>18. \A q \in Procs, h \in Fids :
          View(n)[q][h] = IF q = p /\ h = 1 THEN Terminal(0) ELSE View(m)[q][h]
  BY <1>5, <1>15, <1>16, <1>17 DEF Enter, ViewTables
<1> QED  BY <1>11, <1>15, <1>18

\* Pipe() takes the two lowest free descriptors.
LEMMA PipeView ==
    ASSUME NEW o, NEW b, Sound(o, b), NEW p \in Procs, CanReserve(o, p, 2),
           NEW k \in FreePipes(o), NEW n, n = sys_Pipe(o, p, k),
           NEW L, L = LowestFids(o, p, 2)
    PROVE  /\ L[1] \in Fids /\ L[2] \in Fids /\ L[1] < L[2]
           /\ o.FIDT[p][L[1]] = NULL /\ o.FIDT[p][L[2]] = NULL
           /\ \A g \in Fids : g < L[2] /\ g # L[1] => o.FIDT[p][g] # NULL
           /\ Sound(n, b)
           /\ View(n) = Enter(Enter(View(o), p, L[1], Reader(k)), p, L[2], Writer(k))
<1>1. /\ k \in Pipes /\ Reader(k) \notin o.ends /\ Writer(k) \notin o.ends
      /\ o \in TableRecord /\ Distinct(o.freelist)
  BY DEF FreePipes, Sound, Counted
<1>2. PICK m : m = Opened(o, p, L[1], Reader(k))
  OBVIOUS
<1>3. /\ L[1] \in Fids /\ o.FIDT[p][L[1]] = NULL /\ o.freelist # <<>>
      /\ L[2] \in Fids /\ m.freelist # <<>> /\ m.FIDT[p][L[2]] = NULL
      /\ n = Opened(m, p, L[2], Writer(k))
  BY <1>1, <1>2, PipeOpens
<1>4. Reader(k) \in StreamSet /\ Writer(k) \in StreamSet /\ Reader(k) # Writer(k)
  BY <1>1, StreamKinds
<1>5. Sound(m, b) /\ View(m) = Enter(View(o), p, L[1], Reader(k))
  BY <1>1, <1>2, <1>3, <1>4, OpenedView
<1>6. Writer(k) \notin m.ends
  BY <1>1, <1>2, <1>4 DEF Opened
<1>7. Sound(n, b) /\ View(n) = Enter(View(m), p, L[2], Writer(k))
  BY <1>3, <1>4, <1>5, <1>6, OpenedView
<1>8. /\ L[1] < L[2] /\ o.FIDT[p][L[2]] = NULL
      /\ \A g \in Fids : g < L[2] /\ g # L[1] => o.FIDT[p][g] # NULL
  BY LowestTwo DEF CanReserve
<1> QED  BY <1>3, <1>5, <1>7, <1>8

\* Exec(): the child leads to what its parent does.
LEMMA InheritView ==
    ASSUME NEW o, NEW b, Sound(o, b), NEW p \in Procs, NEW q \in Procs,
           \A f \in Fids : o.FIDT[q][f] = NULL, NEW n, n = Inherit(o, p, q)
    PROVE  Sound(n, b) /\ View(n) = With(View(o), q, View(o)[p])
<1>1. /\ Sound(n, b) /\ n.stream = o.stream /\ n.FIDT = With(o.FIDT, q, o.FIDT[p])
  BY InheritSound
<1>2. o \in TableRecord /\ n \in TableRecord /\ o.FIDT \in FidTables
  BY <1>1, TableFields DEF Sound
<1>3. \A x \in Procs : n.FIDT[x] = IF x = q THEN o.FIDT[p] ELSE o.FIDT[x]
  BY <1>1, <1>2 DEF With, FidTables
<1>4. ASSUME NEW x \in Procs, NEW g \in Fids
      PROVE  At(n, x, g) = IF x = q THEN At(o, p, g) ELSE At(o, x, g)
  BY <1>1, <1>3 DEF At
<1>5. View(n) = With(View(o), q, View(o)[p])
  BY <1>4 DEF View, With
<1> QED  BY <1>1, <1>5

\* Exit() leaves no descriptor.
LEMMA ExitView ==
    ASSUME NEW o, NEW b, Sound(o, b), NEW p \in Procs, NEW n, n = ExitFids(o, p)
    PROVE  Sound(n, b) /\ View(n) = With(View(o), p, NoneRow)
<1>1. /\ Sound(n, b) /\ n.FIDT = With(o.FIDT, p, [f \in Fids |-> NULL])
      /\ Kept(o, n, Refs(n.FIDT, b))
  BY ExitSound
<1>2. o \in TableRecord /\ n \in TableRecord /\ o.FIDT \in FidTables
  BY <1>1, TableFields DEF Sound
<1>3. \A x \in Procs : n.FIDT[x] = IF x = p THEN [f \in Fids |-> NULL] ELSE o.FIDT[x]
  BY <1>1, <1>2 DEF With, FidTables
<1>4. \A q \in Procs, g \in Fids :
         n.FIDT[q][g] # NULL => n.stream[n.FIDT[q][g]] = o.stream[n.FIDT[q][g]]
  BY ONLY <1>1, KeptStreams
<1>5. ASSUME NEW x \in Procs, NEW g \in Fids
      PROVE  At(n, x, g) = IF x = p THEN None ELSE At(o, x, g)
  BY <1>3, <1>4 DEF At
<1>6. View(n) = With(View(o), p, NoneRow)
  BY <1>5 DEF View, With, NoneRow
<1> QED  BY <1>1, <1>6

\* The pipe ends some descriptor leads to are the open ones.
LEMMA EndsView ==
    ASSUME NEW o, NEW b, Sound(o, b), \A p \in Procs : b[p] = NULL, NEW e \in Ends
    PROVE  e \in o.ends <=> \E p \in Procs, f \in Fids : View(o)[p][f] = e
<1>1. PICK R : R = Refs(o.FIDT, b)
  OBVIOUS
<1>2. /\ o \in TableRecord /\ b \in Holders /\ o.FIDT \in FidTables /\ Counted(o, R)
      /\ \A p \in Procs, f \in Fids :
            /\ o.FIDT[p][f] \in {NULL} \cup FCBs
            /\ o.FIDT[p][f] # NULL => R[o.FIDT[p][f]] > 0
  BY <1>1, SoundParts
<1>3. \A c \in FCBs : R[c] > 0 => \E p \in Procs, f \in Fids : o.FIDT[p][f] = c
  <2>1. \A c \in FCBs : R[c] > 0 => \/ \E p \in Procs, f \in Fids : o.FIDT[p][f] = c
                                    \/ \E p \in Procs : b[p] = c
    BY <1>1, <1>2, RefsCount
  <2> QED  BY <2>1, StreamsConstants
<1>4. e \in StreamSet /\ NULL \notin FCBs
  BY StreamsConstants DEF StreamSet
<1>5. e \in o.ends <=> \E c \in FCBs : R[c] > 0 /\ o.stream[c] = e
  BY <1>2 DEF Counted
<1>6. \A p \in Procs, f \in Fids :
         View(o)[p][f] = e <=> o.FIDT[p][f] # NULL /\ o.stream[o.FIDT[p][f]] = e
  BY <1>2, <1>4, ViewTable
<1> QED  BY <1>2, <1>3, <1>4, <1>5, <1>6

=============================================================================
