------------------------------- MODULE Lists -------------------------------
(***************************************************************************)
(* The intrusive lists of util.h seen as sequences: a list is the sequence *)
(* of the objects its nodes belong to, from the sentinel's next node on.   *)
(* rlist_push_back() is Append, rlist_pop_front() is Head and Tail.        *)
(***************************************************************************)
EXTENDS Integers, Sequences, SequenceTheorems, TLAPS

\* The objects that are in the list.
Members(s) == {s[n] : n \in 1 .. Len(s)}

\* A node is linked in at most once.
Distinct(s) == \A n, m \in 1 .. Len(s) : s[n] = s[m] => n = m

\* rlist_remove() of the i-th node of list s.
RemoveNth(s, i) == SubSeq(s, 1, i - 1) \o SubSeq(s, i + 1, Len(s))

\* rl_splice(n->prev, e): node e goes before the i-th node of list s.
InsertBefore(s, i, e) ==
    SubSeq(s, 1, i - 1) \o <<e>> \o SubSeq(s, i, Len(s))

-----------------------------------------------------------------------------
\* rlist_push_back(): the members are the old ones and the new one.
LEMMA AppendMembers ==
    ASSUME NEW S, NEW s \in Seq(S), NEW e \in S
    PROVE  /\ Append(s, e) \in Seq(S)
           /\ Members(Append(s, e)) = Members(s) \cup {e}
           /\ Distinct(s) /\ e \notin Members(s) => Distinct(Append(s, e))
<1> DEFINE r == Append(s, e)
<1>1. /\ r \in Seq(S)
      /\ Len(r) = Len(s) + 1
      /\ Len(s) \in Nat
      /\ \A n \in 1 .. Len(s) : r[n] = s[n]
      /\ r[Len(s) + 1] = e
  OBVIOUS
<1> HIDE DEF r
<1>2. Members(r) = Members(s) \cup {e}
  BY <1>1 DEF Members
<1>3. ASSUME Distinct(s), e \notin Members(s)
      PROVE  Distinct(r)
  BY <1>1, <1>3 DEF Members, Distinct
<1> QED  BY <1>1, <1>2, <1>3 DEF r

\* rlist_pop_front(): only the head leaves.
LEMMA TailMembers ==
    ASSUME NEW S, NEW s \in Seq(S), s # <<>>, Distinct(s)
    PROVE  /\ Head(s) \in S
           /\ Head(s) \in Members(s)
           /\ Tail(s) \in Seq(S)
           /\ Members(Tail(s)) = Members(s) \ {Head(s)}
           /\ Distinct(Tail(s))
<1> DEFINE r == Tail(s)
<1>1. /\ r \in Seq(S)
      /\ Len(s) \in Nat /\ Len(s) > 0
      /\ Len(r) = Len(s) - 1
      /\ \A n \in 1 .. Len(r) : r[n] = s[n + 1]
      /\ Head(s) = s[1]
      /\ s[1] \in S
  OBVIOUS
<1> HIDE DEF r
<1>2. \A n \in 2 .. Len(s) : n - 1 \in 1 .. Len(r) /\ r[n - 1] = s[n]
  BY <1>1
<1>3. Members(r) = Members(s) \ {s[1]}
  <2>1. ASSUME NEW n \in 1 .. Len(r) PROVE r[n] \in Members(s) \ {s[1]}
    BY <1>1 DEF Members, Distinct
  <2>2. ASSUME NEW n \in 1 .. Len(s), s[n] # s[1] PROVE s[n] \in Members(r)
    BY <1>1, <1>2, <2>2 DEF Members
  <2> QED  BY <2>1, <2>2 DEF Members
<1>4. Distinct(r)
  BY <1>1 DEF Distinct
<1>5. s[1] \in Members(s)
  BY <1>1 DEF Members
<1> QED  BY <1>1, <1>3, <1>4, <1>5 DEF r

\* is_rlist_empty(), and the node at the front.
LEMMA EmptyMembers ==
    ASSUME NEW S, NEW s \in Seq(S)
    PROVE  /\ Members(s) \in SUBSET S
           /\ s = <<>> <=> Members(s) = {}
           /\ s # <<>> => Head(s) \in Members(s)
<1>1. /\ Len(s) \in Nat /\ s = <<>> <=> Len(s) = 0
      /\ \A n \in 1 .. Len(s) : s[n] \in S
      /\ s # <<>> => Head(s) = s[1]
  OBVIOUS
<1>2. Len(s) > 0 => 1 \in 1 .. Len(s)
  BY <1>1
<1> QED  BY <1>1, <1>2 DEF Members

\* rlist_append() and rlist_push_front(): two lists become one.
LEMMA ConcatMembers ==
    ASSUME NEW S, NEW s \in Seq(S), NEW r \in Seq(S)
    PROVE  /\ s \o r \in Seq(S)
           /\ Members(s \o r) = Members(s) \cup Members(r)
           /\ Distinct(s) /\ Distinct(r) /\ Members(s) \cap Members(r) = {}
                 => Distinct(s \o r)
<1> DEFINE c == s \o r
<1>1. /\ Len(s) \in Nat /\ Len(r) \in Nat
      /\ c \in Seq(S) /\ Len(c) = Len(s) + Len(r)
      /\ \A n \in 1 .. Len(s) + Len(r) :
            c[n] = IF n <= Len(s) THEN s[n] ELSE r[n - Len(s)]
  <2>1. /\ s \o r \in Seq(S) /\ Len(s \o r) = Len(s) + Len(r)
        /\ \A n \in 1 .. Len(s) + Len(r) :
              (s \o r)[n] = IF n <= Len(s) THEN s[n] ELSE r[n - Len(s)]
    BY ConcatProperties, Zenon
  <2> QED  BY <2>1
<1> HIDE DEF c
<1>2. \A n \in 1 .. Len(s) : n \in 1 .. Len(c) /\ c[n] = s[n]
  BY <1>1
<1>3. \A n \in 1 .. Len(r) : n + Len(s) \in 1 .. Len(c) /\ c[n + Len(s)] = r[n]
  <2> TAKE n \in 1 .. Len(r)
  <2>1. /\ n + Len(s) \in 1 .. Len(s) + Len(r) /\ ~ (n + Len(s) <= Len(s))
        /\ (n + Len(s)) - Len(s) = n
    BY <1>1
  <2> QED  BY <1>1, <2>1
<1>4. \A n \in 1 .. Len(c) :
         \/ n \in 1 .. Len(s) /\ c[n] = s[n]
         \/ n - Len(s) \in 1 .. Len(r) /\ c[n] = r[n - Len(s)]
  BY <1>1
<1>5. Members(c) = Members(s) \cup Members(r)
  <2>1. ASSUME NEW x \in Members(c) PROVE x \in Members(s) \cup Members(r)
    BY <1>4 DEF Members
  <2>2. ASSUME NEW x \in Members(s) PROVE x \in Members(c)
    BY <1>2 DEF Members
  <2>3. ASSUME NEW x \in Members(r) PROVE x \in Members(c)
    BY <1>3 DEF Members
  <2> QED  BY <2>1, <2>2, <2>3
<1>6. ASSUME Distinct(s), Distinct(r), Members(s) \cap Members(r) = {}
      PROVE  Distinct(c)
  <2> SUFFICES ASSUME NEW n \in 1 .. Len(c), NEW m \in 1 .. Len(c), c[n] = c[m]
               PROVE  n = m
    BY DEF Distinct
  <2>1. CASE n \in 1 .. Len(s) /\ c[n] = s[n] /\ m \in 1 .. Len(s) /\ c[m] = s[m]
    BY <1>6, <2>1 DEF Distinct
  <2>2. CASE /\ n - Len(s) \in 1 .. Len(r) /\ c[n] = r[n - Len(s)]
             /\ m - Len(s) \in 1 .. Len(r) /\ c[m] = r[m - Len(s)]
    <3>1. n - Len(s) = m - Len(s)
      BY <1>6, <2>2 DEF Distinct
    <3> QED  BY <3>1, <1>1
  <2>3. CASE /\ n \in 1 .. Len(s) /\ c[n] = s[n]
             /\ m - Len(s) \in 1 .. Len(r) /\ c[m] = r[m - Len(s)]
    BY <1>6, <2>3 DEF Members
  <2>4. CASE /\ m \in 1 .. Len(s) /\ c[m] = s[m]
             /\ n - Len(s) \in 1 .. Len(r) /\ c[n] = r[n - Len(s)]
    BY <1>6, <2>4 DEF Members
  <2> QED  BY <1>4, <2>1, <2>2, <2>3, <2>4
<1> QED  BY <1>1, <1>5, <1>6 DEF c

\* A node alone in a list.
LEMMA OneMember ==
    ASSUME NEW S, NEW e \in S
    PROVE  <<e>> \in Seq(S) /\ Members(<<e>>) = {e} /\ Distinct(<<e>>)
<1>1. /\ <<e>> \in Seq(S) /\ Len(<<e>>) = 1 /\ <<e>>[1] = e
      /\ 1 .. 1 = {1}
  OBVIOUS
<1> QED  BY <1>1 DEF Members, Distinct

\* rlist_push_front(): the new node is the first.
LEMMA FrontMembers ==
    ASSUME NEW S, NEW s \in Seq(S), NEW e \in S
    PROVE  /\ <<e>> \o s \in Seq(S)
           /\ Members(<<e>> \o s) = {e} \cup Members(s)
           /\ Distinct(s) /\ e \notin Members(s) => Distinct(<<e>> \o s)
<1> DEFINE one == <<e>>
<1>1. one \in Seq(S) /\ Members(one) = {e} /\ Distinct(one)
  BY OneMember
<1> HIDE DEF one
<1>2. /\ one \o s \in Seq(S)
      /\ Members(one \o s) = Members(one) \cup Members(s)
      /\ Distinct(one) /\ Distinct(s) /\ Members(one) \cap Members(s) = {}
            => Distinct(one \o s)
  BY <1>1, ConcatMembers
<1>3. /\ one \o s \in Seq(S)
      /\ Members(one \o s) = {e} \cup Members(s)
      /\ Distinct(s) /\ e \notin Members(s) => Distinct(one \o s)
  BY <1>1, <1>2
<1> QED  BY <1>3 DEF one

\* rlist_remove(): one entry leaves, wherever it is.
LEMMA RemoveMembers ==
    ASSUME NEW S, NEW s \in Seq(S), NEW i \in 1 .. Len(s), Distinct(s),
           NEW r, r = RemoveNth(s, i)
    PROVE  /\ r \in Seq(S)
           /\ Len(r) = Len(s) - 1
           /\ \A n \in 1 .. Len(r) :
                 r[n] = IF n < i THEN s[n] ELSE s[n + 1]
           /\ Members(r) = Members(s) \ {s[i]}
           /\ Distinct(r)
<1> DEFINE a == SubSeq(s, 1, i - 1)
           b == SubSeq(s, i + 1, Len(s))
<1>1. /\ Len(s) \in Nat
      /\ a \in Seq(S) /\ Len(a) = i - 1
      /\ \A n \in 1 .. i - 1 : a[n] = s[n]
  OBVIOUS
<1>2. /\ b \in Seq(S) /\ Len(b) = Len(s) - i
      /\ \A n \in 1 .. Len(s) - i : b[n] = s[n + i]
  OBVIOUS
<1>0. r = a \o b
  BY DEF RemoveNth
<1> HIDE DEF a, b
<1>3. /\ r \in Seq(S)
      /\ Len(r) = Len(s) - 1
      /\ \A n \in 1 .. Len(r) : r[n] = IF n < i THEN a[n] ELSE b[n - (i - 1)]
  <2>1. a \in Seq(S) /\ b \in Seq(S)
    BY <1>0, <1>1, <1>2
  <2>2. /\ a \o b \in Seq(S)
        /\ Len(a \o b) = Len(a) + Len(b)
        /\ \A n \in 1 .. Len(a) + Len(b) :
              (a \o b)[n] = IF n <= Len(a) THEN a[n] ELSE b[n - Len(a)]
    BY <2>1, ConcatProperties, Zenon
  <2> QED  BY <1>0, <1>1, <1>2, <2>2
<1>4. \A n \in 1 .. Len(r) : r[n] = IF n < i THEN s[n] ELSE s[n + 1]
  <2> SUFFICES ASSUME NEW n \in 1 .. Len(r)
               PROVE  r[n] = IF n < i THEN s[n] ELSE s[n + 1]
    OBVIOUS
  <2>1. CASE n < i
    BY <1>1, <1>3, <2>1
  <2>2. CASE n >= i
    <3>1. /\ n - (i - 1) \in 1 .. Len(s) - i
          /\ (n - (i - 1)) + i = n + 1
          /\ ~ (n < i)
      BY <1>1, <1>3, <2>2
    <3>2. r[n] = b[n - (i - 1)]
      BY <1>3, <3>1
    <3>3. b[n - (i - 1)] = s[(n - (i - 1)) + i]
      BY <1>2, <3>1
    <3> QED  BY <3>1, <3>2, <3>3
  <2> QED  BY <1>1, <1>3, <2>1, <2>2
<1>5. \A n \in 1 .. Len(s) : n # i =>
         \E m \in 1 .. Len(r) : r[m] = s[n]
  <2> SUFFICES ASSUME NEW n \in 1 .. Len(s), n # i
               PROVE  \E m \in 1 .. Len(r) : r[m] = s[n]
    OBVIOUS
  <2>1. CASE n < i
    <3>1. n \in 1 .. Len(r) /\ r[n] = s[n]
      BY <1>1, <1>3, <1>4, <2>1
    <3> QED  BY <3>1
  <2>2. CASE n > i
    <3>1. n - 1 \in 1 .. Len(r) /\ r[n - 1] = s[n]
      BY <1>1, <1>3, <1>4, <2>2
    <3> QED  BY <3>1
  <2> QED  BY <2>1, <2>2
<1>6. Members(r) = Members(s) \ {s[i]}
  <2>1. ASSUME NEW n \in 1 .. Len(r) PROVE r[n] \in Members(s) \ {s[i]}
    <3>1. \E m \in 1 .. Len(s) : m # i /\ r[n] = s[m]
      <4>1. CASE n < i
        <5>1. n \in 1 .. Len(s) /\ n # i /\ r[n] = s[n]
          BY <1>1, <1>3, <1>4, <4>1
        <5> QED  BY <5>1
      <4>2. CASE n >= i
        <5>1. n + 1 \in 1 .. Len(s) /\ n + 1 # i /\ r[n] = s[n + 1]
          BY <1>1, <1>3, <1>4, <4>2
        <5> QED  BY <5>1
      <4>3. n < i \/ n >= i
        OBVIOUS
      <4> QED  BY <4>1, <4>2, <4>3
    <3> QED  BY <3>1 DEF Members, Distinct
  <2>2. ASSUME NEW x \in Members(s), x # s[i] PROVE x \in Members(r)
    BY <1>5, <2>2 DEF Members
  <2>3. ASSUME NEW x \in Members(r) PROVE x \in Members(s) \ {s[i]}
    BY <2>1 DEF Members
  <2> QED  BY <2>2, <2>3
<1>7. Distinct(r)
  <2> DEFINE at(n) == IF n < i THEN n ELSE n + 1
  <2>1. ASSUME NEW n \in 1 .. Len(r)
        PROVE  at(n) \in 1 .. Len(s) /\ r[n] = s[at(n)]
    BY <1>1, <1>3, <1>4
  <2>2. ASSUME NEW n \in 1 .. Len(r), NEW m \in 1 .. Len(r), at(n) = at(m)
        PROVE  n = m
    BY <2>2
  <2> HIDE DEF at
  <2> QED  BY <2>1, <2>2 DEF Distinct
<1> QED  BY <1>3, <1>4, <1>6, <1>7

\* rl_splice() into the list: one entry joins, wherever it is.
LEMMA InsertMembers ==
    ASSUME NEW S, NEW s \in Seq(S), NEW e \in S, e \notin Members(s),
           NEW i \in 1 .. Len(s) + 1, Distinct(s),
           NEW r, r = InsertBefore(s, i, e)
    PROVE  /\ r \in Seq(S)
           /\ Len(r) = Len(s) + 1
           /\ \A n \in 1 .. Len(r) :
                 r[n] = IF n < i THEN s[n] ELSE IF n = i THEN e ELSE s[n - 1]
           /\ Members(r) = Members(s) \cup {e}
           /\ Distinct(r)
<1> DEFINE a == SubSeq(s, 1, i - 1)
           b == SubSeq(s, i, Len(s))
           ae == a \o <<e>>
<1>1. /\ Len(s) \in Nat
      /\ a \in Seq(S) /\ Len(a) = i - 1
      /\ \A n \in 1 .. i - 1 : a[n] = s[n]
  OBVIOUS
<1>2. /\ b \in Seq(S) /\ Len(b) = Len(s) - i + 1
      /\ \A n \in 1 .. Len(s) - i + 1 : b[n] = s[n + i - 1]
  OBVIOUS
<1>0. r = ae \o b
  BY DEF InsertBefore
<1> HIDE DEF a, b
<1>3. /\ ae \in Seq(S) /\ Len(ae) = i
      /\ \A n \in 1 .. i - 1 : ae[n] = a[n]
      /\ ae[i] = e
  BY <1>1
<1> HIDE DEF ae
<1>4. /\ r \in Seq(S)
      /\ Len(r) = Len(s) + 1
      /\ \A n \in 1 .. Len(r) : r[n] = IF n <= i THEN ae[n] ELSE b[n - i]
  <2>1. ae \in Seq(S) /\ b \in Seq(S)
    BY <1>0, <1>2, <1>3
  <2>2. /\ ae \o b \in Seq(S)
        /\ Len(ae \o b) = Len(ae) + Len(b)
        /\ \A n \in 1 .. Len(ae) + Len(b) :
              (ae \o b)[n] = IF n <= Len(ae) THEN ae[n] ELSE b[n - Len(ae)]
    BY <2>1, ConcatProperties, Zenon
  <2> QED  BY <1>0, <1>1, <1>2, <1>3, <2>2
<1>5. \A n \in 1 .. Len(r) :
         r[n] = IF n < i THEN s[n] ELSE IF n = i THEN e ELSE s[n - 1]
  <2> SUFFICES ASSUME NEW n \in 1 .. Len(r)
               PROVE  r[n] = IF n < i THEN s[n]
                             ELSE IF n = i THEN e ELSE s[n - 1]
    OBVIOUS
  <2>1. CASE n <= i
    BY <1>1, <1>3, <1>4, <2>1
  <2>2. CASE n > i
    BY <1>1, <1>2, <1>4, <2>2
  <2> QED  BY <2>1, <2>2
<1>6. \A n \in 1 .. Len(s) : \E m \in 1 .. Len(r) : r[m] = s[n]
  <2> SUFFICES ASSUME NEW n \in 1 .. Len(s)
               PROVE  \E m \in 1 .. Len(r) : r[m] = s[n]
    OBVIOUS
  <2>1. CASE n < i
    <3>1. n \in 1 .. Len(r) /\ r[n] = s[n]
      BY <1>1, <1>4, <1>5, <2>1
    <3> QED  BY <3>1
  <2>2. CASE n >= i
    <3>1. n + 1 \in 1 .. Len(r) /\ r[n + 1] = s[n]
      BY <1>1, <1>4, <1>5, <2>2
    <3> QED  BY <3>1
  <2> QED  BY <2>1, <2>2
<1>7. ASSUME NEW n \in 1 .. Len(r), n # i
      PROVE  \E m \in 1 .. Len(s) : r[n] = s[m] /\ m = IF n < i THEN n ELSE n - 1
  <2>1. CASE n < i
    <3>1. n \in 1 .. Len(s) /\ r[n] = s[n]
      BY <1>1, <1>4, <1>5, <2>1
    <3> QED  BY <2>1, <3>1
  <2>2. CASE n > i
    <3>1. n - 1 \in 1 .. Len(s) /\ r[n] = s[n - 1] /\ ~ (n < i)
      BY <1>1, <1>4, <1>5, <2>2
    <3> QED  BY <3>1
  <2> QED  BY <1>1, <1>7, <2>1, <2>2
<1>8. Members(r) = Members(s) \cup {e}
  <2>1. ASSUME NEW n \in 1 .. Len(r) PROVE r[n] \in Members(s) \cup {e}
    <3>1. CASE n = i
      BY <1>5, <3>1
    <3> QED  BY <1>7, <3>1 DEF Members
  <2>2. e \in Members(r)
    <3>1. i \in 1 .. Len(r) /\ r[i] = e
      BY <1>1, <1>4, <1>5
    <3> QED  BY <3>1 DEF Members
  <2>3. ASSUME NEW x \in Members(s) PROVE x \in Members(r)
    BY <1>6 DEF Members
  <2>4. ASSUME NEW x \in Members(r) PROVE x \in Members(s) \cup {e}
    BY <2>1 DEF Members
  <2> QED  BY <2>2, <2>3, <2>4
<1>9. Distinct(r)
  <2>1. \A n \in 1 .. Len(s) : s[n] # e
    BY DEF Members
  <2>2. ASSUME NEW n \in 1 .. Len(r), NEW m \in 1 .. Len(r), r[n] = r[m], n < m
        PROVE  FALSE
    <3>1. n # i /\ m # i
      <4>1. r[i] = e /\ i \in 1 .. Len(r)
        BY <1>1, <1>4, <1>5
      <4>2. ASSUME NEW k \in 1 .. Len(r), k # i PROVE r[k] # e
        BY <1>7, <2>1, <4>2
      <4>3. n # m
        BY <1>1, <1>4, <2>2
      <4> QED  BY <2>2, <4>1, <4>2, <4>3
    <3>2. PICK k \in 1 .. Len(s) : r[n] = s[k] /\ k = IF n < i THEN n ELSE n - 1
      BY <1>7, <3>1
    <3>3. PICK l \in 1 .. Len(s) : r[m] = s[l] /\ l = IF m < i THEN m ELSE m - 1
      BY <1>7, <3>1
    <3>4. k = l
      BY <2>2, <3>2, <3>3 DEF Distinct
    <3> QED  BY <1>1, <2>2, <3>1, <3>2, <3>3, <3>4
  <2> QED  BY <1>1, <1>4, <2>2 DEF Distinct
<1> QED  BY <1>4, <1>5, <1>8, <1>9

=============================================================================
