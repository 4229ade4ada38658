--------------------------- MODULE ProcessesProofs ---------------------------
(***************************************************************************)
(* Proofs about Processes, for every size of the process table and every   *)
(* set of threads, of programs that do not wait for a child in two threads *)
(* and in which init leaves by Exit(): the free list, the family of the    *)
(* processes and the counts of their threads are sound, and no thread      *)
(* sleeps through the exit of a child it waits for.  At the end, proofs    *)
(* about the threads of one process (ThreadLife), for every set of PTCBs   *)
(* and of exit values: the reference counts of the PTCBs are exact, and a  *)
(* ThreadJoin() delivers what its target returned.                         *)
(***************************************************************************)
EXTENDS Processes, ThreadLife, Lists, FiniteSetTheorems

-----------------------------------------------------------------------------
(* The inductive invariant.  The first part is about the process table.    *)

\* The processes that have a parent.
Family == {p \in Pids : p > InitPid /\ pstate[p] # "FREE"}

TreeTypes ==
    /\ pstate \in [Pids -> {"FREE", "ALIVE", "ZOMBIE"}]
    /\ parent \in [Pids -> Pids \cup {NOPROC}]
    /\ children_list \in [Pids -> Seq(Pids)]
    /\ exited_list \in [Pids -> Seq(Pids)]
    /\ pcb_freelist \in Pids \cup {NOPROC}

\* The null process and init have no parent, and a PCB of their own.
RootInv == \A p \in {0, InitPid} : pstate[p] # "FREE" /\ parent[p] = NOPROC

\* Each list of a process holds the children it is for, each once.
ListInv == \A q \in Pids :
    /\ Distinct(children_list[q]) /\ Distinct(exited_list[q])
    /\ Members(children_list[q]) = {p \in Family : parent[p] = q}
    /\ Members(exited_list[q]) = {p \in Family : parent[p] = q /\ pstate[p] = "ZOMBIE"}

ParentInv == \A p \in Family : parent[p] \in Pids \ {0} /\ pstate[parent[p]] = "ALIVE"

\* Whoever looks for a parent gets to init: no processes are each other's
\* ancestors.
Acyclic == \A S \in SUBSET Family : S # {} => \E p \in S : parent[p] \notin S

TableInv == TreeTypes /\ FreeListSound /\ RootInv /\ ListInv /\ ParentInv /\ Acyclic

-----------------------------------------------------------------------------
(* The second part is about the threads.                                   *)

ThreadTypes ==
    /\ thread_count \in [Pids -> Nat]
    /\ owner \in [Threads -> Pids \cup {NOPROC}]
    /\ place \in [Threads -> Places]
    /\ child \in [Threads -> Pids \cup {NOPROC}]
    /\ kernel \in Threads \cup {Nobody}

\* A thread that exists belongs to a process, but not to the null process,
\* and waits for a child or for none.
OwnerInv == \A t \in Threads :
    /\ owner[t] = NOPROC <=> place[t] = "none"
    /\ owner[t] # 0
    /\ child[t] = NOPROC <=> place[t] \notin {"one", "one woken"}
    /\ kernel = t <=> place[t] = "exit loop"

\* Only the last thread of init is in Exit().
ExitInv == \A t \in Threads :
    place[t] \in {"exit", "exit woken", "exit loop"} =>
        owner[t] = InitPid /\ thread_count[InitPid] = 1

\* The child a thread waits for stays its process's child, and no other
\* thread of the process reaps it.
WaitInv == \A t \in Threads : child[t] # NOPROC =>
    /\ child[t] \in Family /\ parent[child[t]] = owner[t]
    /\ \A u \in Waiters(t) : child[u] \notin {child[t], NOPROC}

TeamInv == ThreadTypes /\ OwnerInv /\ ExitInv /\ ThreadCountExact
           /\ WaitInv /\ NoMissedExit

IInv == TableInv /\ TeamInv /\ aborted = FALSE

-----------------------------------------------------------------------------
(* The free list.                                                          *)

Free == {p \in Pids : pstate[p] = "FREE"}

\* The links par, from the PCB first on, lead once through every PCB of free.
FreeListed(free, par, first) ==
    \E list \in Bijection(1 .. Cardinality(free), free) :
        /\ first = IF Cardinality(free) = 0 THEN NOPROC ELSE list[1]
        /\ \A i \in 1 .. Cardinality(free) :
              par[list[i]] = IF i = Cardinality(free) THEN NOPROC ELSE list[i + 1]

\* The pids are finitely many numbers.
LEMMA PidsFacts ==
    /\ Pids \in SUBSET Nat /\ IsFiniteSet(Pids) /\ Cardinality(Pids) = MAX_PROC
    /\ InitPid \in Pids /\ 0 \in Pids /\ NOPROC \notin Pids
    /\ \A S \in SUBSET Pids : /\ Cardinality(S) \in 0 .. MAX_PROC
                              /\ Cardinality(S) = 0 <=> S = {}
<1>1. /\ Pids \in SUBSET Nat /\ InitPid \in Pids /\ 0 \in Pids /\ NOPROC \notin Pids
      /\ 0 \in Int /\ MAX_PROC - 1 \in Int
      /\ MAX_PROC = (MAX_PROC - 1) - 0 + 1 /\ ~ (0 > MAX_PROC - 1)
      /\ MAX_PROC \in Nat
  BY ProcAssumption DEF Pids, InitPid, NOPROC
<1>2. IsFiniteSet(Pids) /\ Cardinality(Pids) = MAX_PROC
  <2>1. /\ IsFiniteSet(0 .. MAX_PROC - 1)
        /\ Cardinality(0 .. MAX_PROC - 1)
             = IF 0 > MAX_PROC - 1 THEN 0 ELSE (MAX_PROC - 1) - 0 + 1
    BY <1>1, FS_Interval, Zenon
  <2> QED  BY <1>1, <2>1 DEF Pids
<1>3. ASSUME NEW S \in SUBSET Pids
      PROVE  /\ Cardinality(S) \in 0 .. MAX_PROC
             /\ Cardinality(S) = 0 <=> S = {}
  <2>1. /\ IsFiniteSet(S) /\ Cardinality(S) \in Nat
        /\ Cardinality(S) <= Cardinality(Pids)
        /\ Cardinality(S) = 0 <=> S = {}
    BY <1>2, FS_Subset, FS_CardinalityType, FS_EmptySet
  <2> QED  BY <2>1, <1>1, <1>2
<1> QED  BY <1>1, <1>2, <1>3

\* acquire_PCB(): the first PCB leaves the list.
LEMMA TakeFirst ==
    ASSUME NEW free \in SUBSET Pids, NEW par, NEW p \in Pids,
           FreeListed(free, par, p),
           NEW par2, \A q \in free \ {p} : par2[q] = par[q]
    PROVE  /\ p \in free
           /\ Cardinality(free \ {p}) = Cardinality(free) - 1
           /\ FreeListed(free \ {p}, par2, par[p])
<1> DEFINE n == Cardinality(free)
<1>1. PICK list \in Bijection(1 .. n, free) :
         /\ p = IF n = 0 THEN NOPROC ELSE list[1]
         /\ \A i \in 1 .. n :
               par[list[i]] = IF i = n THEN NOPROC ELSE list[i + 1]
  BY DEF FreeListed
<1>2. n \in Nat /\ n # 0 /\ p = list[1]
  BY <1>1, PidsFacts, ProcAssumption
<1>3. /\ list \in [1 .. n -> free]
      /\ \A i, j \in 1 .. n : list[i] = list[j] => i = j
      /\ \A x \in free : \E i \in 1 .. n : list[i] = x
  BY DEF Bijection, Injection, Surjection, IsInjective
<1>4. p \in free
  <2>1. 1 \in 1 .. n
    BY <1>2
  <2> HIDE DEF n
  <2> QED  BY <1>2, <1>3, <2>1
<1>5. Cardinality(free \ {p}) = n - 1
  BY <1>4, PidsFacts, FS_Subset, FS_RemoveElement
<1> HIDE DEF n
<1> DEFINE rest == [i \in 1 .. n - 1 |-> list[i + 1]]
<1>6. rest \in Bijection(1 .. n - 1, free \ {p})
  <2>1. \A i \in 1 .. n - 1 : i + 1 \in 1 .. n /\ i + 1 # 1 /\ 1 \in 1 .. n
    BY <1>2
  <2>2. rest \in [1 .. n - 1 -> free \ {p}]
    BY <1>2, <1>3, <2>1
  <2>3. ASSUME NEW i \in 1 .. n - 1, NEW j \in 1 .. n - 1, rest[i] = rest[j]
        PROVE  i = j
    <3>1. i + 1 = j + 1
      BY <1>3, <2>1, <2>3
    <3> QED  BY <3>1
  <2>4. ASSUME NEW x \in free \ {p}
        PROVE  \E i \in 1 .. n - 1 : rest[i] = x
    <3>1. PICK i \in 1 .. n : list[i] = x
      BY <1>3
    <3>2. i - 1 \in 1 .. n - 1 /\ (i - 1) + 1 = i
      BY <1>2, <3>1
    <3> QED  BY <3>1, <3>2
  <2> HIDE DEF rest
  <2> QED  BY <2>2, <2>3, <2>4 DEF Bijection, Injection, Surjection, IsInjective
<1>7. par[p] = IF n - 1 = 0 THEN NOPROC ELSE rest[1]
  <2>1. 1 \in 1 .. n /\ (n = 1 <=> n - 1 = 0) /\ (n # 1 => 1 \in 1 .. n - 1)
    BY <1>2
  <2> QED  BY <1>1, <1>2, <2>1
<1>8. ASSUME NEW i \in 1 .. n - 1
      PROVE  par2[rest[i]] = IF i = n - 1 THEN NOPROC ELSE rest[i + 1]
  <2>1. /\ i + 1 \in 1 .. n /\ (i + 1 = n <=> i = n - 1)
        /\ i # n - 1 => i + 1 \in 1 .. n - 1
    BY <1>2
  <2>2. rest[i] \in free \ {p}
    BY <1>6 DEF Bijection, Injection
  <2>3. par2[rest[i]] = par[list[i + 1]]
    BY <2>2
  <2> QED  BY <1>1, <2>1, <2>3
<1> HIDE DEF rest
<1>9. FreeListed(free \ {p}, par2, par[p])
  BY <1>5, <1>6, <1>7, <1>8, ZenonT(40) DEF FreeListed
<1> QED  BY <1>4, <1>5, <1>9 DEF n

\* release_PCB(): a PCB becomes the first of the list.
LEMMA PutFirst ==
    ASSUME NEW free \in SUBSET Pids, NEW par, NEW first, NEW p \in Pids \ free,
           FreeListed(free, par, first),
           NEW par2, \A q \in free : par2[q] = par[q], par2[p] = first
    PROVE  /\ Cardinality(free \cup {p}) = Cardinality(free) + 1
           /\ FreeListed(free \cup {p}, par2, p)
<1> DEFINE n == Cardinality(free)
<1>1. PICK list \in Bijection(1 .. n, free) :
         /\ first = IF n = 0 THEN NOPROC ELSE list[1]
         /\ \A i \in 1 .. n :
               par[list[i]] = IF i = n THEN NOPROC ELSE list[i + 1]
  BY DEF FreeListed
<1>2. n \in Nat
  BY PidsFacts, ProcAssumption
<1>3. /\ list \in [1 .. n -> free]
      /\ \A i, j \in 1 .. n : list[i] = list[j] => i = j
      /\ \A x \in free : \E i \in 1 .. n : list[i] = x
  BY DEF Bijection, Injection, Surjection, IsInjective
<1>5. Cardinality(free \cup {p}) = n + 1
  BY PidsFacts, FS_Subset, FS_AddElement
<1> HIDE DEF n
<1> DEFINE more == [i \in 1 .. n + 1 |-> IF i = 1 THEN p ELSE list[i - 1]]
<1>4. \A i \in 1 .. n + 1 : i # 1 => i - 1 \in 1 .. n
  BY <1>2
<1>6. more \in Bijection(1 .. n + 1, free \cup {p})
  <2>2. more \in [1 .. n + 1 -> free \cup {p}]
    BY <1>3, <1>4
  <2>3. ASSUME NEW i \in 1 .. n + 1, NEW j \in 1 .. n + 1, more[i] = more[j]
        PROVE  i = j
    <3>1. CASE i = 1 \/ j = 1
      BY <1>3, <1>4, <2>3, <3>1
    <3>2. CASE i # 1 /\ j # 1
      <4>1. i - 1 = j - 1
        BY <1>3, <1>4, <2>3, <3>2
      <4> QED  BY <4>1
    <3> QED  BY <3>1, <3>2
  <2>4. ASSUME NEW x \in free \cup {p}
        PROVE  \E i \in 1 .. n + 1 : more[i] = x
    <3>1. CASE x = p
      <4>1. 1 \in 1 .. n + 1
        BY <1>2
      <4> QED  BY <4>1, <3>1
    <3>2. CASE x \in free
      <4>1. PICK i \in 1 .. n : list[i] = x
        BY <1>3, <3>2
      <4>2. i + 1 \in 1 .. n + 1 /\ i + 1 # 1 /\ (i + 1) - 1 = i
        BY <1>2, <4>1
      <4> QED  BY <4>1, <4>2
    <3> QED  BY <3>1, <3>2
  <2> HIDE DEF more
  <2> QED  BY <2>2, <2>3, <2>4 DEF Bijection, Injection, Surjection, IsInjective
<1>7. p = IF n + 1 = 0 THEN NOPROC ELSE more[1]
  <2>1. n + 1 # 0 /\ 1 \in 1 .. n + 1
    BY <1>2
  <2> QED  BY <2>1
<1>8. ASSUME NEW i \in 1 .. n + 1
      PROVE  par2[more[i]] = IF i = n + 1 THEN NOPROC ELSE more[i + 1]
  <2>1. CASE i = 1
    <3>1. /\ more[i] = p /\ (n = 0 <=> i = n + 1)
          /\ n # 0 => i + 1 \in 1 .. n + 1 /\ i + 1 # 1 /\ (i + 1) - 1 = 1
      BY <1>2, <2>1
    <3> QED  BY <1>1, <3>1
  <2>2. CASE i # 1
    <3>1. /\ i - 1 \in 1 .. n /\ (i - 1 = n <=> i = n + 1) /\ (i - 1) + 1 = i
          /\ i # n + 1 => i + 1 \in 1 .. n + 1 /\ i + 1 # 1 /\ (i + 1) - 1 = i
      BY <1>2, <2>2
    <3>2. more[i] = list[i - 1] /\ list[i - 1] \in free
      BY <1>3, <2>2, <3>1
    <3>3. par2[more[i]] = par[list[i - 1]]
      BY <3>2
    <3> QED  BY <1>1, <3>1, <3>3
  <2> QED  BY <2>1, <2>2
<1> HIDE DEF more
<1>9. FreeListed(free \cup {p}, par2, p)
  <2> DEFINE k == Cardinality(free \cup {p})
  <2>1. k = n + 1
    BY <1>5
  <2> HIDE DEF k
  <2>2. /\ more \in Bijection(1 .. k, free \cup {p})
        /\ p = IF k = 0 THEN NOPROC ELSE more[1]
        /\ \A i \in 1 .. k : par2[more[i]] = IF i = k THEN NOPROC ELSE more[i + 1]
    BY <1>6, <1>7, <1>8, <2>1
  <2> QED  BY <2>2 DEF FreeListed, k
<1> QED  BY <1>5, <1>9 DEF n

\* Links that agree on the free PCBs make the same list.
LEMMA SameFree ==
    ASSUME NEW free, NEW par, NEW first, FreeListed(free, par, first),
           NEW par2, \A q \in free : par2[q] = par[q]
    PROVE  FreeListed(free, par2, first)
<1> DEFINE n == Cardinality(free)
<1>1. PICK list \in Bijection(1 .. n, free) :
         /\ first = IF n = 0 THEN NOPROC ELSE list[1]
         /\ \A i \in 1 .. n :
               par[list[i]] = IF i = n THEN NOPROC ELSE list[i + 1]
  BY DEF FreeListed
<1> HIDE DEF n
<1>2. \A i \in 1 .. n : list[i] \in free
  BY DEF Bijection, Injection
<1>3. \A i \in 1 .. n : par2[list[i]] = IF i = n THEN NOPROC ELSE list[i + 1]
  BY <1>1, <1>2
<1> USE DEF n
<1> QED  BY <1>1, <1>3 DEF FreeListed

\* The free list, read off the table link by link.
LEMMA FreeListIs ==
    FreeListSound <=> /\ FreeListed(Free, parent, pcb_freelist)
                      /\ process_count = MAX_PROC - Cardinality(Free)
  BY DEF FreeListSound, FreeListed, Free

-----------------------------------------------------------------------------
(* The lists of the processes.                                             *)

\* The children of a process, last first, as init takes them over.
LEMMA ReverseMembers ==
    ASSUME NEW S, NEW s \in Seq(S)
    PROVE  /\ Reverse(s) \in Seq(S)
           /\ Members(Reverse(s)) = Members(s)
           /\ Distinct(s) => Distinct(Reverse(s))
<1> DEFINE r == Reverse(s)
           pos(i) == (Len(s) - i) + 1
<1>1. Len(s) \in Nat /\ \A i \in 1 .. Len(s) : s[i] \in S
  OBVIOUS
<1>2. /\ r = [i \in 1 .. Len(s) |-> s[pos(i)]]
      /\ \A i \in 1 .. Len(s) : pos(i) \in 1 .. Len(s) /\ pos(pos(i)) = i
  BY <1>1 DEF Reverse
<1>3. r \in [1 .. Len(s) -> S]
  <2> HIDE DEF pos, r
  <2> QED  BY <1>1, <1>2
<1>4. r \in Seq(S) /\ Len(r) = Len(s)
  <2> HIDE DEF r
  <2> QED  BY <1>1, <1>3
<1>5. \A i \in 1 .. Len(s) : r[i] = s[pos(i)]
  <2> HIDE DEF pos, r
  <2> QED  BY <1>2
<1> HIDE DEF r, pos
<1>6. Members(r) = Members(s)
  <2>1. ASSUME NEW x \in Members(s) PROVE x \in Members(r)
    <3>1. PICK i \in 1 .. Len(s) : s[i] = x
      BY DEF Members
    <3>2. pos(i) \in 1 .. Len(r) /\ r[pos(i)] = x
      BY <1>2, <1>4, <1>5, <3>1
    <3> QED  BY <3>2 DEF Members
  <2>2. ASSUME NEW x \in Members(r) PROVE x \in Members(s)
    BY <1>2, <1>4, <1>5 DEF Members
  <2> QED  BY <2>1, <2>2
<1>7. ASSUME Distinct(s) PROVE Distinct(r)
  <2> SUFFICES ASSUME NEW i \in 1 .. Len(s), NEW j \in 1 .. Len(s), r[i] = r[j]
               PROVE  i = j
    BY <1>4 DEF Distinct
  <2>1. pos(i) = pos(j)
    BY <1>2, <1>5, <1>7 DEF Distinct
  <2>2. pos(pos(i)) = pos(pos(j))
    BY <2>1
  <2> QED  BY <1>2, <2>2
<1> QED  BY <1>4, <1>6, <1>7 DEF r

\* rlist_remove() of the node of a process: it is in no list any more.
LEMMA UnlinkedMembers ==
    ASSUME NEW lists \in [Pids -> Seq(Pids)], NEW p \in Pids,
           \A q \in Pids : Distinct(lists[q])
    PROVE  /\ Unlinked(lists, p) \in [Pids -> Seq(Pids)]
           /\ \A q \in Pids : /\ Distinct(Unlinked(lists, p)[q])
                              /\ Members(Unlinked(lists, p)[q]) = Members(lists[q]) \ {p}
<1> DEFINE pos(q) == {i \in DOMAIN lists[q] : lists[q][i] = p}
           u(q) == IF pos(q) = {} THEN lists[q]
                   ELSE RemoveAt(lists[q], CHOOSE i \in pos(q) : TRUE)
<1>1. Unlinked(lists, p) = [q \in Pids |-> u(q)]
  BY DEF Unlinked
<1>2. ASSUME NEW q \in Pids
      PROVE  /\ u(q) \in Seq(Pids) /\ Distinct(u(q))
             /\ Members(u(q)) = Members(lists[q]) \ {p}
  <2>1. /\ lists[q] \in Seq(Pids) /\ DOMAIN lists[q] = 1 .. Len(lists[q])
        /\ Distinct(lists[q])
    OBVIOUS
  <2>2. CASE pos(q) = {}
    <3>1. p \notin Members(lists[q])
      BY <2>1, <2>2 DEF Members
    <3> QED  BY <2>1, <2>2, <3>1
  <2>3. CASE pos(q) # {}
    <3> DEFINE i == CHOOSE i \in pos(q) : TRUE
    <3>1. i \in 1 .. Len(lists[q]) /\ lists[q][i] = p
      BY <2>1, <2>3
    <3>2. u(q) = RemoveNth(lists[q], i)
      BY <2>3 DEF RemoveAt, RemoveNth
    <3> HIDE DEF i, u
    <3> QED  BY SMTT(30), <2>1, <3>1, <3>2, RemoveMembers
  <2> QED  BY <2>2, <2>3
<1> HIDE DEF u
<1> QED  BY <1>1, <1>2

-----------------------------------------------------------------------------
(* What the operations do to the process table.                            *)

\* acquire_PCB() and the links to the parent in sys_Exec().
LEMMA ForkTable ==
    ASSUME TableInv, NEW p \in Pids, NEW o \in Pids, o # 0, pstate[o] = "ALIVE",
           acquire_PCB(p),
           pstate' = [pstate EXCEPT ![p] = "ALIVE"],
           parent' = [parent EXCEPT ![p] = o],
           children_list' = [children_list EXCEPT ![o] = <<p>> \o @],
           UNCHANGED exited_list
    PROVE  /\ TableInv'
           /\ p > InitPid /\ pstate[p] = "FREE"
           /\ Family' = Family \cup {p}
<1> USE DEF acquire_PCB
<1>1. /\ TreeTypes /\ RootInv /\ ListInv /\ ParentInv /\ Acyclic
      /\ FreeListed(Free, parent, pcb_freelist)
      /\ process_count = MAX_PROC - Cardinality(Free)
      /\ Free \in SUBSET Pids
  BY FreeListIs DEF TableInv, Free
<1>2. /\ p \in Free
      /\ Cardinality(Free \ {p}) = Cardinality(Free) - 1
      /\ FreeListed(Free \ {p}, parent', parent[p])
  <2>1. \A q \in Free \ {p} : parent'[q] = parent[q]
    BY <1>1 DEF TreeTypes
  <2> QED  BY <1>1, <2>1, TakeFirst
<1>3. pstate[p] = "FREE" /\ p > InitPid /\ p # o
  BY <1>1, <1>2 DEF Free, RootInv, Pids, InitPid
<1>4. Family' = Family \cup {p} /\ p \notin Family /\ Free' = Free \ {p}
  BY <1>1, <1>3 DEF TreeTypes, Family, Free
<1>5. FreeListSound'
  <2>1. FreeListed(Free', parent', pcb_freelist')
    BY <1>2, <1>4
  <2>2. Cardinality(Free) \in 0 .. MAX_PROC /\ Cardinality(Free) - 1 \in 0 .. MAX_PROC
    BY <1>1, <1>2, PidsFacts
  <2>3. process_count' = MAX_PROC - Cardinality(Free')
    <3> HIDE DEF acquire_PCB
    <3>1. process_count' = process_count + 1 /\ MAX_PROC \in Nat
      BY ProcAssumption DEF acquire_PCB
    <3> QED  BY <1>1, <1>2, <1>4, <2>2, <3>1
  <2> QED  BY <2>1, <2>3 DEF FreeListSound, FreeListed, Free
<1>6. /\ children_list'[o] = <<p>> \o children_list[o]
      /\ \A q \in Pids \ {o} : children_list'[q] = children_list[q]
      /\ \A q \in Pids : children_list[q] \in Seq(Pids)
  BY <1>1 DEF TreeTypes
<1>7. TreeTypes' /\ RootInv'
  <2>1. <<p>> \o children_list[o] \in Seq(Pids)
    BY <1>6, FrontMembers
  <2>2. children_list' \in [Pids -> Seq(Pids)]
    BY <1>1, <2>1 DEF TreeTypes
  <2>3. TreeTypes'
    BY <1>1, <2>2 DEF TreeTypes
  <2>4. 0 # p /\ InitPid # p /\ 0 \in Pids /\ InitPid \in Pids
    BY <1>3, PidsFacts DEF InitPid
  <2>5. RootInv'
    BY <1>1, <2>4 DEF TreeTypes, RootInv
  <2> QED  BY <2>3, <2>5
<1>8. ListInv'
  <2>1. \A q \in Pids :
           /\ Distinct(exited_list'[q])
           /\ Members(exited_list'[q])
                = {x \in Family' : parent'[x] = q /\ pstate'[x] = "ZOMBIE"}
    BY <1>1, <1>4 DEF ListInv, TreeTypes, Family
  <2>2. \A q \in Pids \ {o} :
           /\ Distinct(children_list'[q])
           /\ Members(children_list'[q]) = {x \in Family' : parent'[x] = q}
    BY <1>1, <1>4, <1>6 DEF ListInv, TreeTypes, Family
  <2>3. /\ Distinct(children_list'[o])
        /\ Members(children_list'[o]) = {p} \cup Members(children_list[o])
    <3>1. p \notin Members(children_list[o]) /\ Distinct(children_list[o])
      BY <1>1, <1>4 DEF ListInv
    <3> QED  BY <1>6, <3>1, FrontMembers
  <2>4. {p} \cup Members(children_list[o]) = {x \in Family' : parent'[x] = o}
    BY <1>1, <1>4 DEF ListInv, TreeTypes, Family
  <2> QED  BY <2>1, <2>2, <2>3, <2>4 DEF ListInv
<1>9. ParentInv'
  BY <1>1, <1>3, <1>4 DEF ParentInv, TreeTypes, Family
<1>10. Acyclic'
  <2> SUFFICES ASSUME NEW S \in SUBSET Family', S # {}
               PROVE  \E x \in S : parent'[x] \notin S
    BY DEF Acyclic
  <2>1. CASE S = {p}
    BY <1>1, <1>3, <2>1 DEF TreeTypes
  <2>2. CASE S # {p}
    <3>1. S \ {p} \in SUBSET Family /\ S \ {p} # {}
      BY <1>4, <2>2
    <3>2. PICK x \in S \ {p} : parent[x] \notin S \ {p}
      BY <1>1, <3>1 DEF Acyclic
    <3>3. parent'[x] = parent[x] /\ parent[x] # p
      BY <1>1, <1>3, <3>1, <3>2 DEF TreeTypes, ParentInv, Family
    <3> QED  BY <3>2, <3>3
  <2> QED  BY <2>1, <2>2
<1> QED  BY <1>3, <1>4, <1>5, <1>7, <1>8, <1>9, <1>10 DEF TableInv

\* cleanup_zombie(): a zombie leaves the family.
LEMMA ReapTable ==
    ASSUME TableInv, NEW c \in Family, pstate[c] # "ALIVE", cleanup_zombie(c)
    PROVE  /\ TableInv'
           /\ Family' = Family \ {c} /\ c \in Pids
           /\ \A q \in Pids \ {c} : pstate'[q] = pstate[q] /\ parent'[q] = parent[q]
           /\ pstate'[c] = "FREE"
<1> USE DEF cleanup_zombie, release_PCB
<1>1. /\ TreeTypes /\ RootInv /\ ListInv /\ ParentInv /\ Acyclic
      /\ FreeListed(Free, parent, pcb_freelist)
      /\ process_count = MAX_PROC - Cardinality(Free)
      /\ Free \in SUBSET Pids
  BY FreeListIs DEF TableInv, Free
<1>2. c \in Pids /\ c \notin Free /\ pstate[c] = "ZOMBIE" /\ c > InitPid
  BY <1>1 DEF Family, Free, TreeTypes
<1>3. Family' = Family \ {c} /\ Free' = Free \cup {c}
  BY <1>1, <1>2 DEF TreeTypes, Family, Free
<1>4. FreeListSound'
  <2>1. parent'[c] = pcb_freelist /\ \A q \in Free : parent'[q] = parent[q]
    BY <1>1, <1>2 DEF TreeTypes
  <2>2. /\ FreeListed(Free', parent', pcb_freelist')
        /\ Cardinality(Free') = Cardinality(Free) + 1
    <3>1. /\ FreeListed(Free \cup {c}, parent', c)
          /\ Cardinality(Free \cup {c}) = Cardinality(Free) + 1
      <4> HIDE DEF cleanup_zombie, release_PCB
      <4> QED  BY <1>1, <1>2, <2>1, PutFirst
    <3> QED  BY <1>3, <3>1
  <2>3. Cardinality(Free) \in 0 .. MAX_PROC /\ Cardinality(Free') \in 0 .. MAX_PROC
    BY <1>1, <1>2, <1>3, PidsFacts
  <2>4. process_count' = MAX_PROC - Cardinality(Free')
    <3>1. process_count' = process_count - 1 /\ MAX_PROC \in Nat
      BY ProcAssumption
    <3> HIDE DEF cleanup_zombie, release_PCB
    <3> QED  BY <1>1, <2>2, <2>3, <3>1
  <2> QED  BY <2>2, <2>4 DEF FreeListSound, FreeListed, Free
<1>5. /\ \A q \in Pids :
            /\ Distinct(children_list'[q]) /\ Distinct(exited_list'[q])
            /\ Members(children_list'[q]) = Members(children_list[q]) \ {c}
            /\ Members(exited_list'[q]) = Members(exited_list[q]) \ {c}
      /\ children_list' \in [Pids -> Seq(Pids)]
      /\ exited_list' \in [Pids -> Seq(Pids)]
  BY <1>1, <1>2, UnlinkedMembers DEF TreeTypes, ListInv
<1>6. TreeTypes' /\ RootInv'
  BY <1>1, <1>2, <1>5 DEF TreeTypes, RootInv, Pids, InitPid
<1>7. \A q \in Pids \ {c} : pstate'[q] = pstate[q] /\ parent'[q] = parent[q]
  BY <1>1 DEF TreeTypes
<1>8. Family \in SUBSET Pids
  BY DEF Family
<1>9. ListInv'
  BY <1>1, <1>3, <1>5, <1>7, <1>8 DEF ListInv
<1>10. ParentInv'
  BY <1>1, <1>2, <1>3, <1>7, <1>8 DEF ParentInv
<1>11. Acyclic'
  <2> SUFFICES ASSUME NEW S \in SUBSET Family', S # {}
               PROVE  \E x \in S : parent'[x] \notin S
    BY DEF Acyclic
  <2>1. S \in SUBSET Family
    BY <1>3
  <2>2. PICK x \in S : parent[x] \notin S
    BY <1>1, <2>1 DEF Acyclic
  <2> QED  BY <1>3, <1>7, <1>8, <2>2
<1>12. pstate'[c] = "FREE"
  BY <1>1, <1>2 DEF TreeTypes
<1> QED  BY <1>2, <1>3, <1>4, <1>6, <1>7, <1>9, <1>10, <1>11, <1>12 DEF TableInv

\* The last thread of a process other than init: its children pass to init,
\* and it becomes a zombie of its parent.
LEMMA EndTable ==
    ASSUME TableInv, NEW p \in Family, pstate[p] = "ALIVE", pstate[InitPid] = "ALIVE",
           ProcessEnds(p), pstate' = [pstate EXCEPT ![p] = "ZOMBIE"],
           UNCHANGED tableVars
    PROVE  /\ TableInv' /\ Family' = Family
           /\ \A q \in Family : parent'[q] = IF parent[q] = p THEN InitPid ELSE parent[q]
           /\ parent[p] # p /\ p # InitPid /\ p \in Pids /\ parent[p] \in Pids
           /\ \A q \in Pids \ {p, InitPid} : children_list'[q] = children_list[q]
           /\ \A q \in Pids \ {p, parent[p], InitPid} : exited_list'[q] = exited_list[q]
           /\ Members(children_list[InitPid]) \subseteq Members(children_list'[InitPid])
           /\ InitPid # parent[p] /\ exited_list[p] = <<>> =>
                 exited_list'[InitPid] = exited_list[InitPid]
<1> USE DEF ProcessEnds, Reparent, tableVars
<1>1. /\ TreeTypes /\ RootInv /\ ListInv /\ ParentInv /\ Acyclic
      /\ FreeListed(Free, parent, pcb_freelist)
      /\ process_count = MAX_PROC - Cardinality(Free)
      /\ Free \in SUBSET Pids /\ Family \in SUBSET Pids /\ InitPid \in Pids
  BY FreeListIs, PidsFacts DEF TableInv, Free, Family
<1>2. /\ p \in Pids /\ p # InitPid /\ parent[p] \in Pids /\ parent[p] # 0
      /\ pstate[parent[p]] = "ALIVE"
  BY <1>1 DEF Family, ParentInv, Pids, InitPid
<1>3. parent[p] # p
  <2>1. {p} \in SUBSET Family /\ {p} # {}
    OBVIOUS
  <2> QED  BY <1>1, <2>1 DEF Acyclic
<1>4. /\ Family' = Family /\ Free' = Free
      /\ \A q \in Pids : pstate'[q] = IF q = p THEN "ZOMBIE" ELSE pstate[q]
  BY <1>1, <1>2 DEF TreeTypes, Family, Free
<1>5. /\ ToSet(children_list[p]) = Members(children_list[p])
      /\ Members(children_list[p]) = {q \in Family : parent[q] = p}
  <2>1. DOMAIN children_list[p] = 1 .. Len(children_list[p])
    BY <1>1, <1>2 DEF TreeTypes
  <2> QED  BY <1>1, <1>2, <2>1 DEF ToSet, Members, ListInv
<1>6. /\ parent' \in [Pids -> Pids \cup {NOPROC}]
      /\ \A q \in Family : parent'[q] = IF parent[q] = p THEN InitPid ELSE parent[q]
      /\ \A q \in Pids \ Family : parent'[q] = parent[q]
  BY <1>1, <1>5 DEF TreeTypes
<1>7. /\ children_list'[p] = <<>>
      /\ children_list'[InitPid] = Reverse(children_list[p]) \o children_list[InitPid]
      /\ \A q \in Pids \ {p, InitPid} : children_list'[q] = children_list[q]
      /\ DOMAIN children_list' = Pids
  BY <1>1, <1>2 DEF TreeTypes
<1> DEFINE inherited == [exited_list EXCEPT ![InitPid] = @ \o exited_list[p],
                                            ![p] = <<>>]
<1>8. /\ inherited[p] = <<>> /\ DOMAIN inherited = Pids
      /\ inherited[InitPid] = exited_list[InitPid] \o exited_list[p]
      /\ \A q \in Pids \ {p, InitPid} : inherited[q] = exited_list[q]
  BY <1>1, <1>2 DEF TreeTypes
<1>9. exited_list' = [inherited EXCEPT ![parent[p]] = <<p>> \o @]
  OBVIOUS
<1> HIDE DEF inherited, ProcessEnds, Reparent
<1>10. /\ DOMAIN exited_list' = Pids
       /\ exited_list'[parent[p]] = <<p>> \o inherited[parent[p]]
       /\ \A q \in Pids \ {parent[p]} : exited_list'[q] = inherited[q]
  BY <1>2, <1>8, <1>9
<1>11. \A q \in Pids : /\ children_list[q] \in Seq(Pids) /\ Distinct(children_list[q])
                       /\ Members(children_list[q]) = {x \in Family : parent[x] = q}
                       /\ exited_list[q] \in Seq(Pids) /\ Distinct(exited_list[q])
                       /\ Members(exited_list[q])
                            = {x \in Family : parent[x] = q /\ pstate[x] = "ZOMBIE"}
  BY <1>1 DEF TreeTypes, ListInv
<1>12. <<>> \in Seq(Pids) /\ Distinct(<<>>) /\ Members(<<>>) = {}
  BY DEF Distinct, Members
<1>13. /\ children_list'[InitPid] \in Seq(Pids)
       /\ Distinct(children_list'[InitPid])
       /\ Members(children_list'[InitPid])
            = Members(children_list[p]) \cup Members(children_list[InitPid])
  <2>1. /\ Reverse(children_list[p]) \in Seq(Pids)
        /\ Distinct(Reverse(children_list[p]))
        /\ Members(Reverse(children_list[p])) = Members(children_list[p])
    BY <1>2, <1>11, ReverseMembers
  <2>2. Members(children_list[p]) \cap Members(children_list[InitPid]) = {}
    <3> SUFFICES ASSUME NEW x \in Members(children_list[p]),
                        x \in Members(children_list[InitPid])
                 PROVE  FALSE
      OBVIOUS
    <3>1. parent[x] = p /\ parent[x] = InitPid
      BY <1>1, <1>2, <1>11
    <3> QED  BY <1>2, <3>1
  <2> QED  BY <1>1, <1>2, <1>7, <1>11, <2>1, <2>2, ConcatMembers
<1>14. \A q \in Pids : /\ children_list'[q] \in Seq(Pids) /\ Distinct(children_list'[q])
                       /\ Members(children_list'[q]) = {x \in Family : parent'[x] = q}
  <2> SUFFICES ASSUME NEW q \in Pids
               PROVE  /\ children_list'[q] \in Seq(Pids) /\ Distinct(children_list'[q])
                      /\ Members(children_list'[q]) = {x \in Family : parent'[x] = q}
    OBVIOUS
  <2>1. CASE q = p
    BY <1>2, <1>6, <1>7, <1>12, <2>1
  <2>2. CASE q = InitPid
    BY <1>1, <1>2, <1>6, <1>11, <1>13, <2>2
  <2>3. CASE q # p /\ q # InitPid
    BY <1>6, <1>7, <1>11, <2>3
  <2> QED  BY <2>1, <2>2, <2>3
<1>15. \A q \in Pids : /\ inherited[q] \in Seq(Pids) /\ Distinct(inherited[q])
                       /\ Members(inherited[q])
                            = {x \in Family : parent'[x] = q /\ pstate[x] = "ZOMBIE"}
  <2> SUFFICES ASSUME NEW q \in Pids
               PROVE  /\ inherited[q] \in Seq(Pids) /\ Distinct(inherited[q])
                      /\ Members(inherited[q])
                           = {x \in Family : parent'[x] = q /\ pstate[x] = "ZOMBIE"}
    OBVIOUS
  <2>1. CASE q = p
    BY <1>2, <1>6, <1>8, <1>12, <2>1
  <2>2. CASE q = InitPid
    <3>1. Members(exited_list[InitPid]) \cap Members(exited_list[p]) = {}
      <4> SUFFICES ASSUME NEW x \in Members(exited_list[InitPid]),
                          x \in Members(exited_list[p])
                   PROVE  FALSE
        OBVIOUS
      <4>1. parent[x] = p /\ parent[x] = InitPid
        BY <1>1, <1>2, <1>11
      <4> QED  BY <1>2, <4>1
    <3>2. /\ inherited[q] \in Seq(Pids) /\ Distinct(inherited[q])
          /\ Members(inherited[q]) = Members(exited_list[InitPid]) \cup Members(exited_list[p])
      <4> DEFINE e == exited_list[InitPid]
                 f == exited_list[p]
      <4>1. /\ e \in Seq(Pids) /\ Distinct(e) /\ f \in Seq(Pids) /\ Distinct(f)
            /\ Members(e) \cap Members(f) = {} /\ inherited[q] = e \o f
        BY <1>1, <1>2, <1>8, <1>11, <2>2, <3>1
      <4> HIDE DEF e, f
      <4>2. /\ e \o f \in Seq(Pids) /\ Distinct(e \o f)
            /\ Members(e \o f) = Members(e) \cup Members(f)
        BY <4>1, ConcatMembers
      <4> QED  BY <4>1, <4>2 DEF e, f
    <3> QED  BY <1>1, <1>2, <1>6, <1>11, <2>2, <3>2
  <2>3. CASE q # p /\ q # InitPid
    BY SMTT(30), <1>6, <1>8, <1>11, <2>3
  <2> QED  BY <2>1, <2>2, <2>3
<1>16. \A q \in Pids : /\ exited_list'[q] \in Seq(Pids) /\ Distinct(exited_list'[q])
                       /\ Members(exited_list'[q])
                            = {x \in Family : parent'[x] = q /\ pstate'[x] = "ZOMBIE"}
  <2> SUFFICES ASSUME NEW q \in Pids
               PROVE  /\ exited_list'[q] \in Seq(Pids) /\ Distinct(exited_list'[q])
                      /\ Members(exited_list'[q])
                           = {x \in Family : parent'[x] = q /\ pstate'[x] = "ZOMBIE"}
    OBVIOUS
  <2>0. parent'[p] = parent[p]
    BY <1>3, <1>6
  <2>1. CASE q = parent[p]
    <3>1. p \notin Members(inherited[q])
      BY <1>15
    <3>2. /\ exited_list'[q] \in Seq(Pids) /\ Distinct(exited_list'[q])
          /\ Members(exited_list'[q]) = {p} \cup Members(inherited[q])
      <4> DEFINE e == inherited[q]
      <4>1. /\ e \in Seq(Pids) /\ Distinct(e) /\ exited_list'[q] = <<p>> \o e
            /\ p \notin Members(e) /\ p \in Pids
        BY <1>2, <1>10, <1>15, <2>1, <3>1
      <4> HIDE DEF e
      <4>2. /\ <<p>> \o e \in Seq(Pids) /\ Distinct(<<p>> \o e)
            /\ Members(<<p>> \o e) = {p} \cup Members(e)
        BY <4>1, FrontMembers
      <4> QED  BY <4>1, <4>2 DEF e
    <3> QED  BY <1>1, <1>4, <1>15, <2>0, <2>1, <3>2
  <2>2. CASE q # parent[p]
    BY <1>1, <1>4, <1>10, <1>15, <2>0, <2>2
  <2> QED  BY <2>1, <2>2
<1>17. TreeTypes'
  <2>1. /\ children_list' \in [Pids -> Seq(Pids)]
        /\ exited_list' \in [Pids -> Seq(Pids)]
    <3>1. /\ children_list' = [q \in Pids |-> children_list'[q]]
          /\ exited_list' = [q \in Pids |-> exited_list'[q]]
      BY <1>7, <1>8, <1>9 DEF ProcessEnds, Reparent
    <3> QED  BY <1>14, <1>16, <3>1
  <2> QED  BY <1>1, <1>6, <2>1 DEF TreeTypes
<1>18. RootInv'
  <2>1. 0 \in Pids \ Family /\ InitPid \in Pids \ Family
    BY PidsFacts DEF Family, InitPid
  <2> QED  BY <1>1, <1>4, <1>6, <2>1 DEF RootInv
<1>19. ListInv'
  BY <1>4, <1>14, <1>16 DEF ListInv
<1>20. ParentInv'
  BY <1>1, <1>2, <1>4, <1>6 DEF ParentInv, InitPid
<1>21. Acyclic'
  <2> SUFFICES ASSUME NEW S \in SUBSET Family', S # {}
               PROVE  \E x \in S : parent'[x] \notin S
    BY DEF Acyclic
  <2>1. PICK x \in S : parent[x] \notin S
    BY <1>1, <1>4 DEF Acyclic
  <2>2. InitPid \notin S
    BY <1>4 DEF Family, InitPid
  <2> QED  BY <1>4, <1>6, <2>1, <2>2
<1>22. FreeListSound'
  <2>1. \A q \in Free : parent'[q] = parent[q]
    BY <1>6 DEF Free, Family
  <2>2. FreeListed(Free, parent', pcb_freelist)
    BY <1>1, <2>1, SameFree
  <2>3. FreeListed(Free', parent', pcb_freelist')
        /\ process_count' = MAX_PROC - Cardinality(Free')
    BY <1>1, <1>4, <2>2
  <2> QED  BY <2>3 DEF FreeListSound, FreeListed, Free
<1>23. \A q \in Pids \ {p, parent[p], InitPid} : exited_list'[q] = exited_list[q]
  BY <1>8, <1>10
<1>24. InitPid # parent[p] /\ exited_list[p] = <<>> =>
          exited_list'[InitPid] = exited_list[InitPid]
  <2>1. ASSUME exited_list[p] = <<>>
        PROVE  exited_list[InitPid] \o exited_list[p] = exited_list[InitPid]
    BY <1>1, <1>11, <2>1, ConcatEmptySeq
  <2> QED  BY <1>1, <1>8, <1>10, <2>1
<1> QED  BY <1>2, <1>3, <1>4, <1>6, <1>7, <1>13, <1>17, <1>18, <1>19, <1>20,
            <1>21, <1>22, <1>23, <1>24 DEF TableInv

-----------------------------------------------------------------------------
(* Facts about the threads.                                                *)

Team(p) == {t \in Threads : owner[t] = p}

\* The places of a thread in its calls, spelled out.
LEMMA PlacesAre ==
    /\ Places = {"none", "running", "exit loop", "one", "any", "exit",
                 "one woken", "any woken", "exit woken"}
    /\ Asleep = {"one", "any", "exit"}
    /\ Woken("one") = "one woken" /\ Woken("any") = "any woken"
    /\ Woken("exit") = "exit woken"
<1>1. /\ Woken("one") = "one woken" /\ Woken("any") = "any woken"
      /\ Woken("exit") = "exit woken"
  BY DEF Woken
<1>2. {Woken(where) : where \in Asleep} = {"one woken", "any woken", "exit woken"}
  BY <1>1 DEF Asleep
<1> QED  BY <1>1, <1>2 DEF Places, Asleep

\* How many threads a process has changes by the one that comes or goes.
LEMMA Counting ==
    ASSUME NEW S \in SUBSET Threads, NEW t \in Threads
    PROVE  /\ Cardinality(S) \in Nat
           /\ Cardinality(S) = 0 <=> S = {}
           /\ t \notin S => Cardinality(S \cup {t}) = Cardinality(S) + 1
           /\ t \in S => Cardinality(S \ {t}) = Cardinality(S) - 1
           /\ t \in S => Cardinality(S) > 0
           /\ t \in S /\ Cardinality(S) = 1 => S = {t}
<1>1. IsFiniteSet(S) /\ IsFiniteSet(S \ {t})
  BY FS_Subset, ProcAssumption
<1>2. /\ Cardinality(S) \in Nat
      /\ Cardinality(S) = 0 <=> S = {}
      /\ Cardinality(S \ {t}) = 0 <=> S \ {t} = {}
  BY <1>1, FS_CardinalityType, FS_EmptySet
<1>3. t \notin S => Cardinality(S \cup {t}) = Cardinality(S) + 1
  BY <1>1, FS_AddElement
<1>4. t \in S => Cardinality(S \ {t}) = Cardinality(S) - 1
  BY <1>1, FS_RemoveElement
<1> QED  BY <1>2, <1>3, <1>4

\* What the invariant says of a thread and of its process.
LEMMA TeamFacts ==
    ASSUME IInv
    PROVE  /\ \A p \in Pids : /\ thread_count[p] = Cardinality(Team(p))
                              /\ Team(p) \in SUBSET Threads
                              /\ thread_count[p] \in Nat
                              /\ p # 0 => (pstate[p] = "ALIVE" <=> thread_count[p] > 0)
           /\ \A t \in Threads : place[t] # "none" =>
                 /\ owner[t] \in Pids /\ owner[t] # 0 /\ t \in Team(owner[t])
                 /\ thread_count[owner[t]] > 0
                 /\ pstate[owner[t]] = "ALIVE"
                 /\ thread_count[owner[t]] = 1 => Team(owner[t]) = {t}
           /\ \A t, u \in Threads :
                 /\ place[t] \in {"exit", "exit woken", "exit loop"}
                 /\ owner[u] = InitPid
                 => u = t
           /\ NOPROC \notin Pids
<1>1. /\ ThreadTypes /\ OwnerInv /\ ThreadCountExact /\ ExitInv
  BY DEF IInv, TeamInv
<1>2. \A p \in Pids : /\ thread_count[p] = Cardinality(Team(p))
                      /\ Team(p) \in SUBSET Threads
                      /\ thread_count[p] \in Nat
                      /\ p # 0 => (pstate[p] = "ALIVE" <=> thread_count[p] > 0)
  BY <1>1 DEF ThreadCountExact, Team, ThreadTypes
<1>3. ASSUME NEW t \in Threads, place[t] # "none"
      PROVE  /\ owner[t] \in Pids /\ owner[t] # 0 /\ t \in Team(owner[t])
             /\ thread_count[owner[t]] > 0
             /\ pstate[owner[t]] = "ALIVE"
             /\ thread_count[owner[t]] = 1 => Team(owner[t]) = {t}
  <2>1. owner[t] \in Pids /\ owner[t] # 0 /\ t \in Team(owner[t])
    BY <1>1, <1>3 DEF OwnerInv, ThreadTypes, Team
  <2>2. /\ Cardinality(Team(owner[t])) > 0
        /\ Cardinality(Team(owner[t])) = 1 => Team(owner[t]) = {t}
    <3>1. Team(owner[t]) \in SUBSET Threads
      BY DEF Team
    <3>2. \A S \in SUBSET Threads : t \in S =>
             Cardinality(S) > 0 /\ (Cardinality(S) = 1 => S = {t})
      BY Counting
    <3> DEFINE S == Team(owner[t])
    <3>3. S \in SUBSET Threads /\ t \in S
      BY <2>1, <3>1
    <3> HIDE DEF S
    <3>4. Cardinality(S) > 0 /\ (Cardinality(S) = 1 => S = {t})
      BY <3>2, <3>3
    <3> QED  BY <3>4 DEF S
  <2>3. /\ thread_count[owner[t]] = Cardinality(Team(owner[t]))
        /\ pstate[owner[t]] = "ALIVE" <=> thread_count[owner[t]] > 0
    BY <1>2, <2>1
  <2> QED  BY <2>1, <2>2, <2>3
<1>4. ASSUME NEW t \in Threads, NEW u \in Threads, owner[u] = InitPid,
             place[t] \in {"exit", "exit woken", "exit loop"}
      PROVE  u = t
  <2>1. owner[t] = InitPid /\ thread_count[InitPid] = 1 /\ place[t] # "none"
    BY <1>1, <1>4 DEF ExitInv
  <2>2. Team(owner[t]) = {t} /\ u \in Team(owner[t])
    BY <1>3, <1>4, <2>1 DEF Team
  <2> QED  BY <2>2
<1> QED  BY <1>2, <1>3, <1>4, PidsFacts

\* Whoever has a parent descends from init.
LEMMA InitHasFamily ==
    ASSUME TableInv, Family # {}
    PROVE  pstate[InitPid] = "ALIVE" /\ children_list[InitPid] # <<>>
<1>1. PICK p \in Family : parent[p] \notin Family
  BY DEF TableInv, Acyclic
<1>2. /\ parent[p] \in Pids \ {0} /\ pstate[parent[p]] = "ALIVE"
      /\ ~ (parent[p] > InitPid)
  BY <1>1 DEF TableInv, ParentInv, Family
<1>3. parent[p] = InitPid
  BY <1>2 DEF Pids, InitPid
<1>4. p \in Members(children_list[InitPid])
  BY <1>3, PidsFacts DEF TableInv, ListInv
<1>5. children_list[InitPid] \in Seq(Pids)
  BY PidsFacts DEF TableInv, TreeTypes
<1> QED  BY <1>2, <1>3, <1>4, <1>5, EmptyMembers

\* A list of a process is empty when it has no member.
LEMMA ListsEmpty ==
    ASSUME TreeTypes
    PROVE  \A q \in Pids :
              /\ children_list[q] = <<>> <=> Members(children_list[q]) = {}
              /\ exited_list[q] = <<>> <=> Members(exited_list[q]) = {}
              /\ exited_list[q] # <<>> => Head(exited_list[q]) \in Members(exited_list[q])
<1> SUFFICES ASSUME NEW q \in Pids
             PROVE  /\ children_list[q] = <<>> <=> Members(children_list[q]) = {}
                    /\ exited_list[q] = <<>> <=> Members(exited_list[q]) = {}
                    /\ exited_list[q] # <<>> => Head(exited_list[q]) \in Members(exited_list[q])
  OBVIOUS
<1>1. children_list[q] \in Seq(Pids) /\ exited_list[q] \in Seq(Pids)
  BY DEF TreeTypes
<1> QED  BY <1>1, EmptyMembers

-----------------------------------------------------------------------------
(* The invariant holds after boot.                                         *)

\* The invariant holds after the boot.
LEMMA InitEstablishesIInv ==
    ASSUME Init PROVE IInv
<1> USE DEF Init
<1>1. /\ Free = 2 .. MAX_PROC - 1 /\ Family = {}
      /\ MAX_PROC \in Nat /\ MAX_PROC > 1
      /\ \A p \in Pids : pstate[p] = IF p <= InitPid THEN "ALIVE" ELSE "FREE"
  BY ProcAssumption DEF Free, Family, Pids, InitPid
<1>2. Cardinality(Free) = MAX_PROC - 2
  <2>1. 2 \in Int /\ MAX_PROC - 1 \in Int
    BY <1>1
  <2>2. Cardinality(2 .. MAX_PROC - 1)
          = IF 2 > MAX_PROC - 1 THEN 0 ELSE (MAX_PROC - 1) - 2 + 1
    BY <2>1, FS_Interval, Zenon
  <2>3. (IF 2 > MAX_PROC - 1 THEN 0 ELSE (MAX_PROC - 1) - 2 + 1) = MAX_PROC - 2
    BY <1>1
  <2> QED  BY <1>1, <2>2, <2>3
<1>3. FreeListSound
  <2> DEFINE n == MAX_PROC - 2
             list == [i \in 1 .. n |-> i + 1]
  <2>1. list \in Bijection(1 .. n, Free)
    <3>1. /\ n \in Nat /\ \A i \in 1 .. n : i + 1 \in 2 .. MAX_PROC - 1
          /\ \A x \in 2 .. MAX_PROC - 1 : x - 1 \in 1 .. n /\ (x - 1) + 1 = x
      BY <1>1
    <3>2. list \in [1 .. n -> Free]
      BY <1>1, <3>1
    <3>3. \A i, j \in 1 .. n : list[i] = list[j] => i = j
      BY <3>1
    <3>4. \A x \in Free : \E i \in 1 .. n : list[i] = x
      BY <1>1, <3>1
    <3> HIDE DEF n, list
    <3> QED  BY <3>2, <3>3, <3>4 DEF Bijection, Injection, Surjection, IsInjective
  <2>2. pcb_freelist = IF n = 0 THEN NOPROC ELSE list[1]
    BY <1>1
  <2>3. \A i \in 1 .. n : parent[list[i]] = IF i = n THEN NOPROC ELSE list[i + 1]
    <3> TAKE i \in 1 .. n
    <3>1. /\ i + 1 \in Pids /\ ~ (i + 1 <= InitPid)
          /\ i + 1 = MAX_PROC - 1 <=> i = n
          /\ i # n => i + 1 \in 1 .. n
      BY <1>1 DEF Pids, InitPid
    <3>2. parent[i + 1] = IF i + 1 = MAX_PROC - 1 THEN NOPROC ELSE i + 1 + 1
      BY <3>1
    <3> QED  BY <3>1, <3>2
  <2>4. process_count = MAX_PROC - Cardinality(Free)
    BY <1>1, <1>2
  <2> HIDE DEF Init, list
  <2>5. n = Cardinality(Free)
    BY <1>2
  <2> HIDE DEF n
  <2> QED  BY <2>1, <2>2, <2>3, <2>4, <2>5 DEF FreeListSound, Free
<1>4. TreeTypes
  <2>1. parent \in [Pids -> Pids \cup {NOPROC}]
    <3>1. \A p \in Pids : p <= InitPid \/ p = MAX_PROC - 1 \/ p + 1 \in Pids
      BY <1>1 DEF Pids, InitPid
    <3> QED  BY <3>1
  <2>2. pcb_freelist \in Pids \cup {NOPROC}
    BY <1>1 DEF Pids
  <2>3. children_list \in [Pids -> Seq(Pids)] /\ exited_list \in [Pids -> Seq(Pids)]
    OBVIOUS
  <2>4. pstate \in [Pids -> {"FREE", "ALIVE", "ZOMBIE"}]
    OBVIOUS
  <2> QED  BY <2>1, <2>2, <2>3, <2>4 DEF TreeTypes
<1>5. RootInv
  BY <1>1, PidsFacts DEF RootInv, InitPid
<1>6. ListInv /\ ParentInv /\ Acyclic
  <2>1. Members(<<>>) = {} /\ Distinct(<<>>)
    BY DEF Members, Distinct
  <2>2. \A q \in Pids : children_list[q] = <<>> /\ exited_list[q] = <<>>
    OBVIOUS
  <2> HIDE DEF Init
  <2> QED  BY <1>1, <2>1, <2>2 DEF ListInv, ParentInv, Acyclic
<1>7. InitThread \in Threads
  BY ProcAssumption DEF InitThread
<1>8. ThreadTypes
  BY <1>7, PidsFacts, PlacesAre, ProcAssumption DEF ThreadTypes
<1>9. OwnerInv /\ ExitInv /\ WaitInv /\ NoMissedExit
  BY <1>7, ProcAssumption DEF OwnerInv, ExitInv, WaitInv, NoMissedExit, NOPROC, InitPid
<1>10. ThreadCountExact
  <2>1. Cardinality({}) = 0 /\ Cardinality({InitThread}) = 1
    BY FS_EmptySet, FS_Singleton
  <2>2. ASSUME NEW p \in Pids
        PROVE  {t \in Threads : owner[t] = p} = IF p = InitPid THEN {InitThread} ELSE {}
    BY <1>7, <2>2, PidsFacts DEF InitPid
  <2>3. ASSUME NEW p \in Pids
        PROVE  p # 0 => (pstate[p] = "ALIVE" <=> thread_count[p] > 0)
    BY <1>1, <2>3 DEF Pids, InitPid
  <2> QED  BY <2>1, <2>2, <2>3 DEF ThreadCountExact
<1> QED  BY <1>3, <1>4, <1>5, <1>6, <1>8, <1>9, <1>10 DEF IInv, TableInv, TeamInv

-----------------------------------------------------------------------------
(* The operations that start a thread.                                     *)

\* No thread is in init's Exit(), when p is init.
NotLeaving(p) == \A t \in Threads :
    place[t] \in {"exit", "exit woken", "exit loop"} => p # InitPid

\* A new process starts with one thread, or none.
LEMMA StartTeam ==
    ASSUME IInv, NEW p \in Pids, p # 0, Start(p), UNCHANGED kernel,
           \A q \in Pids \ {p} : pstate'[q] = pstate[q],
           pstate'[p] = "ALIVE",
           \A q \in Family : q \in Family' /\ parent'[q] = parent[q] /\ pstate'[q] = pstate[q],
           \A q \in Pids : children_list[q] # <<>> => children_list'[q] # <<>>,
           UNCHANGED exited_list,
           NotLeaving(p)
    PROVE  TeamInv'
<1>1. /\ ThreadTypes /\ OwnerInv /\ ExitInv /\ WaitInv /\ NoMissedExit
  BY DEF IInv, TeamInv
<1>2. PICK u \in Threads :
         /\ place[u] = "none"
         /\ place' = [place EXCEPT ![u] = "running"]
         /\ owner' = [owner EXCEPT ![u] = p]
         /\ thread_count' = [thread_count EXCEPT ![p] = @ + 1]
         /\ UNCHANGED child
  BY DEF Start
<1>3. owner[u] = NOPROC /\ child[u] = NOPROC /\ p # NOPROC /\ NOPROC \notin Pids
  BY <1>1, <1>2, PidsFacts DEF OwnerInv
<1>4. ThreadTypes' /\ OwnerInv'
  <2>1. ThreadTypes'
    <3>1. thread_count' \in [Pids -> Nat] /\ owner' \in [Threads -> Pids \cup {NOPROC}]
      <4>1. thread_count[p] + 1 \in Nat
        BY <1>1 DEF ThreadTypes
      <4> QED  BY <1>1, <1>2, <4>1 DEF ThreadTypes
    <3>2. place' \in [Threads -> Places]
      BY <1>1, <1>2, PlacesAre DEF ThreadTypes
    <3> QED  BY <1>1, <1>2, <3>1, <3>2 DEF ThreadTypes
  <2>2. OwnerInv'
    BY <1>1, <1>2, <1>3 DEF ThreadTypes, OwnerInv
  <2> QED  BY <2>1, <2>2
<1>5. ExitInv'
  BY <1>1, <1>2, PidsFacts DEF ThreadTypes, ExitInv, NotLeaving
<1>6. ThreadCountExact'
  <2>1. Team(p)' = Team(p) \cup {u} /\ u \notin Team(p)
    BY <1>1, <1>2, <1>3 DEF ThreadTypes, Team
  <2>2. thread_count'[p] = Cardinality(Team(p)') /\ thread_count'[p] > 0
    <3>1. /\ thread_count[p] = Cardinality(Team(p)) /\ Team(p) \in SUBSET Threads
          /\ thread_count[p] \in Nat
      BY TeamFacts
    <3>2. thread_count'[p] = thread_count[p] + 1
      BY <1>1, <1>2 DEF ThreadTypes
    <3>3. Cardinality(Team(p) \cup {u}) = Cardinality(Team(p)) + 1
      BY <2>1, <3>1, Counting
    <3>4. Cardinality(Team(p)') = Cardinality(Team(p)) + 1
      BY <2>1, <3>3
    <3> QED  BY <3>1, <3>2, <3>4
  <2>3. \A q \in Pids \ {p} : Team(q)' = Team(q) /\ thread_count'[q] = thread_count[q]
    BY <1>1, <1>2, <1>3 DEF ThreadTypes, Team
  <2>4. \A q \in Pids : /\ thread_count'[q] = Cardinality(Team(q)')
                        /\ q # 0 => (pstate'[q] = "ALIVE" <=> thread_count'[q] > 0)
    BY <2>2, <2>3, TeamFacts
  <2> QED  BY <2>4 DEF ThreadCountExact, Team
<1>7. WaitInv'
  <2> SUFFICES ASSUME NEW t \in Threads, child'[t] # NOPROC
               PROVE  /\ child'[t] \in Family' /\ parent'[child'[t]] = owner'[t]
                      /\ \A x \in Waiters(t)' : child'[x] \notin {child'[t], NOPROC}
    BY DEF WaitInv
  <2>1. t # u /\ child[t] # NOPROC
    BY <1>2, <1>3
  <2>2. Waiters(t)' \subseteq Waiters(t)
    BY <1>1, <1>2, <2>1 DEF Waiters, ThreadTypes
  <2>3. owner'[t] = owner[t]
    BY <1>1, <1>2, <2>1 DEF ThreadTypes
  <2> QED  BY <1>1, <1>2, <2>1, <2>2, <2>3 DEF WaitInv
<1>8. NoMissedExit'
  <2> SUFFICES ASSUME NEW t \in Threads, place'[t] \in {"one", "any", "exit"}
               PROVE  /\ place'[t] = "one" => /\ pstate'[child'[t]] = "ALIVE"
                                              /\ parent'[child'[t]] = owner'[t]
                      /\ place'[t] \in {"any", "exit"} =>
                            /\ children_list'[owner'[t]] # <<>>
                            /\ exited_list'[owner'[t]] = <<>>
    BY DEF NoMissedExit
  <2>1. /\ t # u /\ place'[t] = place[t] /\ owner'[t] = owner[t]
        /\ child'[t] = child[t] /\ owner[t] \in Pids
    BY <1>1, <1>2, TeamFacts DEF ThreadTypes
  <2>2. place[t] = "one" => child[t] \in Family
    BY <1>1 DEF OwnerInv, WaitInv
  <2>3. /\ place[t] = "one" => /\ pstate[child[t]] = "ALIVE"
                               /\ parent[child[t]] = owner[t]
        /\ place[t] \in {"any", "exit"} => /\ children_list[owner[t]] # <<>>
                                           /\ exited_list[owner[t]] = <<>>
    BY <1>1 DEF NoMissedExit
  <2> QED  BY <2>1, <2>2, <2>3
<1> QED  BY <1>4, <1>5, <1>6, <1>7, <1>8 DEF TeamInv

\* Exec().
LEMMA ExecKeeps ==
    ASSUME IInv, NEW t \in Threads, Exec(t)
    PROVE  IInv'
<1>1. place[t] = "running" /\ ~ aborted
  BY DEF Exec, Calls
<1>2. /\ owner[t] \in Pids /\ owner[t] # 0 /\ pstate[owner[t]] = "ALIVE" /\ TableInv
  BY <1>1, TeamFacts DEF IInv
<1>3. PICK p \in Pids :
          /\ acquire_PCB(p)
          /\ pstate' = [pstate EXCEPT ![p] = "ALIVE"]
          /\ parent' = [parent EXCEPT ![p] = owner[t]]
          /\ children_list' = [children_list EXCEPT ![owner[t]] = <<p>> \o @]
          /\ Start(p)
          /\ UNCHANGED <<exited_list, kernel, aborted>>
  BY DEF Exec
<1>4. /\ TableInv'
      /\ p > InitPid /\ pstate[p] = "FREE"
      /\ Family' = Family \cup {p}
  BY <1>2, <1>3, ForkTable
<1>5. TreeTypes /\ p # 0 /\ p # InitPid /\ p \notin Family
  BY <1>4 DEF IInv, TableInv, InitPid, Family
<1>6. \A q \in Pids : children_list[q] # <<>> => children_list'[q] # <<>>
  <2> SUFFICES ASSUME NEW q \in Pids, children_list[q] # <<>>
               PROVE  children_list'[q] # <<>>
    OBVIOUS
  <2>1. CASE q = owner[t]
    <3>1. children_list'[q] = <<p>> \o children_list[q] /\ children_list[q] \in Seq(Pids)
      BY <1>3, <1>5, <2>1 DEF TreeTypes
    <3>2. /\ <<p>> \o children_list[q] \in Seq(Pids)
          /\ p \in Members(<<p>> \o children_list[q])
      BY <3>1, FrontMembers
    <3> QED  BY <3>1, <3>2, EmptyMembers
  <2>2. CASE q # owner[t]
    BY <1>3, <1>5, <2>2 DEF TreeTypes
  <2> QED  BY <2>1, <2>2
<1>7. /\ \A q \in Pids \ {p} : pstate'[q] = pstate[q] /\ parent'[q] = parent[q]
      /\ pstate'[p] = "ALIVE"
  BY <1>3, <1>5 DEF TreeTypes
<1>8. \A q \in Family : q \in Family' /\ parent'[q] = parent[q] /\ pstate'[q] = pstate[q]
  BY <1>4, <1>5, <1>7 DEF Family
<1>9. TeamInv'
  BY <1>3, <1>5, <1>6, <1>7, <1>8, StartTeam DEF NotLeaving
<1> QED  BY <1>1, <1>3, <1>4, <1>9 DEF IInv

\* A step that leaves the table alone.
LEMMA SameTable ==
    ASSUME TableInv, UNCHANGED <<treeVars, tableVars>>
    PROVE  TableInv' /\ Family' = Family
<1> USE DEF treeVars, tableVars
<1>1. Family' = Family /\ TreeTypes'
  BY DEF Family, TableInv, TreeTypes
<1>2. FreeListSound'
  BY DEF TableInv, FreeListSound
<1>3. RootInv' /\ ListInv' /\ ParentInv'
  BY <1>1 DEF TableInv, RootInv, ListInv, ParentInv
<1>4. Acyclic'
  BY <1>1 DEF TableInv, Acyclic
<1> QED  BY <1>1, <1>2, <1>3, <1>4 DEF TableInv

\* CreateThread().
LEMMA CreateThreadKeeps ==
    ASSUME IInv, NEW t \in Threads, CreateThread(t)
    PROVE  IInv'
<1> USE DEF CreateThread, treeVars, tableVars
<1>1. place[t] = "running" /\ ~ aborted
  BY DEF Calls
<1>2. owner[t] \in Pids /\ owner[t] # 0 /\ pstate[owner[t]] = "ALIVE" /\ TableInv
  BY <1>1, TeamFacts DEF IInv
<1>3. NotLeaving(owner[t])
  BY <1>1, TeamFacts DEF NotLeaving
<1>4. Family' = Family /\ TableInv'
  BY <1>2, SameTable
<1>5. TeamInv'
  BY <1>2, <1>3, <1>4, StartTeam
<1> QED  BY <1>1, <1>4, <1>5 DEF IInv

-----------------------------------------------------------------------------
(* The operations that wait for a child.                                   *)

ExitPlaces == {"exit", "exit woken", "exit loop"}

\* Thread t goes to another place, and waits for another child or for none.
Moves(t, w) ==
    /\ place[t] # "none" /\ w # "none" /\ w \in Places
    /\ place' = [place EXCEPT ![t] = w]
    /\ child' \in [Threads -> Pids \cup {NOPROC}]
    /\ \A x \in Threads \ {t} : child'[x] = child[x]
    /\ child'[t] = NOPROC <=> w \notin {"one", "one woken"}
    /\ UNCHANGED <<thread_count, owner>>
    /\ kernel' \in Threads \cup {Nobody}
    /\ \A x \in Threads : kernel' = x <=> place'[x] = "exit loop"
    /\ w \in ExitPlaces => owner[t] = InitPid /\ thread_count[InitPid] = 1
    /\ child'[t] # NOPROC =>
          \A u \in Waiters(t) : child[u] \notin {child'[t], NOPROC}
    /\ child'[t] = NOPROC /\ w # "running" =>
          \A u \in Waiters(t) : child[u] = NOPROC

\* A thread goes from one place of its call to the next.
LEMMA MoveTeam ==
    ASSUME IInv, NEW t \in Threads, NEW w, Moves(t, w),
           \A q \in Pids : pstate'[q] = "ALIVE" <=> pstate[q] = "ALIVE",
           \A x \in Threads : child'[x] # NOPROC =>
               child'[x] \in Family' /\ parent'[child'[x]] = owner[x]
    PROVE  ThreadTypes' /\ OwnerInv' /\ ExitInv' /\ ThreadCountExact' /\ WaitInv'
<1>1. /\ ThreadTypes /\ OwnerInv /\ ExitInv /\ ThreadCountExact /\ WaitInv
  BY DEF IInv, TeamInv
<1>2. ThreadTypes'
  BY <1>1 DEF Moves, ThreadTypes
<1>3. OwnerInv'
  <2> SUFFICES ASSUME NEW x \in Threads
               PROVE  /\ owner'[x] = NOPROC <=> place'[x] = "none"
                      /\ owner'[x] # 0
                      /\ child'[x] = NOPROC <=> place'[x] \notin {"one", "one woken"}
                      /\ kernel' = x <=> place'[x] = "exit loop"
    BY DEF OwnerInv
  <2>1. /\ owner[x] = NOPROC <=> place[x] = "none"
        /\ owner[x] # 0
        /\ child[x] = NOPROC <=> place[x] \notin {"one", "one woken"}
    BY <1>1 DEF OwnerInv
  <2>2. owner'[x] = owner[x] /\ (kernel' = x <=> place'[x] = "exit loop")
    BY DEF Moves
  <2>3. CASE x = t
    <3>1. place'[x] = w
      BY <1>1, <2>3 DEF Moves, ThreadTypes
    <3> QED  BY <2>1, <2>2, <2>3, <3>1 DEF Moves
  <2>4. CASE x # t
    <3>1. place'[x] = place[x] /\ child'[x] = child[x]
      BY <1>1, <2>4 DEF Moves, ThreadTypes
    <3> QED  BY <2>1, <2>2, <3>1
  <2> QED  BY <2>3, <2>4
<1>4. ExitInv'
  BY <1>1 DEF Moves, ThreadTypes, ExitInv, ExitPlaces
<1>5. ThreadCountExact'
  <2>1. owner' = owner /\ thread_count' = thread_count
    BY DEF Moves
  <2> QED  BY <1>1, <2>1 DEF ThreadCountExact
<1>6. WaitInv'
  <2> SUFFICES ASSUME NEW x \in Threads, child'[x] # NOPROC,
                      NEW y \in Waiters(x)'
               PROVE  child'[y] \notin {child'[x], NOPROC}
    BY DEF WaitInv, Moves
  <2>1. y \in Threads /\ y # x /\ owner[y] = owner[x] /\ place'[y] \notin {"none", "running"}
    BY DEF Waiters, Moves
  <2>2. place'[x] \in {"one", "one woken"}
    BY <1>3 DEF OwnerInv
  <2>3. CASE x = t
    <3>1. y \in Waiters(t) /\ child'[y] = child[y]
      BY <1>1, <2>1, <2>3 DEF Waiters, Moves, ThreadTypes
    <3> QED  BY <2>3, <3>1 DEF Moves
  <2>4. CASE y = t
    <3>1. x \in Waiters(t) /\ child'[x] = child[x]
      BY <1>1, <2>1, <2>2, <2>4 DEF Waiters, Moves, ThreadTypes
    <3>2. w # "running"
      BY <1>1, <2>1, <2>4 DEF Moves, ThreadTypes
    <3> QED  BY <2>4, <3>1, <3>2 DEF Moves
  <2>5. CASE x # t /\ y # t
    <3>1. y \in Waiters(x) /\ child'[y] = child[y] /\ child'[x] = child[x]
      BY <1>1, <2>1, <2>5 DEF Waiters, Moves, ThreadTypes
    <3> QED  BY <1>1, <3>1 DEF WaitInv
  <2> QED  BY <2>3, <2>4, <2>5
<1> QED  BY <1>2, <1>3, <1>4, <1>5, <1>6

\* The processes stay as they are.
LEMMA StayKeeps ==
    ASSUME IInv, NEW t \in Threads, NEW w, Moves(t, w),
           UNCHANGED <<treeVars, tableVars, aborted>>,
           child'[t] # NOPROC => child'[t] \in Family /\ parent[child'[t]] = owner[t],
           w = "one" => pstate[child'[t]] = "ALIVE",
           w \in {"any", "exit"} => /\ children_list[owner[t]] # <<>>
                                    /\ exited_list[owner[t]] = <<>>
    PROVE  IInv'
<1>1. TableInv' /\ Family' = Family
  BY SameTable DEF IInv
<1>2. \A x \in Threads : child'[x] # NOPROC =>
          child'[x] \in Family' /\ parent'[child'[x]] = owner[x]
  BY <1>1 DEF IInv, TeamInv, WaitInv, Moves, treeVars
<1>3. ThreadTypes' /\ OwnerInv' /\ ExitInv' /\ ThreadCountExact' /\ WaitInv'
  BY <1>2, MoveTeam DEF treeVars
<1>4. NoMissedExit'
  <2> SUFFICES ASSUME NEW x \in Threads
               PROVE  /\ place'[x] = "one" => /\ pstate'[child'[x]] = "ALIVE"
                                              /\ parent'[child'[x]] = owner'[x]
                      /\ place'[x] \in {"any", "exit"} =>
                            /\ children_list'[owner'[x]] # <<>>
                            /\ exited_list'[owner'[x]] = <<>>
    BY DEF NoMissedExit
  <2>1. CASE x = t
    BY <2>1 DEF Moves, treeVars, IInv, TeamInv, ThreadTypes
  <2>2. CASE x # t
    <3>1. /\ place'[x] = place[x] /\ child'[x] = child[x] /\ owner'[x] = owner[x]
          /\ UNCHANGED <<pstate, parent, children_list, exited_list>>
      BY <2>2 DEF Moves, treeVars, IInv, TeamInv, ThreadTypes
    <3>2. /\ place[x] = "one" => /\ pstate[child[x]] = "ALIVE"
                                 /\ parent[child[x]] = owner[x]
          /\ place[x] \in {"any", "exit"} => /\ children_list[owner[x]] # <<>>
                                             /\ exited_list[owner[x]] = <<>>
      BY DEF IInv, TeamInv, NoMissedExit
    <3> QED  BY <3>1, <3>2
  <2> QED  BY <2>1, <2>2
<1> QED  BY <1>1, <1>3, <1>4 DEF IInv, TeamInv

\* Thread t reaps a zombie of its process, which nobody else waits for.
LEMMA ReapKeeps ==
    ASSUME IInv, NEW t \in Threads, NEW w, Moves(t, w), w \notin Asleep,
           NEW c \in Family, pstate[c] # "ALIVE", parent[c] = owner[t],
           cleanup_zombie(c), UNCHANGED aborted, child'[t] = NOPROC,
           \A u \in Waiters(t) : child[u] # c
    PROVE  IInv'
<1>1. /\ TableInv /\ TreeTypes /\ ListInv /\ ThreadTypes /\ OwnerInv /\ WaitInv /\ NoMissedExit
  BY DEF IInv, TableInv, TeamInv
<1>2. /\ TableInv'
      /\ Family' = Family \ {c} /\ c \in Pids
      /\ \A q \in Pids \ {c} : pstate'[q] = pstate[q] /\ parent'[q] = parent[q]
      /\ pstate'[c] = "FREE"
  BY <1>1, ReapTable
<1>3. ASSUME NEW x \in Threads, child'[x] # NOPROC
      PROVE  /\ x # t /\ child'[x] = child[x] /\ child[x] # c /\ child[x] \in Family
             /\ child[x] \in Pids
  <2>1. x # t /\ child'[x] = child[x] /\ child[x] \in Family
    BY <1>1, <1>3 DEF Moves, WaitInv
  <2>2. ASSUME child[x] = c
        PROVE  FALSE
    <3>1. owner[x] = owner[t]
      BY <1>1, <1>3, <2>1, <2>2 DEF WaitInv
    <3>2. place[x] \notin {"none", "running"}
      BY <1>1, <1>3, <2>1 DEF OwnerInv
    <3>3. x \in Waiters(t)
      BY <2>1, <3>1, <3>2 DEF Waiters
    <3> QED  BY <2>2, <3>3
  <2> QED  BY <2>1, <2>2 DEF Family
<1>4. \A x \in Threads : child'[x] # NOPROC =>
          child'[x] \in Family' /\ parent'[child'[x]] = owner[x]
  <2> TAKE x \in Threads
  <2> HAVE child'[x] # NOPROC
  <2>1. child'[x] = child[x] /\ child[x] # c /\ child[x] \in Family /\ child[x] \in Pids
    BY <1>3
  <2>2. parent[child[x]] = owner[x]
    BY <1>1, <1>3 DEF WaitInv
  <2> QED  BY <1>2, <2>1, <2>2
<1>5. \A q \in Pids : pstate'[q] = "ALIVE" <=> pstate[q] = "ALIVE"
  BY <1>2
<1>6. ThreadTypes' /\ OwnerInv' /\ ExitInv' /\ ThreadCountExact' /\ WaitInv'
  BY <1>4, <1>5, MoveTeam
<1>7. NoMissedExit'
  <2> SUFFICES ASSUME NEW x \in Threads, place'[x] \in Asleep
               PROVE  /\ place'[x] = "one" => /\ pstate'[child'[x]] = "ALIVE"
                                              /\ parent'[child'[x]] = owner'[x]
                      /\ place'[x] \in {"any", "exit"} =>
                            /\ children_list'[owner'[x]] # <<>>
                            /\ exited_list'[owner'[x]] = <<>>
    BY DEF NoMissedExit, Asleep
  <2>1. /\ x # t /\ place'[x] = place[x] /\ owner'[x] = owner[x]
        /\ child'[x] = child[x]
    BY <1>1 DEF Moves, ThreadTypes
  <2>2. CASE place[x] = "one"
    <3>1. child'[x] # NOPROC
      BY <1>1, <2>1, <2>2 DEF OwnerInv
    <3>2. /\ child[x] # c /\ child[x] \in Pids
          /\ pstate[child[x]] = "ALIVE" /\ parent[child[x]] = owner[x]
      BY <1>1, <1>3, <2>2, <3>1 DEF NoMissedExit
    <3> QED  BY <1>2, <2>1, <2>2, <3>2
  <2>3. CASE place[x] \in {"any", "exit"}
    <3>1. /\ owner[x] \in Pids
          /\ children_list[owner[x]] # <<>> /\ exited_list[owner[x]] = <<>>
      BY <1>1, <2>3, TeamFacts DEF NoMissedExit
    <3>2. c \notin Members(children_list[owner[x]])
      <4>1. c \notin Members(exited_list[owner[x]])
        BY <1>1, <3>1, ListsEmpty
      <4>2. pstate[c] = "ZOMBIE"
        BY <1>1, <1>2 DEF TreeTypes, Family
      <4> QED  BY <1>1, <3>1, <4>1, <4>2 DEF ListInv
    <3>3. \A q \in Pids :
             /\ Members(children_list'[q]) = Members(children_list[q]) \ {c}
             /\ Members(exited_list'[q]) = Members(exited_list[q]) \ {c}
             /\ children_list'[q] \in Seq(Pids) /\ exited_list'[q] \in Seq(Pids)
      <4>1. /\ children_list \in [Pids -> Seq(Pids)] /\ exited_list \in [Pids -> Seq(Pids)]
            /\ \A q \in Pids : Distinct(children_list[q]) /\ Distinct(exited_list[q])
        BY <1>1 DEF TreeTypes, ListInv
      <4>2. /\ children_list' = Unlinked(children_list, c)
            /\ exited_list' = Unlinked(exited_list, c)
        BY DEF cleanup_zombie
      <4> QED  BY ZenonT(40), <1>2, <4>1, <4>2, UnlinkedMembers
    <3>4. Members(children_list[owner[x]]) # {} /\ Members(exited_list[owner[x]]) = {}
      BY <1>1, <3>1, ListsEmpty
    <3>5. Members(children_list'[owner[x]]) # {} /\ Members(exited_list'[owner[x]]) = {}
      BY <3>1, <3>2, <3>3, <3>4
    <3>6. children_list'[owner[x]] # <<>> /\ exited_list'[owner[x]] = <<>>
      BY ZenonT(40), <3>1, <3>3, <3>5, EmptyMembers
    <3> QED  BY <2>1, <2>3, <3>6
  <2> QED  BY <2>1, <2>2, <2>3 DEF Asleep
<1> QED  BY <1>2, <1>6, <1>7 DEF IInv, TeamInv

\* WaitChild() of one child, up to its wait.
LEMMA WaitChildKeeps ==
    ASSUME ~ SharedWaits, IInv, NEW t \in Threads, NEW c \in Pids, WaitChild(t, c)
    PROVE  IInv'
<1>1. /\ place[t] = "running" /\ kernel = Nobody /\ parent[c] = owner[t]
      /\ pstate[c] # "FREE"
      /\ \A u \in Waiters(t) : child[u] \notin {c, NOPROC}
      /\ WaitForSpecific(t, c)
      /\ UNCHANGED <<thread_count, owner, kernel, aborted>>
  BY DEF WaitChild, Calls
<1>2. ThreadTypes /\ OwnerInv
  BY DEF IInv, TeamInv
<1>3. c \in Family /\ c # NOPROC
  <2>1. owner[t] # NOPROC
    BY <1>1, <1>2 DEF OwnerInv
  <2>2. c # 0 /\ c # InitPid
    BY <1>1, <2>1 DEF IInv, TableInv, RootInv
  <2> QED  BY <1>1, <2>2, PidsFacts DEF Family, Pids, InitPid
<1>4. CASE pstate[c] = "ALIVE"
  <2>1. /\ place' = [place EXCEPT ![t] = "one"]
        /\ child' = [child EXCEPT ![t] = c]
        /\ UNCHANGED <<treeVars, tableVars>>
    BY <1>1, <1>4 DEF WaitForSpecific
  <2>2. Moves(t, "one")
    BY <1>1, <1>2, <1>3, <2>1, PlacesAre DEF Moves, ThreadTypes, OwnerInv, ExitPlaces
  <2>3. child'[t] = c
    BY <1>2, <2>1 DEF ThreadTypes
  <2> QED  BY <1>1, <1>3, <1>4, <2>1, <2>2, <2>3, StayKeeps
<1>5. CASE pstate[c] # "ALIVE"
  <2>1. /\ place' = [place EXCEPT ![t] = "running"]
        /\ child' = [child EXCEPT ![t] = NOPROC]
        /\ cleanup_zombie(c)
    BY <1>1, <1>5 DEF WaitForSpecific
  <2>2. Moves(t, "running")
    BY <1>1, <1>2, <1>3, <2>1, PlacesAre DEF Moves, ThreadTypes, OwnerInv, ExitPlaces
  <2>3. child'[t] = NOPROC
    BY <1>2, <2>1 DEF ThreadTypes
  <2> QED  BY <1>1, <1>3, <1>5, <2>1, <2>2, <2>3, ReapKeeps DEF Asleep
<1> QED  BY <1>4, <1>5

\* WaitChild() goes on after its wait.
LEMMA WaitChildResumeKeeps ==
    ASSUME IInv, NEW t \in Threads, WaitChildResume(t)
    PROVE  IInv'
<1> DEFINE c == child[t]
<1>1. /\ place[t] = "one woken" /\ kernel = Nobody
      /\ WaitForSpecific(t, c)
      /\ UNCHANGED <<thread_count, owner, kernel, aborted>>
  BY DEF WaitChildResume
<1>2. ThreadTypes /\ OwnerInv /\ WaitInv
  BY DEF IInv, TeamInv
<1>3. /\ c \in Family /\ c # NOPROC /\ parent[c] = owner[t] /\ c \in Pids
      /\ \A u \in Waiters(t) : child[u] \notin {c, NOPROC}
  BY <1>1, <1>2 DEF OwnerInv, WaitInv, Family
<1> HIDE DEF c
<1>4. CASE pstate[c] = "ALIVE"
  <2>1. /\ place' = [place EXCEPT ![t] = "one"]
        /\ child' = [child EXCEPT ![t] = c]
        /\ UNCHANGED <<treeVars, tableVars>>
    BY <1>1, <1>4 DEF WaitForSpecific
  <2>2. Moves(t, "one")
    BY <1>1, <1>2, <1>3, <2>1, PlacesAre DEF Moves, ThreadTypes, OwnerInv, ExitPlaces
  <2>3. child'[t] = c
    BY <1>2, <2>1 DEF ThreadTypes
  <2> QED  BY <1>1, <1>3, <1>4, <2>1, <2>2, <2>3, StayKeeps
<1>5. CASE pstate[c] # "ALIVE"
  <2>1. /\ place' = [place EXCEPT ![t] = "running"]
        /\ child' = [child EXCEPT ![t] = NOPROC]
        /\ cleanup_zombie(c)
    BY <1>1, <1>5 DEF WaitForSpecific
  <2>2. Moves(t, "running")
    BY <1>1, <1>2, <1>3, <2>1, PlacesAre DEF Moves, ThreadTypes, OwnerInv, ExitPlaces
  <2>3. child'[t] = NOPROC
    BY <1>2, <2>1 DEF ThreadTypes
  <2> QED  BY <1>1, <1>3, <1>5, <2>1, <2>2, <2>3, ReapKeeps DEF Asleep
<1> QED  BY <1>4, <1>5

\* The head of a process's exited_list is a zombie child of it.
LEMMA HeadIsZombie ==
    ASSUME IInv, NEW p \in Pids, exited_list[p] # <<>>
    PROVE  /\ Head(exited_list[p]) \in Family
           /\ parent[Head(exited_list[p])] = p
           /\ pstate[Head(exited_list[p])] # "ALIVE"
<1>1. TreeTypes /\ ListInv
  BY DEF IInv, TableInv
<1>2. Head(exited_list[p]) \in Members(exited_list[p])
  BY <1>1, ListsEmpty
<1>3. Members(exited_list[p]) = {x \in Family : parent[x] = p /\ pstate[x] = "ZOMBIE"}
  BY <1>1 DEF ListInv
<1> QED  BY <1>2, <1>3

\* The loop of WaitChild(NOPROC).
LEMMA WaitForAnyKeeps ==
    ASSUME IInv, NEW t \in Threads, WaitForAny(t), kernel = Nobody,
           place[t] \in {"running", "any woken"},
           \A u \in Waiters(t) : child[u] = NOPROC,
           UNCHANGED <<thread_count, owner, child, kernel, aborted>>
    PROVE  IInv'
<1> DEFINE p == owner[t]
<1>1. ThreadTypes /\ OwnerInv
  BY DEF IInv, TeamInv
<1>2. child[t] = NOPROC /\ p \in Pids
  BY <1>1, TeamFacts DEF OwnerInv
<1>3. ASSUME NEW w \in {"running", "any"}, place' = [place EXCEPT ![t] = w]
      PROVE  Moves(t, w)
  BY <1>1, <1>2, <1>3, PlacesAre DEF Moves, ThreadTypes, OwnerInv, ExitPlaces
<1>4. CASE /\ place' = [place EXCEPT ![t] = "running"]
           /\ UNCHANGED <<treeVars, tableVars>>
  <2>1. Moves(t, "running")
    BY <1>3, <1>4
  <2> QED  BY <1>2, <1>4, <2>1, StayKeeps
<1>5. CASE /\ children_list[p] # <<>> /\ exited_list[p] = <<>>
           /\ place' = [place EXCEPT ![t] = "any"]
           /\ UNCHANGED <<treeVars, tableVars>>
  <2>1. Moves(t, "any")
    BY <1>3, <1>5
  <2> QED  BY <1>2, <1>5, <2>1, StayKeeps
<1>6. CASE /\ exited_list[p] # <<>>
           /\ cleanup_zombie(Head(exited_list[p]))
           /\ place' = [place EXCEPT ![t] = "running"]
  <2> DEFINE c == Head(exited_list[p])
  <2>1. Moves(t, "running")
    BY <1>3, <1>6
  <2>2. /\ c \in Family /\ parent[c] = p /\ pstate[c] # "ALIVE" /\ c # NOPROC
    BY <1>2, <1>6, HeadIsZombie, PidsFacts DEF Family
  <2>3. cleanup_zombie(c) /\ child'[t] = NOPROC /\ \A u \in Waiters(t) : child[u] # c
    BY <1>2, <1>6, <2>2
  <2> HIDE DEF c
  <2> QED  BY <2>1, <2>2, <2>3, ReapKeeps DEF Asleep
<1> QED  BY <1>4, <1>5, <1>6 DEF WaitForAny

\* WaitChild(NOPROC), up to its wait.
LEMMA WaitAnyKeeps ==
    ASSUME ~ SharedWaits, IInv, NEW t \in Threads, WaitAny(t)
    PROVE  IInv'
  BY WaitForAnyKeeps DEF WaitAny, Calls

\* WaitChild(NOPROC) goes on after its wait.
LEMMA WaitAnyResumeKeeps ==
    ASSUME IInv, NEW t \in Threads, WaitAnyResume(t)
    PROVE  IInv'
<1>1. /\ WaitForAny(t) /\ kernel = Nobody /\ place[t] = "any woken"
      /\ UNCHANGED <<thread_count, owner, child, kernel, aborted>>
  BY DEF WaitAnyResume
<1>2. \A u \in Waiters(t) : child[u] = NOPROC
  <2> SUFFICES ASSUME NEW u \in Waiters(t), child[u] # NOPROC
               PROVE  FALSE
    OBVIOUS
  <2>1. OwnerInv /\ WaitInv
    BY DEF IInv, TeamInv
  <2>2. u \in Threads /\ t \in Waiters(u) /\ child[t] = NOPROC
    BY <1>1, <2>1 DEF Waiters, OwnerInv
  <2> QED  BY <2>1, <2>2 DEF WaitInv
<1> QED  BY <1>1, <1>2, WaitForAnyKeeps

-----------------------------------------------------------------------------
(* Exit() in init.                                                         *)

\* Exit() of the first process waits for its children.
LEMMA InitExitKeeps ==
    ASSUME ~ InitLeaves, IInv, NEW t \in Threads, InitExit(t)
    PROVE  IInv'
<1> USE DEF InitExit
<1>1. /\ place[t] = "running" /\ kernel = Nobody /\ owner[t] = InitPid
      /\ thread_count[InitPid] = 1 /\ kernel' = t
      /\ place' = [place EXCEPT ![t] = "exit loop"]
      /\ UNCHANGED <<treeVars, tableVars, thread_count, owner, child, aborted>>
  BY DEF Calls
<1>2. ThreadTypes /\ OwnerInv /\ child[t] = NOPROC
  BY <1>1 DEF IInv, TeamInv, OwnerInv
<1>3. Waiters(t) = {}
  <2>1. Team(owner[t]) = {t}
    BY <1>1, TeamFacts
  <2> QED  BY <2>1 DEF Waiters, Team
<1> HIDE DEF InitExit
<1>4. Moves(t, "exit loop")
  BY <1>1, <1>2, <1>3, PlacesAre, ProcAssumption
     DEF Moves, ThreadTypes, OwnerInv, ExitPlaces
<1> QED  BY <1>1, <1>2, <1>4, StayKeeps

\* Exit() of the first process goes on after a wait.
LEMMA InitExitResumeKeeps ==
    ASSUME IInv, NEW t \in Threads, InitExitResume(t)
    PROVE  IInv'
<1>1. /\ place[t] = "exit woken" /\ kernel = Nobody /\ kernel' = t
      /\ place' = [place EXCEPT ![t] = "exit loop"]
      /\ UNCHANGED <<treeVars, tableVars, thread_count, owner, child, aborted>>
  BY DEF InitExitResume
<1>2. /\ ThreadTypes /\ OwnerInv /\ child[t] = NOPROC
      /\ owner[t] = InitPid /\ thread_count[InitPid] = 1
  BY <1>1 DEF IInv, TeamInv, OwnerInv, ExitInv
<1>3. Waiters(t) = {}
  <2>1. Team(owner[t]) = {t}
    BY <1>1, <1>2, TeamFacts
  <2> QED  BY <2>1 DEF Waiters, Team
<1>4. Moves(t, "exit loop")
  BY <1>1, <1>2, <1>3, PlacesAre, ProcAssumption
     DEF Moves, ThreadTypes, OwnerInv, ExitPlaces
<1> QED  BY <1>1, <1>2, <1>4, StayKeeps

-----------------------------------------------------------------------------
(* The end of a thread, and of its process.                                *)

\* Thread t of process p ends, and other threads may be woken up.
Leaves(t, p) ==
    /\ place[t] # "none" /\ owner[t] = p /\ kernel \in {t, Nobody}
    /\ place' \in [Threads -> Places] /\ place'[t] = "none"
    /\ \A x \in Threads \ {t} : \/ place'[x] = place[x]
                                \/ place[x] = "one" /\ place'[x] = "one woken"
                                \/ place[x] = "any" /\ place'[x] = "any woken"
                                \/ place[x] = "exit" /\ place'[x] = "exit woken"
    /\ thread_count' = [thread_count EXCEPT ![p] = @ - 1]
    /\ owner' = [owner EXCEPT ![t] = NOPROC]
    /\ child' = [child EXCEPT ![t] = NOPROC]
    /\ kernel' = Nobody

\* The count of threads when one exits.
LEMMA LeaveCounts ==
    ASSUME IInv, NEW t \in Threads, NEW p, Leaves(t, p)
    PROVE  /\ p \in Pids /\ p # 0 /\ thread_count[p] \in Nat /\ thread_count[p] > 0
           /\ thread_count'[p] = thread_count[p] - 1
           /\ thread_count' \in [Pids -> Nat]
           /\ \A q \in Pids : thread_count'[q] = Cardinality(Team(q)')
           /\ \A q \in Pids \ {p} : thread_count'[q] = thread_count[q]
<1>1. ThreadTypes
  BY DEF IInv, TeamInv
<1>2. /\ p \in Pids /\ p # 0 /\ thread_count[p] > 0 /\ thread_count[p] \in Nat
      /\ t \in Team(p) /\ Team(p) \in SUBSET Threads
      /\ thread_count[p] = Cardinality(Team(p))
  BY TeamFacts DEF Leaves
<1>3. Team(p)' = Team(p) \ {t} /\ \A q \in Pids \ {p} : Team(q)' = Team(q)
  BY <1>1, <1>2, PidsFacts DEF Leaves, Team, ThreadTypes
<1>4. Cardinality(Team(p) \ {t}) = Cardinality(Team(p)) - 1
  BY <1>2, Counting
<1>5. /\ thread_count'[p] = thread_count[p] - 1
      /\ \A q \in Pids \ {p} : thread_count'[q] = thread_count[q]
  BY <1>1, <1>2 DEF Leaves, ThreadTypes
<1>6. thread_count[p] - 1 \in Nat
  BY <1>2
<1>7. thread_count' \in [Pids -> Nat]
  BY <1>1, <1>6 DEF Leaves, ThreadTypes
<1>8. thread_count'[p] = Cardinality(Team(p)')
  BY <1>2, <1>3, <1>4, <1>5
<1>9. \A q \in Pids \ {p} : thread_count'[q] = Cardinality(Team(q)')
  BY <1>3, <1>5, TeamFacts
<1> QED  BY <1>2, <1>5, <1>7, <1>8, <1>9

\* A thread that exits leaves its team.
LEMMA LeaveTeam ==
    ASSUME IInv, NEW t \in Threads, NEW p, Leaves(t, p),
           \A q \in Pids \ {p} : pstate'[q] = "ALIVE" <=> pstate[q] = "ALIVE",
           pstate'[p] = "ALIVE" <=> thread_count[p] > 1,
           \A x \in Threads \ {t} : child[x] # NOPROC =>
               child[x] \in Family' /\ parent'[child[x]] = owner[x]
    PROVE  ThreadTypes' /\ OwnerInv' /\ ExitInv' /\ ThreadCountExact' /\ WaitInv'
<1>1. /\ ThreadTypes /\ OwnerInv /\ ExitInv /\ WaitInv
  BY DEF IInv, TeamInv
<1>2. /\ p \in Pids /\ p # 0 /\ thread_count[p] \in Nat /\ thread_count[p] > 0
      /\ thread_count'[p] = thread_count[p] - 1
      /\ thread_count' \in [Pids -> Nat]
      /\ \A q \in Pids : thread_count'[q] = Cardinality(Team(q)')
      /\ \A q \in Pids \ {p} : thread_count'[q] = thread_count[q]
  BY LeaveCounts
<1>3. \A x \in Threads : /\ owner'[x] = IF x = t THEN NOPROC ELSE owner[x]
                         /\ child'[x] = IF x = t THEN NOPROC ELSE child[x]
  BY <1>1 DEF Leaves, ThreadTypes
<1>4. ThreadTypes'
  BY <1>1, <1>2 DEF Leaves, ThreadTypes
<1>5. OwnerInv'
  <2> SUFFICES ASSUME NEW x \in Threads
               PROVE  /\ owner'[x] = NOPROC <=> place'[x] = "none"
                      /\ owner'[x] # 0
                      /\ child'[x] = NOPROC <=> place'[x] \notin {"one", "one woken"}
                      /\ kernel' = x <=> place'[x] = "exit loop"
    BY DEF OwnerInv
  <2>1. /\ owner[x] = NOPROC <=> place[x] = "none"
        /\ owner[x] # 0
        /\ child[x] = NOPROC <=> place[x] \notin {"one", "one woken"}
        /\ kernel = x <=> place[x] = "exit loop"
    BY <1>1 DEF OwnerInv
  <2>2. kernel' # x /\ kernel \in {t, Nobody} /\ Nobody # x
    BY ProcAssumption DEF Leaves
  <2>3. CASE x = t
    <3>1. NOPROC # 0
      BY DEF NOPROC
    <3>2. /\ owner'[x] = NOPROC /\ child'[x] = NOPROC /\ place'[x] = "none"
          /\ kernel' # x
      BY <1>3, <2>2, <2>3 DEF Leaves
    <3> QED  BY <3>1, <3>2
  <2>4. CASE x # t
    <3>1. \/ place'[x] = place[x]
          \/ place[x] = "one" /\ place'[x] = "one woken"
          \/ place[x] = "any" /\ place'[x] = "any woken"
          \/ place[x] = "exit" /\ place'[x] = "exit woken"
      BY <2>4 DEF Leaves
    <3>2. owner'[x] = owner[x] /\ child'[x] = child[x]
      BY <1>3, <2>4
    <3> QED  BY <2>1, <2>2, <2>4, <3>1, <3>2
  <2> QED  BY <2>3, <2>4
<1>6. ExitInv'
  <2> SUFFICES ASSUME NEW x \in Threads,
                      place'[x] \in {"exit", "exit woken", "exit loop"}
               PROVE  owner'[x] = InitPid /\ thread_count'[InitPid] = 1
    BY DEF ExitInv
  <2>1. x # t /\ place[x] \in {"exit", "exit woken", "exit loop"}
    BY DEF Leaves
  <2>2. owner[x] = InitPid /\ thread_count[InitPid] = 1
    BY <1>1, <2>1 DEF ExitInv
  <2>3. p # InitPid
    BY <2>1, <2>2, TeamFacts DEF Leaves
  <2> QED  BY <1>2, <1>3, <2>1, <2>2, <2>3, PidsFacts
<1>7. ThreadCountExact'
  <2>1. pstate'[p] = "ALIVE" <=> thread_count'[p] > 0
    BY <1>2
  <2>2. \A q \in Pids \ {p} : q # 0 => (pstate'[q] = "ALIVE" <=> thread_count'[q] > 0)
    BY <1>2, TeamFacts
  <2> QED  BY <1>2, <2>1, <2>2 DEF ThreadCountExact, Team
<1>8. WaitInv'
  <2> SUFFICES ASSUME NEW x \in Threads, child'[x] # NOPROC
               PROVE  /\ child'[x] \in Family' /\ parent'[child'[x]] = owner'[x]
                      /\ \A y \in Waiters(x)' : child'[y] \notin {child'[x], NOPROC}
    BY DEF WaitInv
  <2>1. x # t /\ child'[x] = child[x] /\ owner'[x] = owner[x] /\ child[x] # NOPROC
    BY <1>3
  <2>2. owner[x] # NOPROC
    BY <1>1, <2>1 DEF OwnerInv
  <2>3. ASSUME NEW y \in Waiters(x)'
        PROVE  y \in Waiters(x) /\ child'[y] = child[y]
    <3>1. /\ y \in Threads /\ y # x /\ owner'[y] = owner[x]
          /\ place'[y] \notin {"none", "running"}
      BY <2>1 DEF Waiters
    <3>2. y # t
      BY <1>3, <2>2, <3>1
    <3>3. place[y] \notin {"none", "running"}
      BY <3>1, <3>2 DEF Leaves
    <3> QED  BY <1>3, <3>1, <3>2, <3>3 DEF Waiters
  <2>4. \A y \in Waiters(x) : child[y] \notin {child[x], NOPROC}
    BY <1>1, <2>1 DEF WaitInv
  <2> QED  BY <2>1, <2>3, <2>4
<1> QED  BY <1>4, <1>5, <1>6, <1>7, <1>8

\* A thread that is not the last of its process.
LEMMA OneOfManyEnds ==
    ASSUME IInv, NEW t \in Threads, NEW p, Leaves(t, p), thread_count[p] > 1,
           place' = [place EXCEPT ![t] = "none"],
           UNCHANGED <<treeVars, tableVars, aborted>>
    PROVE  IInv'
<1>1. TableInv' /\ Family' = Family
  BY SameTable DEF IInv
<1>2. ThreadTypes /\ WaitInv /\ NoMissedExit
  BY DEF IInv, TeamInv
<1>3. /\ p \in Pids /\ p # 0 /\ pstate[p] = "ALIVE"
      /\ UNCHANGED <<pstate, parent, children_list, exited_list>>
  BY TeamFacts DEF Leaves, treeVars
<1>4. ThreadTypes' /\ OwnerInv' /\ ExitInv' /\ ThreadCountExact' /\ WaitInv'
  <2>1. \A x \in Threads \ {t} : child[x] # NOPROC =>
            child[x] \in Family' /\ parent'[child[x]] = owner[x]
    BY <1>1, <1>2, <1>3 DEF WaitInv
  <2> QED  BY <1>3, <2>1, LeaveTeam
<1>5. NoMissedExit'
  <2> SUFFICES ASSUME NEW x \in Threads, place'[x] \in {"one", "any", "exit"}
               PROVE  /\ place'[x] = "one" => /\ pstate'[child'[x]] = "ALIVE"
                                              /\ parent'[child'[x]] = owner'[x]
                      /\ place'[x] \in {"any", "exit"} =>
                            /\ children_list'[owner'[x]] # <<>>
                            /\ exited_list'[owner'[x]] = <<>>
    BY DEF NoMissedExit
  <2>1. /\ x # t /\ place'[x] = place[x] /\ owner'[x] = owner[x]
        /\ child'[x] = child[x]
    BY <1>2 DEF Leaves, ThreadTypes
  <2> QED  BY <1>2, <1>3, <2>1 DEF NoMissedExit
<1> QED  BY <1>1, <1>4, <1>5 DEF IInv, TeamInv

\* The last thread of a process other than init.
LEMMA LastOfProcessEnds ==
    ASSUME IInv, NEW t \in Threads, NEW p, Leaves(t, p), thread_count[p] = 1,
           p # InitPid, ProcessEnds(p), UNCHANGED tableVars,
           place' = WakeWaiters([place EXCEPT ![t] = "none"], parent[p], exited_list[p]),
           pstate' = [pstate EXCEPT ![p] = "ZOMBIE"]
    PROVE  IInv'
<1>1. /\ TableInv /\ TreeTypes /\ ListInv /\ ThreadTypes /\ OwnerInv /\ WaitInv
      /\ NoMissedExit
  BY DEF IInv, TableInv, TeamInv
<1>2. /\ p \in Pids /\ p # 0 /\ pstate[p] = "ALIVE" /\ Team(p) = {t}
  BY TeamFacts DEF Leaves
<1>3. p \in Family
  BY <1>2 DEF Family, Pids, InitPid
<1>4. pstate[InitPid] = "ALIVE"
  BY <1>1, <1>3, InitHasFamily
<1>5. /\ TableInv' /\ Family' = Family
      /\ \A q \in Family : parent'[q] = IF parent[q] = p THEN InitPid ELSE parent[q]
      /\ parent[p] # p /\ parent[p] \in Pids
      /\ \A q \in Pids \ {p, InitPid} : children_list'[q] = children_list[q]
      /\ \A q \in Pids \ {p, parent[p], InitPid} : exited_list'[q] = exited_list[q]
      /\ Members(children_list[InitPid]) \subseteq Members(children_list'[InitPid])
      /\ InitPid # parent[p] /\ exited_list[p] = <<>> =>
            exited_list'[InitPid] = exited_list[InitPid]
  BY <1>1, <1>2, <1>3, <1>4, EndTable
<1>6. \A q \in Pids : pstate'[q] = IF q = p THEN "ZOMBIE" ELSE pstate[q]
  BY <1>1 DEF TreeTypes
<1>7. \A x \in Threads \ {t} : owner[x] # p
  BY <1>2 DEF Team
<1>8. \A x \in Threads \ {t} : child[x] # NOPROC =>
          child[x] \in Family' /\ parent'[child[x]] = owner[x]
  BY <1>1, <1>5, <1>7 DEF WaitInv
<1>9. ThreadTypes' /\ OwnerInv' /\ ExitInv' /\ ThreadCountExact' /\ WaitInv'
  <2>1. \A q \in Pids \ {p} : pstate'[q] = "ALIVE" <=> pstate[q] = "ALIVE"
    BY <1>6
  <2>2. pstate'[p] = "ALIVE" <=> thread_count[p] > 1
    BY <1>2, <1>6
  <2> QED  BY <1>8, <2>1, <2>2, LeaveTeam
<1>10. ASSUME NEW x \in Threads, place'[x] \in {"one", "any", "exit"}
       PROVE  /\ x # t /\ place[x] = place'[x] /\ owner'[x] = owner[x] /\ child'[x] = child[x]
              /\ owner[x] # parent[p]
              /\ owner[x] = InitPid => exited_list[p] = <<>>
              /\ owner[x] # p /\ owner[x] \in Pids
  <2>1. x # t
    BY <1>10 DEF Leaves
  <2>2. owner'[x] = owner[x] /\ child'[x] = child[x] /\ owner[x] # p
    BY <1>1, <1>7, <2>1 DEF Leaves, ThreadTypes
  <2>3. place[x] = place'[x]
    BY <1>10, <2>1 DEF Leaves
  <2>4. owner[x] # parent[p] /\ (owner[x] = InitPid => exited_list[p] = <<>>)
    <3>1. [place EXCEPT ![t] = "none"][x] = place[x]
      BY <1>1, <2>1 DEF ThreadTypes
    <3>2. ASSUME owner[x] = parent[p] \/ (owner[x] = InitPid /\ exited_list[p] # <<>>)
          PROVE  place'[x] = Woken(place[x])
      BY <1>10, <2>3, <3>1, <3>2 DEF WakeWaiters, Asleep
    <3> QED  BY <1>10, <2>3, <3>2, PlacesAre
  <2>5. owner[x] \in Pids
    BY <1>10, <2>3, TeamFacts
  <2> QED  BY <2>1, <2>2, <2>3, <2>4, <2>5
<1>11. NoMissedExit'
  <2> SUFFICES ASSUME NEW x \in Threads, place'[x] \in {"one", "any", "exit"}
               PROVE  /\ place'[x] = "one" => /\ pstate'[child'[x]] = "ALIVE"
                                              /\ parent'[child'[x]] = owner'[x]
                      /\ place'[x] \in {"any", "exit"} =>
                            /\ children_list'[owner'[x]] # <<>>
                            /\ exited_list'[owner'[x]] = <<>>
    BY DEF NoMissedExit
  <2>1. /\ x # t /\ place[x] = place'[x] /\ owner'[x] = owner[x] /\ child'[x] = child[x]
        /\ owner[x] # parent[p]
        /\ owner[x] = InitPid => exited_list[p] = <<>>
        /\ owner[x] # p /\ owner[x] \in Pids
    BY <1>10
  <2>2. CASE place[x] = "one"
    <3>1. /\ pstate[child[x]] = "ALIVE" /\ parent[child[x]] = owner[x]
          /\ child[x] # NOPROC /\ child[x] \in Family /\ child[x] \in Pids
      BY <1>1, <2>2 DEF NoMissedExit, OwnerInv, WaitInv, Family
    <3>2. child[x] # p
      BY <2>1, <3>1
    <3> QED  BY <1>5, <1>6, <2>1, <2>2, <3>1, <3>2
  <2>3. CASE place[x] \in {"any", "exit"}
    <3>1. children_list[owner[x]] # <<>> /\ exited_list[owner[x]] = <<>>
      BY <1>1, <2>3 DEF NoMissedExit
    <3>2. CASE owner[x] = InitPid
      <4>1. exited_list'[InitPid] = <<>>
        BY <1>5, <2>1, <3>1, <3>2
      <4>2. Members(children_list[InitPid]) # {}
        BY <1>1, <2>1, <3>1, <3>2, ListsEmpty
      <4>3. Members(children_list'[InitPid]) # {}
        BY <1>5, <4>2
      <4>4. children_list'[InitPid] \in Seq(Pids)
        BY <1>5, PidsFacts DEF TableInv, TreeTypes
      <4>5. children_list'[InitPid] # <<>>
        BY <4>3, <4>4, EmptyMembers
      <4> QED  BY <2>1, <2>3, <3>2, <4>1, <4>5
    <3>3. CASE owner[x] # InitPid
      BY <1>5, <2>1, <2>3, <3>1, <3>3
    <3> QED  BY <3>2, <3>3
  <2> QED  BY <2>1, <2>2, <2>3
<1>12. UNCHANGED aborted
  BY DEF ProcessEnds
<1> QED  BY <1>5, <1>9, <1>11, <1>12 DEF IInv, TeamInv

\* The last thread of init, once init has no child any more.
LEMMA LastOfInitEnds ==
    ASSUME IInv, NEW t \in Threads, Leaves(t, InitPid), thread_count[InitPid] = 1,
           children_list[InitPid] = <<>>, InitEnds, UNCHANGED tableVars,
           place' = [place EXCEPT ![t] = "none"],
           pstate' = [pstate EXCEPT ![InitPid] = "ZOMBIE"]
    PROVE  IInv'
<1>1. /\ TableInv /\ TreeTypes /\ RootInv /\ ListInv /\ ThreadTypes /\ OwnerInv /\ aborted = FALSE
  BY DEF IInv, TableInv, TeamInv
<1>2. Family = {}
  BY <1>1, InitHasFamily
<1>3. UNCHANGED <<parent, children_list, exited_list, pcb_freelist, process_count>>
  BY DEF InitEnds, tableVars
<1>4. /\ \A q \in Pids : pstate'[q] = IF q = InitPid THEN "ZOMBIE" ELSE pstate[q]
      /\ pstate' \in [Pids -> {"FREE", "ALIVE", "ZOMBIE"}] /\ InitPid \in Pids
      /\ pstate[InitPid] # "FREE"
  BY <1>1, PidsFacts DEF TreeTypes, RootInv
<1>5. Family' = {} /\ Free' = Free
  BY <1>2, <1>4 DEF Family, Free
<1>6. TableInv'
  <2>1. TreeTypes' /\ RootInv'
    BY <1>1, <1>3, <1>4 DEF TreeTypes, RootInv
  <2>2. ListInv' /\ ParentInv' /\ Acyclic'
    BY <1>1, <1>2, <1>3, <1>5 DEF ListInv, ParentInv, Acyclic
  <2>3. FreeListSound'
    <3>1. /\ FreeListed(Free, parent, pcb_freelist)
          /\ process_count = MAX_PROC - Cardinality(Free)
      BY <1>1, FreeListIs DEF TableInv
    <3>2. /\ FreeListed(Free', parent', pcb_freelist')
          /\ process_count' = MAX_PROC - Cardinality(Free')
      BY <1>3, <1>5, <3>1
    <3> QED  BY <3>2 DEF FreeListSound, FreeListed, Free
  <2> QED  BY <2>1, <2>2, <2>3 DEF TableInv
<1>7. aborted' = FALSE
  <2>1. exited_list[InitPid] = <<>>
    <3>1. Members(exited_list[InitPid]) = {}
      BY <1>1, <1>2, <1>4 DEF ListInv
    <3> QED  BY <1>1, <1>4, <3>1, ListsEmpty
  <2> QED  BY <2>1 DEF InitEnds
<1>8. \A x \in Threads \ {t} : place[x] = "none"
  <2> SUFFICES ASSUME NEW x \in Threads \ {t}, place[x] # "none"
               PROVE  FALSE
    OBVIOUS
  <2>1. /\ owner[x] \in Pids /\ owner[x] # 0 /\ pstate[owner[x]] = "ALIVE"
        /\ x \in Team(owner[x])
    BY TeamFacts
  <2>2. Team(InitPid) = {t}
    BY TeamFacts DEF Leaves
  <2>3. owner[x] # InitPid
    BY <2>1, <2>2
  <2>4. owner[x] \in Family
    BY <2>1, <2>3 DEF Family, Pids, InitPid
  <2> QED  BY <1>2, <2>4
<1>9. \A x \in Threads \ {t} : child[x] = NOPROC
  BY <1>1, <1>8 DEF OwnerInv
<1>10. ThreadTypes' /\ OwnerInv' /\ ExitInv' /\ ThreadCountExact' /\ WaitInv'
  <2>1. \A q \in Pids \ {InitPid} : pstate'[q] = "ALIVE" <=> pstate[q] = "ALIVE"
    BY <1>4
  <2>2. pstate'[InitPid] = "ALIVE" <=> thread_count[InitPid] > 1
    BY <1>4
  <2> QED  BY <1>9, <2>1, <2>2, LeaveTeam
<1>11. NoMissedExit'
  BY <1>1, <1>8 DEF NoMissedExit, ThreadTypes
<1> QED  BY <1>6, <1>7, <1>10, <1>11 DEF IInv, TeamInv

\* The broadcasts wake up threads, and do nothing else.
LEMMA WakeWaitersIs ==
    ASSUME ThreadTypes, NEW t \in Threads, NEW p, NEW heirs,
           place' = WakeWaiters([place EXCEPT ![t] = "none"], p, heirs)
    PROVE  /\ place' \in [Threads -> Places] /\ place'[t] = "none"
           /\ \A x \in Threads \ {t} : \/ place'[x] = place[x]
                                       \/ place[x] = "one" /\ place'[x] = "one woken"
                                       \/ place[x] = "any" /\ place'[x] = "any woken"
                                       \/ place[x] = "exit" /\ place'[x] = "exit woken"
<1> DEFINE gone == [place EXCEPT ![t] = "none"]
<1>1. /\ gone \in [Threads -> Places] /\ gone[t] = "none"
      /\ \A x \in Threads \ {t} : gone[x] = place[x]
  BY PlacesAre DEF ThreadTypes
<1> HIDE DEF gone
<1>2. \A x \in Threads : place'[x] = gone[x] \/ (gone[x] \in Asleep /\ place'[x] = Woken(gone[x]))
  BY DEF WakeWaiters, gone
<1>3. /\ \A x \in Threads : \/ place'[x] = gone[x]
                            \/ gone[x] = "one" /\ place'[x] = "one woken"
                            \/ gone[x] = "any" /\ place'[x] = "any woken"
                            \/ gone[x] = "exit" /\ place'[x] = "exit woken"
      /\ place' = [x \in Threads |-> place'[x]]
  <2>1. place' = [x \in Threads |-> place'[x]]
    BY DEF WakeWaiters
  <2>2. ASSUME NEW x \in Threads
        PROVE  \/ place'[x] = gone[x]
               \/ gone[x] = "one" /\ place'[x] = "one woken"
               \/ gone[x] = "any" /\ place'[x] = "any woken"
               \/ gone[x] = "exit" /\ place'[x] = "exit woken"
    BY <1>2, PlacesAre
  <2> QED  BY <2>1, <2>2
<1>4. \A x \in Threads : place'[x] \in Places
  BY <1>1, <1>3, PlacesAre
<1> QED  BY <1>1, <1>3, <1>4

\* ThreadExit(), the last thread of a process included.
LEMMA ThreadExitKeeps ==
    ASSUME ~ InitLeaves, IInv, NEW t \in Threads, ThreadExit(t)
    PROVE  IInv'
<1> DEFINE p == owner[t]
           gone == [place EXCEPT ![t] = "none"]
<1>1. /\ place[t] = "running" /\ kernel = Nobody /\ kernel' = Nobody
      /\ p = InitPid => thread_count[InitPid] > 1
      /\ ThreadEnds(t)
  BY DEF ThreadExit, Calls
<1>2. ThreadTypes
  BY DEF IInv, TeamInv
<1>3. /\ thread_count' = [thread_count EXCEPT ![p] = @ - 1]
      /\ owner' = [owner EXCEPT ![t] = NOPROC]
      /\ child' = [child EXCEPT ![t] = NOPROC]
      /\ UNCHANGED tableVars
  BY <1>1 DEF ThreadEnds
<1>4. CASE /\ thread_count[p] > 1 /\ place' = gone
           /\ UNCHANGED <<treeVars, aborted>>
  <2>1. Leaves(t, p)
    BY <1>1, <1>2, <1>3, <1>4, PlacesAre DEF Leaves, ThreadTypes
  <2> QED  BY <1>3, <1>4, <2>1, OneOfManyEnds
<1>5. CASE /\ thread_count[p] = 1 /\ p # InitPid
           /\ ProcessEnds(p)
           /\ place' = WakeWaiters(gone, parent[p], exited_list[p])
           /\ pstate' = [pstate EXCEPT ![p] = "ZOMBIE"]
  <2>1. Leaves(t, p)
    <3>1. /\ place' \in [Threads -> Places] /\ place'[t] = "none"
          /\ \A x \in Threads \ {t} : \/ place'[x] = place[x]
                                      \/ place[x] = "one" /\ place'[x] = "one woken"
                                      \/ place[x] = "any" /\ place'[x] = "any woken"
                                      \/ place[x] = "exit" /\ place'[x] = "exit woken"
      BY <1>2, <1>5, WakeWaitersIs
    <3> QED  BY <1>1, <1>3, <3>1 DEF Leaves
  <2> QED  BY <1>3, <1>5, <2>1, LastOfProcessEnds
<1>6. ~ (thread_count[p] = 1 /\ p = InitPid)
  BY <1>1
<1> QED  BY <1>1, <1>4, <1>5, <1>6 DEF ThreadEnds

\* The loop of Exit() in the first process: leave, clean up a child, or wait.
LEMMA InitExitLoopKeeps ==
    ASSUME IInv, NEW t \in Threads, InitExitLoop(t)
    PROVE  IInv'
<1>1. ThreadTypes /\ OwnerInv /\ ExitInv /\ kernel = t
  BY DEF IInv, TeamInv, InitExitLoop
<1>2. /\ place[t] = "exit loop" /\ child[t] = NOPROC
      /\ owner[t] = InitPid /\ thread_count[InitPid] = 1
  BY <1>1 DEF OwnerInv, ExitInv
<1>3. Waiters(t) = {}
  <2>1. Team(owner[t]) = {t}
    BY <1>2, TeamFacts
  <2> QED  BY <2>1 DEF Waiters, Team
<1>4. CASE /\ children_list[InitPid] = <<>>
           /\ ThreadEnds(t) /\ kernel' = Nobody
  <2>1. /\ thread_count' = [thread_count EXCEPT ![InitPid] = @ - 1]
        /\ owner' = [owner EXCEPT ![t] = NOPROC]
        /\ child' = [child EXCEPT ![t] = NOPROC]
        /\ InitEnds /\ UNCHANGED tableVars
        /\ place' = [place EXCEPT ![t] = "none"]
        /\ pstate' = [pstate EXCEPT ![InitPid] = "ZOMBIE"]
    <3>1. ~ (1 > 1)
      OBVIOUS
    <3> QED  BY <1>2, <1>4, <3>1 DEF ThreadEnds
  <2>2. Leaves(t, InitPid)
    BY <1>1, <1>2, <1>4, <2>1, PlacesAre DEF Leaves, ThreadTypes
  <2> QED  BY <1>2, <1>4, <2>1, <2>2, LastOfInitEnds
<1>5. CASE /\ exited_list[InitPid] # <<>>
           /\ cleanup_zombie(Head(exited_list[InitPid]))
           /\ UNCHANGED <<threadVars, kernel, aborted>>
  <2> DEFINE c == Head(exited_list[InitPid])
  <2>1. /\ place' = [place EXCEPT ![t] = "exit loop"] /\ child'[t] = NOPROC
        /\ UNCHANGED <<thread_count, owner, child, kernel, aborted>>
    BY <1>1, <1>2, <1>5 DEF threadVars, ThreadTypes
  <2>2. Moves(t, "exit loop")
    BY <1>1, <1>2, <1>3, <2>1, PlacesAre DEF Moves, ThreadTypes, OwnerInv, ExitPlaces
  <2>3. /\ c \in Family /\ parent[c] = owner[t] /\ pstate[c] # "ALIVE"
        /\ cleanup_zombie(c)
    BY <1>2, <1>5, HeadIsZombie, PidsFacts
  <2> HIDE DEF c
  <2> QED  BY <1>3, <2>1, <2>2, <2>3, ReapKeeps DEF Asleep
<1>6. CASE /\ children_list[InitPid] # <<>> /\ exited_list[InitPid] = <<>>
           /\ place' = [place EXCEPT ![t] = "exit"]
           /\ kernel' = Nobody
           /\ UNCHANGED <<treeVars, tableVars, thread_count, owner, child, aborted>>
  <2>1. Moves(t, "exit")
    BY <1>1, <1>2, <1>3, <1>6, PlacesAre, ProcAssumption
       DEF Moves, ThreadTypes, OwnerInv, ExitPlaces
  <2> QED  BY <1>2, <1>6, <2>1, StayKeeps
<1> QED  BY <1>4, <1>5, <1>6 DEF InitExitLoop

\* Every step keeps the invariant.
LEMMA NextPreserves ==
    ASSUME ~ SharedWaits, ~ InitLeaves, IInv, [Next \/ Down]_vars
    PROVE  IInv'
<1>1. CASE UNCHANGED vars
  <2>1. UNCHANGED <<treeVars, tableVars, threadVars, kernel, aborted>>
    BY <1>1 DEF vars
  <2>2. TableInv' /\ Family' = Family
    BY <2>1, SameTable DEF IInv
  <2>3. TeamInv'
    <3>1. /\ pstate' = pstate /\ parent' = parent /\ children_list' = children_list
          /\ exited_list' = exited_list /\ thread_count' = thread_count
          /\ owner' = owner /\ place' = place /\ child' = child /\ kernel' = kernel
      BY <2>1 DEF threadVars, treeVars
    <3>2. /\ ThreadTypes /\ OwnerInv /\ ExitInv /\ ThreadCountExact /\ WaitInv
          /\ NoMissedExit
      BY DEF IInv, TeamInv
    <3>3. ThreadTypes'
      BY <3>1, <3>2 DEF ThreadTypes
    <3>4. OwnerInv'
      BY <3>1, <3>2 DEF OwnerInv
    <3>5. ExitInv'
      BY <3>1, <3>2 DEF ExitInv
    <3>6. ThreadCountExact'
      BY <3>1, <3>2 DEF ThreadCountExact
    <3>7. WaitInv'
      <4>1. \A t \in Threads : Waiters(t)' = Waiters(t)
        BY <3>1 DEF Waiters
      <4> QED  BY <2>2, <3>1, <3>2, <4>1 DEF WaitInv
    <3>8. NoMissedExit'
      BY <3>1, <3>2 DEF NoMissedExit
    <3> QED  BY <3>3, <3>4, <3>5, <3>6, <3>7, <3>8 DEF TeamInv
  <2> QED  BY <2>1, <2>2, <2>3 DEF IInv
<1>2. ASSUME NEW t \in Threads,
             \/ Exec(t) \/ CreateThread(t)
             \/ WaitAny(t) \/ \E c \in Pids : WaitChild(t, c)
             \/ Resume(t) \/ ThreadExit(t) \/ InitExit(t)
      PROVE  IInv'
  BY <1>2, ExecKeeps, CreateThreadKeeps, WaitAnyKeeps, WaitChildKeeps, WaitChildResumeKeeps,
     WaitAnyResumeKeeps, InitExitLoopKeeps, InitExitResumeKeeps, ThreadExitKeeps, InitExitKeeps
     DEF Resume
<1> QED  BY <1>1, <1>2 DEF Next, Down

-----------------------------------------------------------------------------
(* The theorems.                                                           *)

\* The invariant implies what the run checks.
LEMMA InvariantImplies ==
    ASSUME IInv PROVE ProcessInvariant /\ FreeListSound
<1>1. /\ TreeTypes /\ FreeListSound /\ ListInv /\ ParentInv /\ RootInv
      /\ ThreadTypes /\ ThreadCountExact /\ NoMissedExit /\ aborted = FALSE
  BY DEF IInv, TableInv, TeamInv
<1>2. process_count \in 0 .. MAX_PROC
  <2> DEFINE n == Cardinality(Free)
  <2>1. n \in 0 .. MAX_PROC /\ MAX_PROC \in Nat
    BY PidsFacts, ProcAssumption DEF Free
  <2>2. process_count = MAX_PROC - n
    BY <1>1, FreeListIs
  <2> HIDE DEF n
  <2>3. MAX_PROC - n \in 0 .. MAX_PROC
    BY <2>1
  <2> QED  BY <2>2, <2>3
<1>3. TypeOK
  <2>1. aborted \in BOOLEAN
    BY <1>1
  <2> QED  BY <1>1, <1>2, <2>1 DEF TypeOK, TreeTypes, ThreadTypes
<1>4. \A q \in Pids :
         /\ ToSet(children_list[q]) = Members(children_list[q])
         /\ ToSet(exited_list[q]) = Members(exited_list[q])
         /\ IsInjective(children_list[q]) /\ IsInjective(exited_list[q])
  <2> TAKE q \in Pids
  <2>1. /\ DOMAIN children_list[q] = 1 .. Len(children_list[q])
        /\ DOMAIN exited_list[q] = 1 .. Len(exited_list[q])
    BY <1>1 DEF TreeTypes
  <2> QED  BY <1>1, <2>1 DEF ToSet, Members, IsInjective, Distinct, ListInv
<1>5. \A q \in Pids :
         /\ Members(children_list[q]) = {x \in Family : parent[x] = q}
         /\ Members(exited_list[q]) = {x \in Family : parent[x] = q /\ pstate[x] = "ZOMBIE"}
  BY <1>1 DEF ListInv
<1>6. FamilyTree
  <2>1. ASSUME NEW x \in Pids, x > InitPid, pstate[x] # "FREE"
        PROVE  /\ parent[x] \in Pids /\ pstate[parent[x]] = "ALIVE"
               /\ x \in ToSet(children_list[parent[x]])
               /\ x \in ToSet(exited_list[parent[x]]) <=> pstate[x] = "ZOMBIE"
    <3>1. x \in Family
      BY <2>1 DEF Family
    <3>2. parent[x] \in Pids /\ pstate[parent[x]] = "ALIVE"
      BY <1>1, <3>1 DEF ParentInv
    <3> QED  BY <1>4, <1>5, <3>1, <3>2
  <2>2. ASSUME NEW q \in Pids
        PROVE  /\ IsInjective(children_list[q]) /\ IsInjective(exited_list[q])
               /\ \A x \in ToSet(children_list[q]) \cup ToSet(exited_list[q]) :
                     pstate[x] # "FREE" /\ parent[x] = q
    BY <1>4, <1>5 DEF Family
  <2> QED  BY <1>1, <2>1, <2>2 DEF FamilyTree
<1> QED  BY <1>1, <1>3, <1>6 DEF ProcessInvariant

\* The invariant holds in every state of every execution.
THEOREM InductiveInvariant ==
    ASSUME ~ SharedWaits, ~ InitLeaves PROVE Spec => []IInv
<1>1. IInv /\ [Next \/ Down]_vars => IInv'
  BY NextPreserves
<1>2. Init => IInv
  BY InitEstablishesIInv
<1> QED  BY <1>1, <1>2, PTL DEF Spec

(* Exec(), WaitChild() and the end of processes (kernel_proc.c,             *)
(* kernel_threads.c) keep the family of the processes, the counts of their  *)
(* threads, and the promise that nobody sleeps through an exit, of a        *)
(* program whose threads do not compete for a child and whose init leaves   *)
(* by Exit().                                                               *)
THEOREM ProcessesSound ==
    ASSUME ~ SharedWaits, ~ InitLeaves PROVE Spec => []ProcessInvariant
<1>1. IInv => ProcessInvariant
  BY InvariantImplies
<1> QED  BY <1>1, InductiveInvariant, PTL

(* Of such a program, the free list of acquire_PCB() and release_PCB() leads *)
(* through every free PCB once, and process_count counts the others.         *)
THEOREM FreeListIsSound ==
    ASSUME ~ SharedWaits, ~ InitLeaves PROVE Spec => []FreeListSound
<1>1. IInv => FreeListSound
  BY InvariantImplies
<1> QED  BY <1>1, InductiveInvariant, PTL

-----------------------------------------------------------------------------
(* The threads of a process: the inductive invariant.                      *)

\* A thread lives from the making of its PTCB until it has exited.
LifeInv == \A t \in Tids : Live(t) <=> ptcb[t] = "listed" /\ ~ exited[t]

\* The main thread's PTCB, counted twice, goes only with the process.
MainInv == (\E t \in Tids : Live(t)) => ptcb[MainTid] = "listed"

\* A thread that sleeps in a join joins a thread.
AimInv == \A t \in Tids : at[t] \in {"join", "woken"} => target[t] \in Tids

ThreadIInv == ThreadsInvariant /\ LifeInv /\ MainInv /\ AimInv

\* The threads that join u, and those that live.
Joiners(u) == {t \in Tids : Blocked(t, u)}
Living == {t \in Tids : Live(t)}

Expected(u) == Cardinality(Joiners(u)) + (IF exited[u] THEN 0 ELSE 1)
                                       + (IF u = MainTid THEN 1 ELSE 0)

\* What an action may do to the two sets, and what it must keep.
Counts == \A u \in Tids :
    /\ Live(u) \/ Joiners(u) # {} => ptcb[u] = "listed"
    /\ ptcb[u] = "listed" => refcount[u] = Expected(u)

-----------------------------------------------------------------------------
(* Facts about threads used in several places.                             *)

\* How many threads a set holds changes by the one that comes or goes.
LEMMA ThreadsCounting ==
    ASSUME NEW S \in SUBSET Tids, NEW t \in Tids
    PROVE  /\ Cardinality(S) \in Nat
           /\ Cardinality(S) = 0 <=> S = {}
           /\ t \notin S => Cardinality(S \cup {t}) = Cardinality(S) + 1
           /\ t \in S => Cardinality(S \ {t}) = Cardinality(S) - 1
           /\ t \in S => Cardinality(S) > 0
<1>1. IsFiniteSet(S)
  BY FS_Subset, ThreadAssumption
<1>2. /\ Cardinality(S) \in Nat
      /\ Cardinality(S) = 0 <=> S = {}
  BY <1>1, FS_CardinalityType, FS_EmptySet
<1>3. t \notin S => Cardinality(S \cup {t}) = Cardinality(S) + 1
  BY <1>1, FS_AddElement
<1>4. t \in S => Cardinality(S \ {t}) = Cardinality(S) - 1
  BY <1>1, FS_RemoveElement
<1> QED  BY <1>2, <1>3, <1>4

\* The invariant in terms of the two sets.
LEMMA InSets ==
    /\ PTCBsAlive <=> Counts
    /\ ThreadsCounted <=> /\ nthreads = Cardinality(Living)
                          /\ nthreads = 0 => \A u \in Tids : ptcb[u] # "listed"
    /\ MainInv <=> (Living # {} => ptcb[MainTid] = "listed")
<1>1. PTCBsAlive <=> Counts
  BY DEF PTCBsAlive, Counts, Joiners, Expected
<1>2. ThreadsCounted <=> /\ nthreads = Cardinality(Living)
                         /\ nthreads = 0 => \A u \in Tids : ptcb[u] # "listed"
  BY DEF ThreadsCounted, Living
<1>3. MainInv <=> (Living # {} => ptcb[MainTid] = "listed")
  BY DEF MainInv, Living
<1> QED  BY <1>1, <1>2, <1>3

\* What the invariant says of a thread that is running, and of any other.
LEMMA Facts ==
    ASSUME ThreadIInv
    PROVE  /\ ThreadsTypeOK /\ Counts /\ LifeInv /\ AimInv
           /\ nthreads = Cardinality(Living)
           /\ nthreads = 0 => \A u \in Tids : ptcb[u] # "listed"
           /\ Living # {} => ptcb[MainTid] = "listed"
           /\ Living \in SUBSET Tids
           /\ \A u \in Tids : Joiners(u) \in SUBSET Living
<1>1. Living \in SUBSET Tids /\ \A u \in Tids : Joiners(u) \in SUBSET Living
  BY DEF Living, Joiners, Blocked, Live
<1> QED  BY <1>1, InSets DEF ThreadIInv, ThreadsInvariant

\* The invariant, from its parts.
LEMMA Combine ==
    ASSUME ThreadsTypeOK', LifeInv', AimInv', Counts', nthreads' = Cardinality(Living'),
           nthreads' = 0 => \A u \in Tids : ptcb'[u] # "listed",
           Living' # {} => ptcb'[MainTid] = "listed"
    PROVE  ThreadIInv'
<1>1. PTCBsAlive'
  BY DEF PTCBsAlive, Counts, Joiners, Expected
<1>2. ThreadsCounted'
  BY DEF ThreadsCounted, Living
<1>3. MainInv'
  BY DEF MainInv, Living
<1> QED  BY <1>1, <1>2, <1>3 DEF ThreadIInv, ThreadsInvariant

-----------------------------------------------------------------------------
(* The invariant holds of the new process, and every action keeps it.      *)

\* The invariant holds when the main thread starts.
LEMMA InitEstablishesThreadIInv == ThreadsInit => ThreadIInv
<1> SUFFICES ASSUME ThreadsInit PROVE ThreadIInv
  OBVIOUS
<1> USE DEF ThreadsInit, Live
<1>1. ThreadsTypeOK
  BY ThreadAssumption DEF ThreadsTypeOK
<1>2. Living = {MainTid} /\ \A u \in Tids : Joiners(u) = {}
  BY ThreadAssumption DEF Living, Joiners, Blocked
<1>3. Cardinality({}) = 0 /\ Cardinality({MainTid}) = 1
  BY FS_EmptySet, FS_Singleton
<1>4. Counts
  BY <1>2, <1>3, ThreadAssumption DEF Counts, Expected
<1>5. LifeInv /\ AimInv
  BY ThreadAssumption DEF LifeInv, AimInv
<1> HIDE DEF Live
<1> QED  BY <1>1, <1>2, <1>3, <1>4, <1>5, InSets, ThreadAssumption
         DEF ThreadIInv, ThreadsInvariant

\* CreateThread().
LEMMA CreateThreadSound ==
    ASSUME ThreadIInv, NEW t \in Tids, NEW u \in Tids, sys_CreateThread(t, u)
    PROVE  ThreadIInv'
<1> USE DEF sys_CreateThread, acquire_PTCB
<1>1. /\ ThreadsTypeOK /\ Counts /\ LifeInv /\ AimInv
      /\ nthreads = Cardinality(Living)
      /\ Living # {} => ptcb[MainTid] = "listed"
      /\ Living \in SUBSET Tids
      /\ \A x \in Tids : Joiners(x) \in SUBSET Living
  BY Facts
<1>2. ThreadsTypeOK'
  BY <1>1 DEF ThreadsTypeOK
<1>3. t \in Living /\ u \notin Living
  BY <1>1 DEF LifeInv, Live, Living
<1>4. u # MainTid /\ Joiners(u) = {}
  BY <1>1, <1>3 DEF Counts
<1>5. Living' = Living \cup {u}
  BY <1>1 DEF ThreadsTypeOK, Living, Live
<1>6. \A x \in Tids : Joiners(x)' = Joiners(x)
  <2> TAKE x \in Tids
  <2>1. \A y \in Tids : Blocked(y, x)' <=> Blocked(y, x)
    BY <1>1, <1>3, ThreadAssumption DEF ThreadsTypeOK, Blocked, Living, Live
  <2> QED  BY <2>1 DEF Joiners
<1>7. LifeInv' /\ AimInv'
  BY <1>1 DEF LifeInv, AimInv, Live, ThreadsTypeOK
<1>8. Counts'
  <2> SUFFICES ASSUME NEW x \in Tids
               PROVE  /\ Live(x)' \/ Joiners(x)' # {} => ptcb'[x] = "listed"
                      /\ ptcb'[x] = "listed" => refcount'[x] = Expected(x)'
    BY DEF Counts
  <2>1. CASE x = u
    <3>1. Joiners(x)' = {} /\ Cardinality({}) = 0
      BY <1>4, <1>6, <2>1, FS_EmptySet
    <3>2. ptcb'[x] = "listed" /\ refcount'[x] = 1 /\ ~ exited'[x]
      BY <1>1, <2>1 DEF ThreadsTypeOK
    <3> QED  BY <3>1, <3>2, <2>1, <1>4 DEF Expected
  <2>2. CASE x # u
    <3>1. /\ ptcb'[x] = ptcb[x] /\ refcount'[x] = refcount[x]
          /\ exited'[x] = exited[x] /\ Live(x)' = Live(x)
      BY <1>1, <2>2 DEF ThreadsTypeOK, Live
    <3>2. Joiners(x)' = Joiners(x)
      BY <1>6
    <3> QED  BY <3>1, <3>2, <1>1 DEF Counts, Expected
  <2> QED  BY <2>1, <2>2
<1>9. nthreads' = Cardinality(Living') /\ nthreads' # 0
  BY <1>1, <1>3, <1>5, ThreadsCounting
<1>10. ptcb'[MainTid] = "listed"
  BY <1>1, <1>3, <1>4, ThreadAssumption DEF ThreadsTypeOK
<1> HIDE DEF sys_CreateThread, acquire_PTCB
<1> QED  BY <1>2, <1>7, <1>8, <1>9, <1>10, Combine

\* The end of a join: count counts the joins of u, t's own included.
LEMMA JoinFinished ==
    ASSUME ThreadIInv, NEW t \in Tids, NEW u \in Tids, NEW count \in Nat,
           FinishJoin(t, u, count), Live(t),
           target'[t] = u, \A x \in Tids \ {t} : target'[x] = target[x],
           target' \in [Tids -> Tids \cup {NoTid}],
           ptcb[u] = "listed", exited[u] \/ detached[u], count > 0,
           count = Cardinality(Joiners(u) \cup {t})
                   + (IF exited[u] THEN 0 ELSE 1) + (IF u = MainTid THEN 1 ELSE 0),
           \A x \in Tids \ {u} : t \notin Joiners(x)
    PROVE  ThreadIInv'
<1> USE DEF FinishJoin
<1>1. /\ ThreadsTypeOK /\ Counts /\ LifeInv /\ AimInv
      /\ nthreads = Cardinality(Living)
      /\ nthreads = 0 => \A x \in Tids : ptcb[x] # "listed"
      /\ Living # {} => ptcb[MainTid] = "listed"
      /\ Living \in SUBSET Tids
      /\ \A x \in Tids : Joiners(x) \in SUBSET Living
  BY Facts
<1>2. Joiners(u)' = Joiners(u) \ {t}
  BY <1>1 DEF ThreadsTypeOK, Joiners, Blocked
<1>3. \A x \in Tids \ {u} : Joiners(x)' = Joiners(x)
  <2> TAKE x \in Tids \ {u}
  <2>1. \A y \in Tids : Blocked(y, x)' <=> Blocked(y, x)
    BY <1>1 DEF ThreadsTypeOK, Joiners, Blocked
  <2> QED  BY <2>1 DEF Joiners
<1>4. Living' = Living /\ \A x \in Tids : Live(x)' <=> Live(x)
  BY <1>1 DEF ThreadsTypeOK, Living, Live
<1>5. count - 1 = Cardinality(Joiners(u)')
                  + (IF exited[u] THEN 0 ELSE 1) + (IF u = MainTid THEN 1 ELSE 0)
  <2> DEFINE J == Joiners(u) \cup {t}
  <2>1. J \in SUBSET Tids /\ t \in J /\ J \ {t} = Joiners(u) \ {t}
    BY <1>1
  <2>2. Cardinality(J) \in Nat /\ Cardinality(J \ {t}) = Cardinality(J) - 1
    <3> HIDE DEF J
    <3> QED  BY <2>1, ThreadsCounting
  <2>3. Cardinality(J \ {t}) = Cardinality(Joiners(u)')
    BY <2>1, <1>2
  <2> HIDE DEF FinishJoin
  <2> QED  BY <2>2, <2>3
<1>6. Cardinality(Joiners(u)') \in Nat
      /\ (Cardinality(Joiners(u)') = 0 <=> Joiners(u)' = {})
  BY <1>1, <1>2, ThreadsCounting
<1>7. ThreadsTypeOK'
  <2>1. count - 1 \in Nat
    OBVIOUS
  <2>2. refcount' \in [Tids -> Nat]
    BY <1>1, <2>1 DEF ThreadsTypeOK
  <2>3. result' \in [Tids -> ExitVals \cup {"none", "error"}]
    BY <1>1 DEF ThreadsTypeOK
  <2>4. ptcb' \in [Tids -> {"unused", "listed", "freed"}]
    BY <1>1 DEF ThreadsTypeOK
  <2>5. at' \in [Tids -> {"none", "running", "join", "woken", "exited"}]
    BY <1>1 DEF ThreadsTypeOK
  <2> QED  BY <1>1, <2>2, <2>3, <2>4, <2>5 DEF ThreadsTypeOK
<1>10. AimInv'
  BY <1>1 DEF AimInv, ThreadsTypeOK
<1>8. CASE ptcb' = ptcb
  <2>1. LifeInv'
    BY <1>1, <1>4, <1>8 DEF LifeInv
  <2>2. Counts'
    <3> SUFFICES ASSUME NEW x \in Tids
                 PROVE  /\ Live(x)' \/ Joiners(x)' # {} => ptcb'[x] = "listed"
                        /\ ptcb'[x] = "listed" => refcount'[x] = Expected(x)'
      BY DEF Counts
    <3>1. CASE x = u
      <4>1. ptcb'[x] = "listed" /\ refcount'[x] = count - 1 /\ exited'[x] = exited[u]
        BY <1>1, <1>8, <3>1 DEF ThreadsTypeOK
      <4> QED  BY <4>1, <3>1, <1>5 DEF Expected
    <3>2. CASE x # u
      <4>1. refcount'[x] = refcount[x] /\ exited'[x] = exited[x]
        BY <1>1, <3>2 DEF ThreadsTypeOK
      <4>2. Joiners(x)' = Joiners(x) /\ (Live(x)' <=> Live(x))
        BY <1>3, <1>4, <3>2
      <4> QED  BY <4>1, <4>2, <1>1, <1>8 DEF Counts, Expected
    <3> QED  BY <3>1, <3>2
  <2> QED  BY <1>1, <1>4, <1>7, <1>8, <1>10, <2>1, <2>2, Combine
<1>9. CASE ~ detached[u] /\ count = 1 /\ ptcb' = [ptcb EXCEPT ![u] = "freed"]
  <2>1. exited[u] /\ u # MainTid /\ Joiners(u)' = {}
    <3> HIDE DEF FinishJoin
    <3> QED  BY <1>5, <1>6, <1>9
  <2>2. ~ Live(u)
    BY <1>1, <2>1 DEF LifeInv
  <2>3. LifeInv'
    BY <1>1, <1>4, <1>9, <2>2 DEF LifeInv, ThreadsTypeOK
  <2>4. Counts'
    <3> SUFFICES ASSUME NEW x \in Tids
                 PROVE  /\ Live(x)' \/ Joiners(x)' # {} => ptcb'[x] = "listed"
                        /\ ptcb'[x] = "listed" => refcount'[x] = Expected(x)'
      BY DEF Counts
    <3>1. CASE x = u
      BY <3>1, <1>1, <1>4, <1>9, <2>1, <2>2 DEF ThreadsTypeOK
    <3>2. CASE x # u
      <4>1. /\ refcount'[x] = refcount[x] /\ exited'[x] = exited[x]
            /\ ptcb'[x] = ptcb[x]
        BY <1>1, <1>9, <3>2 DEF ThreadsTypeOK
      <4>2. Joiners(x)' = Joiners(x) /\ (Live(x)' <=> Live(x))
        BY <1>3, <1>4, <3>2
      <4> QED  BY <4>1, <4>2, <1>1 DEF Counts, Expected
    <3> QED  BY <3>1, <3>2
  <2>5. /\ nthreads' = Cardinality(Living')
        /\ nthreads' = 0 => \A x \in Tids : ptcb'[x] # "listed"
        /\ Living' # {} => ptcb'[MainTid] = "listed"
    BY <1>1, <1>4, <1>9, <2>1, ThreadAssumption DEF ThreadsTypeOK
  <2> QED  BY <1>7, <1>10, <2>3, <2>4, <2>5, Combine
<1> QED  BY <1>8, <1>9

\* ThreadJoin(), up to its wait.
LEMMA ThreadJoin ==
    ASSUME ThreadIInv, NEW t \in Tids, NEW u \in Tids, sys_ThreadJoin(t, u)
    PROVE  ThreadIInv'
<1> USE DEF sys_ThreadJoin
<1>1. /\ ThreadsTypeOK /\ Counts /\ LifeInv /\ AimInv
      /\ nthreads = Cardinality(Living)
      /\ nthreads = 0 => \A x \in Tids : ptcb[x] # "listed"
      /\ Living # {} => ptcb[MainTid] = "listed"
      /\ Living \in SUBSET Tids
      /\ \A x \in Tids : Joiners(x) \in SUBSET Living
  BY Facts
<1>2. /\ Live(t) /\ \A x \in Tids : t \notin Joiners(x)
      /\ target' \in [Tids -> Tids \cup {NoTid}]
      /\ target'[t] = u /\ \A x \in Tids \ {t} : target'[x] = target[x]
  BY <1>1 DEF ThreadsTypeOK, Live, Joiners, Blocked
<1>3. CASE /\ result' = [result EXCEPT ![t] = "error"]
           /\ UNCHANGED <<nthreads, ptcbVars, at>>
  <2> USE DEF ptcbVars
  <2>1. \A x \in Tids : Joiners(x)' = Joiners(x)
    <3> TAKE x \in Tids
    <3>1. \A y \in Tids : Blocked(y, x)' <=> Blocked(y, x)
      BY <1>1, <1>3, <1>2 DEF Blocked
    <3> QED  BY <3>1 DEF Joiners
  <2>2. Living' = Living /\ \A x \in Tids : Live(x)' <=> Live(x)
    BY <1>3 DEF Living, Live
  <2>3. ThreadsTypeOK'
    BY <1>1, <1>2, <1>3 DEF ThreadsTypeOK
  <2>4. LifeInv' /\ Counts'
    BY <1>1, <1>3, <2>1, <2>2 DEF LifeInv, Counts, Expected
  <2>5. AimInv'
    BY <1>1, <1>2, <1>3 DEF AimInv, ThreadsTypeOK
  <2> QED  BY <1>1, <1>3, <2>2, <2>3, <2>4, <2>5, Combine
<1>4. CASE /\ ptcb[u] = "listed" /\ ~ exited[u]
           /\ refcount' = [refcount EXCEPT ![u] = @ + 1]
           /\ at' = [at EXCEPT ![t] = "join"]
           /\ UNCHANGED <<nthreads, ptcb, exited, detached, exitval, result>>
  <2>1. Joiners(u)' = Joiners(u) \cup {t}
    BY <1>1, <1>2, <1>4 DEF ThreadsTypeOK, Joiners, Blocked
  <2>2. \A x \in Tids \ {u} : Joiners(x)' = Joiners(x)
    <3> TAKE x \in Tids \ {u}
    <3>1. \A y \in Tids : Blocked(y, x)' <=> Blocked(y, x)
      BY <1>1, <1>2, <1>4 DEF ThreadsTypeOK, Blocked, Joiners
    <3> QED  BY <3>1 DEF Joiners
  <2>3. Living' = Living /\ \A x \in Tids : Live(x)' <=> Live(x)
    BY <1>1, <1>2, <1>4 DEF ThreadsTypeOK, Living, Live
  <2>4. Cardinality(Joiners(u)') = Cardinality(Joiners(u)) + 1
        /\ Cardinality(Joiners(u)) \in Nat
    BY <1>1, <1>2, <2>1, ThreadsCounting
  <2>5. ThreadsTypeOK'
    BY <1>1, <1>2, <1>4 DEF ThreadsTypeOK
  <2>6. LifeInv' /\ AimInv'
    BY <1>1, <1>2, <1>4, <2>3 DEF LifeInv, AimInv, ThreadsTypeOK
  <2>7. Counts'
    <3> SUFFICES ASSUME NEW x \in Tids
                 PROVE  /\ Live(x)' \/ Joiners(x)' # {} => ptcb'[x] = "listed"
                        /\ ptcb'[x] = "listed" => refcount'[x] = Expected(x)'
      BY DEF Counts
    <3>1. CASE x = u
      <4>1. /\ ptcb'[x] = "listed" /\ refcount'[x] = refcount[u] + 1
            /\ exited'[x] = exited[u] /\ refcount[u] = Expected(u)
            /\ refcount[u] \in Nat
        BY <1>1, <1>4, <3>1 DEF ThreadsTypeOK, Counts
      <4>2. Cardinality(Joiners(x)') = Cardinality(Joiners(u)) + 1
        BY <2>4, <3>1
      <4>3. Expected(x)' = Cardinality(Joiners(x)')
                           + (IF exited'[x] THEN 0 ELSE 1)
                           + (IF x = MainTid THEN 1 ELSE 0)
        BY DEF Expected
      <4> HIDE DEF sys_ThreadJoin
      <4> QED  BY <4>1, <4>2, <4>3, <2>4, <3>1 DEF Expected
    <3>2. CASE x # u
      <4>1. refcount'[x] = refcount[x] /\ exited'[x] = exited[x]
        BY <1>1, <1>4, <3>2 DEF ThreadsTypeOK
      <4>2. Joiners(x)' = Joiners(x) /\ (Live(x)' <=> Live(x))
        BY <2>2, <2>3, <3>2
      <4> QED  BY <4>1, <4>2, <1>1, <1>4 DEF Counts, Expected
    <3> QED  BY <3>1, <3>2
  <2> QED  BY <1>1, <1>4, <2>3, <2>5, <2>6, <2>7, Combine
<1>5. CASE /\ ptcb[u] = "listed" /\ exited[u]
           /\ FinishJoin(t, u, refcount[u] + 1)
  <2>1. refcount[u] \in Nat /\ refcount[u] = Expected(u)
        /\ Cardinality(Joiners(u)) \in Nat
        /\ Cardinality(Joiners(u) \cup {t}) = Cardinality(Joiners(u)) + 1
    <3>1. Joiners(u) \in SUBSET Tids /\ t \notin Joiners(u)
      BY <1>1, <1>2
    <3> QED  BY <3>1, <1>1, <1>5, ThreadsCounting DEF Counts, ThreadsTypeOK
  <2>2. refcount[u] + 1 = Cardinality(Joiners(u) \cup {t})
            + (IF exited[u] THEN 0 ELSE 1) + (IF u = MainTid THEN 1 ELSE 0)
        /\ refcount[u] + 1 > 0 /\ refcount[u] + 1 \in Nat
    <3> HIDE DEF sys_ThreadJoin
    <3> QED  BY <2>1 DEF Expected
  <2> HIDE DEF sys_ThreadJoin
  <2> QED  BY <1>2, <1>5, <2>2, JoinFinished
<1> QED  BY <1>3, <1>4, <1>5

\* ThreadJoin() goes on after its wait.
LEMMA JoinResumed ==
    ASSUME ThreadIInv, NEW t \in Tids, JoinResume(t)
    PROVE  ThreadIInv'
<1> DEFINE u == target[t]
<1>1. /\ ThreadsTypeOK /\ Counts /\ LifeInv /\ AimInv
      /\ nthreads = Cardinality(Living)
      /\ nthreads = 0 => \A x \in Tids : ptcb[x] # "listed"
      /\ Living # {} => ptcb[MainTid] = "listed"
      /\ Living \in SUBSET Tids
      /\ \A x \in Tids : Joiners(x) \in SUBSET Living
  BY Facts
<1>2. /\ Live(t) /\ at[t] = "woken" /\ u \in Tids \cup {NoTid}
      /\ UNCHANGED target
  BY <1>1 DEF JoinResume, ThreadsTypeOK, Live
<1>3. CASE /\ at' = [at EXCEPT ![t] = "join"]
           /\ UNCHANGED <<nthreads, ptcbVars, result>>
  <2> USE DEF ptcbVars
  <2>1. \A x \in Tids : Joiners(x)' = Joiners(x)
    <3> TAKE x \in Tids
    <3>1. \A y \in Tids : Blocked(y, x)' <=> Blocked(y, x)
      BY <1>1, <1>3, <1>2 DEF Blocked, ThreadsTypeOK
    <3> QED  BY <3>1 DEF Joiners
  <2>2. Living' = Living /\ \A x \in Tids : Live(x)' <=> Live(x)
    BY <1>1, <1>2, <1>3 DEF Living, Live, ThreadsTypeOK
  <2>3. ThreadsTypeOK'
    BY <1>1, <1>2, <1>3 DEF ThreadsTypeOK
  <2>4. LifeInv' /\ Counts'
    BY <1>1, <1>3, <2>1, <2>2 DEF LifeInv, Counts, Expected
  <2>5. AimInv'
    BY <1>1, <1>2, <1>3 DEF AimInv, ThreadsTypeOK
  <2> QED  BY <1>1, <1>3, <2>2, <2>3, <2>4, <2>5, Combine
<1>4. CASE FinishJoin(t, u, refcount[u]) /\ (exited[u] \/ detached[u])
  <2>1. u \in Tids /\ t \in Joiners(u) /\ \A x \in Tids \ {u} : t \notin Joiners(x)
    BY <1>1, <1>2 DEF AimInv, Joiners, Blocked
  <2> HIDE DEF u
  <2>2. Joiners(u) \in SUBSET Tids /\ Joiners(u) \cup {t} = Joiners(u)
    BY <1>1, <2>1
  <2>3. refcount[u] \in Nat /\ refcount[u] = Expected(u) /\ ptcb[u] = "listed"
        /\ Cardinality(Joiners(u)) \in Nat /\ Cardinality(Joiners(u)) > 0
    BY <1>1, <2>1, <2>2, ThreadsCounting DEF Counts, ThreadsTypeOK
  <2>4. refcount[u] > 0
        /\ refcount[u] = Cardinality(Joiners(u) \cup {t})
              + (IF exited[u] THEN 0 ELSE 1) + (IF u = MainTid THEN 1 ELSE 0)
    <3>1. refcount[u] = Cardinality(Joiners(u))
              + (IF exited[u] THEN 0 ELSE 1) + (IF u = MainTid THEN 1 ELSE 0)
      BY <2>3 DEF Expected
    <3>2. Cardinality(Joiners(u) \cup {t}) = Cardinality(Joiners(u))
      BY <2>2
    <3>3. refcount[u] > 0
      <4>1. PICK k \in Nat : k = Cardinality(Joiners(u))
        BY <2>3
      <4>2. /\ k > 0 /\ refcount[u] = k + (IF exited[u] THEN 0 ELSE 1)
                                        + (IF u = MainTid THEN 1 ELSE 0)
        BY <2>3, <3>1, <4>1
      <4> QED  BY <4>2
    <3> QED  BY <3>1, <3>2, <3>3
  <2>5. /\ target'[t] = u /\ target' \in [Tids -> Tids \cup {NoTid}]
        /\ \A x \in Tids \ {t} : target'[x] = target[x]
    BY <1>1, <1>2 DEF ThreadsTypeOK, u
  <2> QED  BY <1>2, <1>4, <2>1, <2>3, <2>4, <2>5, JoinFinished
<1> QED  BY <1>3, <1>4 DEF JoinResume

\* Waking up the threads that join u changes neither of the two sets.
LEMMA JoinersWake ==
    ASSUME ThreadIInv, NEW u \in Tids, NEW t \in Tids
    PROVE  /\ JoinersWoken(at, u)
                 \in [Tids -> {"none", "running", "join", "woken", "exited"}]
           /\ JoinersWoken(at, u)[t] \in {"join", "woken"}
                 <=> at[t] \in {"join", "woken"}
           /\ at[t] \notin {"join", "woken"} => JoinersWoken(at, u)[t] = at[t]
  BY Facts DEF JoinersWoken, ThreadsTypeOK

\* ThreadDetach().
LEMMA ThreadDetach ==
    ASSUME ThreadIInv, NEW t \in Tids, NEW u \in Tids, sys_ThreadDetach(t, u)
    PROVE  ThreadIInv'
<1>1. /\ ThreadsTypeOK /\ Counts /\ LifeInv /\ AimInv
      /\ nthreads = Cardinality(Living)
      /\ nthreads = 0 => \A x \in Tids : ptcb[x] # "listed"
      /\ Living # {} => ptcb[MainTid] = "listed"
  BY Facts
<1>2. /\ UNCHANGED <<nthreads, ptcb, exited, refcount, exitval, target, result>>
      /\ at' = JoinersWoken(at, u) /\ detached' = [detached EXCEPT ![u] = TRUE]
  BY DEF sys_ThreadDetach
<1>3. /\ at' \in [Tids -> {"none", "running", "join", "woken", "exited"}]
      /\ \A x \in Tids : /\ at'[x] \in {"join", "woken"} <=> at[x] \in {"join", "woken"}
                         /\ at[x] \notin {"join", "woken"} => at'[x] = at[x]
  BY <1>2, JoinersWake
<1>4. \A x, y \in Tids : Blocked(y, x)' <=> Blocked(y, x)
  BY <1>2, <1>3 DEF Blocked
<1>5. \A x \in Tids : Joiners(x)' = Joiners(x)
  BY <1>4 DEF Joiners
<1>6. Living' = Living /\ \A x \in Tids : Live(x)' <=> Live(x)
  BY <1>3 DEF Living, Live
<1>7. ThreadsTypeOK'
  BY <1>1, <1>2, <1>3 DEF ThreadsTypeOK
<1>8. LifeInv' /\ Counts' /\ AimInv'
  BY <1>1, <1>2, <1>3, <1>5, <1>6 DEF LifeInv, Counts, Expected, AimInv
<1> QED  BY <1>1, <1>2, <1>6, <1>7, <1>8, Combine

\* ThreadExit().
LEMMA ThreadExitSound ==
    ASSUME ThreadIInv, NEW t \in Tids, NEW v \in ExitVals, sys_ThreadExit(t, v)
    PROVE  ThreadIInv'
<1>1. /\ ThreadsTypeOK /\ Counts /\ LifeInv /\ AimInv
      /\ nthreads = Cardinality(Living)
      /\ nthreads = 0 => \A x \in Tids : ptcb[x] # "listed"
      /\ Living # {} => ptcb[MainTid] = "listed"
      /\ Living \in SUBSET Tids
      /\ \A x \in Tids : Joiners(x) \in SUBSET Living
  BY Facts
<1>2. /\ UNCHANGED <<detached, target, result>>
      /\ at[t] = "running"
      /\ at' = [JoinersWoken(at, t) EXCEPT ![t] = "exited"]
      /\ exitval' = [exitval EXCEPT ![t] = v]
      /\ nthreads' = nthreads - 1
      /\ refcount' = [refcount EXCEPT ![t] = @ - 1]
      /\ exited' = [exited EXCEPT ![t] = TRUE]
      /\ ptcb' = IF nthreads = 1
                 THEN [u \in Tids |-> IF ptcb[u] = "listed" THEN "freed" ELSE ptcb[u]]
                 ELSE ptcb
  BY DEF sys_ThreadExit, LastThread
<1>3. /\ at' \in [Tids -> {"none", "running", "join", "woken", "exited"}]
      /\ at'[t] = "exited"
      /\ \A x \in Tids : /\ at'[x] \in {"join", "woken"} <=> at[x] \in {"join", "woken"}
                         /\ at[x] \notin {"join", "woken"} /\ x # t => at'[x] = at[x]
  BY <1>2, JoinersWake
<1>4. \A x, y \in Tids : Blocked(y, x)' <=> Blocked(y, x)
  BY <1>2, <1>3 DEF Blocked
<1>5. \A x \in Tids : Joiners(x)' = Joiners(x)
  BY <1>4 DEF Joiners
<1>6. /\ Live(t) /\ ~ Live(t)' /\ t \in Living
      /\ \A x \in Tids \ {t} : Live(x)' <=> Live(x)
      /\ Living' = Living \ {t}
  BY <1>2, <1>3 DEF Living, Live
<1>7. /\ nthreads \in Nat /\ nthreads > 0 /\ nthreads' \in Nat
      /\ nthreads' = Cardinality(Living')
      /\ nthreads' = 0 <=> Living' = {}
      /\ nthreads' = 0 <=> nthreads = 1
  <2>1. /\ Cardinality(Living) \in Nat /\ Cardinality(Living) > 0
        /\ Cardinality(Living \ {t}) = Cardinality(Living) - 1
        /\ Cardinality(Living \ {t}) = 0 <=> Living \ {t} = {}
    <3>1. Living \ {t} \in SUBSET Tids
      BY <1>1
    <3> QED  BY <3>1, <1>1, <1>6, ThreadsCounting
  <2> QED  BY <2>1, <1>1, <1>2, <1>6
<1>8. /\ ptcb[t] = "listed" /\ ~ exited[t]
      /\ refcount[t] = Expected(t) /\ refcount[t] \in Nat
      /\ Cardinality(Joiners(t)) \in Nat
  <2>1. Joiners(t) \in SUBSET Tids
    BY <1>1
  <2> QED  BY <2>1, <1>1, <1>6, ThreadsCounting DEF LifeInv, Counts, ThreadsTypeOK
<1>9. /\ refcount[t] - 1 \in Nat
      /\ refcount[t] - 1 = Cardinality(Joiners(t)) + (IF t = MainTid THEN 1 ELSE 0)
  BY <1>8 DEF Expected
<1>10. ThreadsTypeOK'
  <2>1. refcount' \in [Tids -> Nat]
    BY <1>1, <1>2, <1>9 DEF ThreadsTypeOK
  <2>2. ptcb' \in [Tids -> {"unused", "listed", "freed"}]
    BY <1>1, <1>2 DEF ThreadsTypeOK
  <2> QED  BY <2>1, <2>2, <1>1, <1>2, <1>3, <1>7 DEF ThreadsTypeOK
<1>11. AimInv'
  BY <1>1, <1>2, <1>3 DEF AimInv
<1>12. CASE nthreads = 1
  <2>1. Living' = {} /\ \A x \in Tids : ptcb'[x] # "listed"
    BY <1>1, <1>2, <1>7, <1>12 DEF ThreadsTypeOK
  <2>2. \A x \in Tids : ~ Live(x)' /\ Joiners(x)' = {}
    <3>1. \A x \in Tids : Joiners(x) \subseteq {t}
      BY <1>1, <1>6, <2>1
    <3>2. \A x \in Tids : t \notin Joiners(x)
      BY <1>2 DEF Joiners, Blocked
    <3> QED  BY <3>1, <3>2, <1>5, <2>1 DEF Living
  <2>3. LifeInv' /\ Counts'
    BY <2>1, <2>2 DEF LifeInv, Counts
  <2> QED  BY <1>7, <1>10, <1>11, <2>1, <2>3, Combine
<1>13. CASE nthreads # 1
  <2>1. ptcb' = ptcb /\ ptcb[MainTid] = "listed" /\ nthreads' # 0
    BY <1>1, <1>2, <1>6, <1>7, <1>13
  <2>2. LifeInv'
    BY <1>1, <1>2, <1>6, <2>1 DEF LifeInv, ThreadsTypeOK
  <2>3. Counts'
    <3> SUFFICES ASSUME NEW x \in Tids
                 PROVE  /\ Live(x)' \/ Joiners(x)' # {} => ptcb'[x] = "listed"
                        /\ ptcb'[x] = "listed" => refcount'[x] = Expected(x)'
      BY DEF Counts
    <3>1. CASE x = t
      <4>1. refcount'[x] = refcount[t] - 1 /\ exited'[x] /\ Joiners(x)' = Joiners(t)
        BY <1>1, <1>2, <1>5, <3>1 DEF ThreadsTypeOK
      <4>2. ptcb'[x] = "listed"
        BY <1>8, <2>1, <3>1
      <4>3. refcount[t] - 1 = Expected(x)'
        BY <4>1, <1>8, <1>9, <3>1 DEF Expected
      <4> QED  BY <4>1, <4>2, <4>3
    <3>2. CASE x # t
      <4>1. refcount'[x] = refcount[x] /\ exited'[x] = exited[x]
        BY <1>1, <1>2, <3>2 DEF ThreadsTypeOK
      <4>2. Joiners(x)' = Joiners(x) /\ (Live(x)' <=> Live(x))
        BY <1>5, <1>6, <3>2
      <4> QED  BY <4>1, <4>2, <1>1, <2>1 DEF Counts, Expected
    <3> QED  BY <3>1, <3>2
  <2> QED  BY <1>7, <1>10, <1>11, <2>1, <2>2, <2>3, Combine
<1> QED  BY <1>12, <1>13

\* Every step keeps the invariant.
LEMMA ThreadsNextPreserves ==
    ASSUME ThreadIInv, [ThreadsNext \/ Stuck]_threadLifeVars
    PROVE  ThreadIInv'
<1>1. CASE UNCHANGED threadLifeVars
  BY <1>1 DEF threadLifeVars, ptcbVars, callVars, ThreadIInv,
     ThreadsInvariant, ThreadsTypeOK, PTCBsAlive, ThreadsCounted, LifeInv,
     MainInv, AimInv, Live, Blocked
<1>2. CASE ThreadsNext
  BY <1>2, CreateThreadSound, ThreadJoin, JoinResumed, ThreadDetach, ThreadExitSound
     DEF ThreadsNext
<1> QED  BY <1>1, <1>2 DEF Stuck

-----------------------------------------------------------------------------
(* The theorems.                                                           *)

\* The invariant holds in every state of every execution.
THEOREM ThreadInductiveInvariant == ThreadsSpec => []ThreadIInv
<1>1. ThreadIInv /\ [ThreadsNext \/ Stuck]_threadLifeVars => ThreadIInv'
  BY ThreadsNextPreserves
<1> QED  BY <1>1, InitEstablishesThreadIInv, PTL DEF ThreadsSpec

(* A PTCB lives as long as its thread and the threads that join it, its     *)
(* refcount counts exactly those (sys_ThreadJoin(), sys_ThreadExit(),       *)
(* kernel_threads.c), and the last thread leaves none behind.               *)
THEOREM ThreadsSound == ThreadsSpec => []ThreadsInvariant
<1>1. ThreadIInv => ThreadsInvariant
  BY DEF ThreadIInv
<1> QED  BY <1>1, ThreadInductiveInvariant, PTL

-----------------------------------------------------------------------------
(* What a join returns.                                                    *)

\* The invariant is what keeps the answer of a join as it is: a PTCB somebody
\* joins is not used again, and a thread that has exited exits no more.
LEMMA JoinStep ==
    ASSUME ThreadIInv, ThreadsNext
    PROVE  JoinReturnsOrWaits
<1> SUFFICES ASSUME NEW t \in Tids, NEW u \in Tids, Blocked(t, u),
                    exited[u] \/ detached[u]
             PROVE  \/ /\ at'[t] = "running"
                       /\ result'[t] = IF detached[u] THEN "error" ELSE exitval[u]
                    \/ /\ Blocked(t, u)'
                       /\ detached'[u] = detached[u]
                       /\ exited[u] => exited'[u] /\ exitval'[u] = exitval[u]
  BY DEF JoinReturnsOrWaits
<1>1. /\ ThreadsTypeOK /\ Live(t) /\ at[t] # "running" /\ ptcb[u] = "listed"
      /\ target[t] = u
      /\ exited[u] => ~ Live(u)
  BY Facts DEF LifeInv, Counts, Joiners, Blocked, Live
<1>2. ASSUME NEW a \in Tids, NEW x \in Tids, sys_CreateThread(a, x)
      PROVE  Blocked(t, u)' /\ detached'[u] = detached[u]
             /\ exited'[u] = exited[u] /\ exitval' = exitval
  <2>1. x # u /\ x # t
    BY <1>1, <1>2, Facts DEF sys_CreateThread, acquire_PTCB, LifeInv
  <2> QED  BY <2>1, <1>1, <1>2
           DEF sys_CreateThread, acquire_PTCB, Blocked, ThreadsTypeOK
<1>3. ASSUME NEW a \in Tids, NEW x \in Tids, sys_ThreadJoin(a, x)
      PROVE  /\ Blocked(t, u)'
             /\ UNCHANGED <<detached, exited, exitval>>
  BY <1>1, <1>3 DEF sys_ThreadJoin, FinishJoin, Blocked, ThreadsTypeOK, ptcbVars
<1>4. ASSUME NEW a \in Tids, a # t, JoinResume(a)
      PROVE  /\ Blocked(t, u)'
             /\ UNCHANGED <<detached, exited, exitval>>
  BY <1>1, <1>4 DEF JoinResume, FinishJoin, Blocked, ThreadsTypeOK, ptcbVars
<1>5. ASSUME JoinResume(t)
      PROVE  /\ at'[t] = "running"
             /\ result'[t] = IF detached[u] THEN "error" ELSE exitval[u]
  BY <1>1, <1>5 DEF JoinResume, FinishJoin, ThreadsTypeOK
<1>6. ASSUME NEW a \in Tids, NEW x \in Tids, sys_ThreadDetach(a, x)
      PROVE  Blocked(t, u)' /\ detached'[u] = detached[u]
             /\ UNCHANGED <<exited, exitval>>
  <2>1. detached'[u] = detached[u] /\ UNCHANGED <<exited, exitval, target>>
    BY <1>1, <1>6 DEF sys_ThreadDetach, ThreadsTypeOK
  <2>2. at'[t] \in {"join", "woken"}
    BY <1>6, JoinersWake DEF sys_ThreadDetach, Blocked
  <2> QED  BY <1>1, <2>1, <2>2 DEF Blocked
<1>7. ASSUME NEW a \in Tids, NEW v \in ExitVals, sys_ThreadExit(a, v)
      PROVE  Blocked(t, u)' /\ detached'[u] = detached[u]
             /\ (exited[u] => exited'[u] /\ exitval'[u] = exitval[u])
  <2>1. a # t /\ (exited[u] => a # u)
    BY <1>1, <1>7 DEF sys_ThreadExit, Live
  <2>2. at'[t] \in {"join", "woken"}
    <3>1. /\ at' = [JoinersWoken(at, a) EXCEPT ![a] = "exited"]
          /\ JoinersWoken(at, a)[t] \in {"join", "woken"}
      BY <1>7, JoinersWake DEF sys_ThreadExit, Blocked
    <3>2. DOMAIN JoinersWoken(at, a) = Tids
      BY DEF JoinersWoken
    <3> QED  BY <3>1, <3>2, <2>1
  <2> QED  BY <1>1, <1>7, <2>1, <2>2 DEF sys_ThreadExit, Blocked, ThreadsTypeOK
<1> QED  BY <1>2, <1>3, <1>4, <1>5, <1>6, <1>7 DEF ThreadsNext

(* A join that finds its target exited or detached when it goes on returns  *)
(* the exit value, or an error, whatever other threads did to the target's  *)
(* PTCB before (the loop of sys_ThreadJoin(), kernel_threads.c).            *)
THEOREM JoinsReturnTheExitValue ==
    ThreadsSpec => [][JoinReturnsOrWaits]_threadLifeVars
<1>1. ThreadIInv /\ [ThreadsNext \/ Stuck]_threadLifeVars
         => [JoinReturnsOrWaits]_threadLifeVars
  BY JoinStep DEF Stuck
<1> QED  BY <1>1, ThreadInductiveInvariant, PTL DEF ThreadsSpec

==============================================================================
