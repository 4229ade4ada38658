------------------------------- MODULE Rings -------------------------------
(***************************************************************************)
(* The intrusive lists of util.h at the level of pointers: every node has  *)
(* a next and a prev, a list is the ring of its head, and nearly all       *)
(* operations are one rl_splice(), which swaps two next pointers and two   *)
(* prev pointers.  Next to the pointers the module keeps the sequences     *)
(* that the lists are meant to be, by which the other modules describe     *)
(* them (module Lists).  rlist_pop_back(), which only test_util.c calls,   *)
(* is left out: it empties the list.                                       *)
(*                                                                         *)
(* Operators with a first parameter r work on a heap of nodes, a record    *)
(* of the functions next and prev, and yield the heap they leave behind.   *)
(***************************************************************************)
EXTENDS Integers, Sequences, FiniteSets, SequencesExt

CONSTANTS NHeads,   \* number of lists
          NItems,   \* number of nodes that go into lists
          NKeys     \* number of different keys of the nodes

ASSUME RingsAssumption == {NHeads, NItems, NKeys} \subseteq Nat \ {0}

Items == 1 .. NItems
Heads == - NHeads .. -1
RNodes == Heads \cup Items

Key(x) == x % NKeys

\* The nodes that the predicate of rlist_select() holds for.
Chosen == {x \in Items : Key(x) = 0}

\* The node a loop along the pointers f from x has come to after so many turns.
Walk(f, x) == LET at[k \in Nat] == IF k = 0 THEN x ELSE f[at[k - 1]] IN at

VARIABLES heap, lists

ringVars == <<heap, lists>>

\* rlnode_new() of every node, the heads and the items.
RingsInit ==
    /\ heap = [next |-> [x \in RNodes |-> x], prev |-> [x \in RNodes |-> x]]
    /\ lists = [h \in Heads |-> <<>>]

-----------------------------------------------------------------------------
(* util.h on pointers.                                                     *)

\* rlnode_swap(&f[x], &f[y])
rlnode_swap(f, x, y) == [f EXCEPT ![x] = f[y], ![y] = f[x]]

\* Faulty variant: the prev pointers are swapped after the next pointers, and
\* so in other nodes.
SpliceNextFirst(r, a, b) ==
    LET next == rlnode_swap(r.next, a, b)
    IN  [next |-> next, prev |-> rlnode_swap(r.prev, a, b)]

rl_splice(r, a, b) ==
    [prev |-> rlnode_swap(r.prev, r.next[a], r.next[b]),
     next |-> rlnode_swap(r.next, a, b)]

rlist_remove(r, a) == rl_splice(r, a, r.prev[a])

rlist_push_front(r, list, node) == rl_splice(r, list, node)
rlist_push_back(r, list, node) == rl_splice(r, r.prev[list], node)

rlist_pop_front(r, list) == rl_splice(r, list, r.next[list])

rlist_append(r, ldest, lsrc) == rlist_remove(rlist_push_back(r, ldest, lsrc), lsrc)
rlist_prepend(r, ldest, lsrc) == rlist_remove(rlist_push_front(r, ldest, lsrc), lsrc)

\* The loop goes round the ring along what prev was.
rlist_reverse(r, l) ==
    LET ring == {Walk(r.prev, l)[k] : k \in 0 .. Cardinality(RNodes)}
    IN  [next |-> [x \in RNodes |-> IF x \in ring THEN r.prev[x] ELSE r.next[x]],
         prev |-> [x \in RNodes |-> IF x \in ring THEN r.next[x] ELSE r.prev[x]]]

\* One turn of the loop looks at one node; i is the cursor I.
SelectTurn(s, lsrc, ldest) ==
    LET x == s.r.next[s.i]
    IN  IF x = lsrc THEN s
        ELSE IF x \in Chosen
        THEN [s EXCEPT !.r = rlist_push_back(rlist_remove(@, x), ldest, x)]
        ELSE [s EXCEPT !.i = x]

rlist_select(r, lsrc, ldest) ==
    LET turn[k \in Nat] == IF k = 0 THEN [r |-> r, i |-> lsrc]
                           ELSE SelectTurn(turn[k - 1], lsrc, ldest)
    IN  turn[Cardinality(Items)].r

is_rlist_empty(r, a) == a = r.next[a]

\* The k-th node a loop along next comes to.
Nth(r, list, k) == Walk(r.next, list)[k]

rlist_len(r, list) ==
    CHOOSE n \in 0 .. Cardinality(RNodes) :
        /\ Nth(r, list, n + 1) = list
        /\ \A k \in 1 .. n : Nth(r, list, k) # list

rlist_find(r, list, key, fail) ==
    LET found == {k \in 1 .. rlist_len(r, list) : Key(Nth(r, list, k)) = key}
    IN  IF found = {} THEN fail
        ELSE Nth(r, list, CHOOSE k \in found : \A j \in found : k <= j)

rlist_equal(r, L1, L2) ==
    /\ rlist_len(r, L1) = rlist_len(r, L2)
    /\ \A k \in 1 .. rlist_len(r, L1) : Key(Nth(r, L1, k)) = Key(Nth(r, L2, k))

-----------------------------------------------------------------------------
(* The calls, with what each means for the lists.                          *)

InList(x) == \E h \in Heads : x \in Range(lists[h])

\* The nodes of T among the first n of s, in their order, and among all.
Sifted(s, T) ==
    LET of[n \in 0 .. Len(s)] == IF n = 0 THEN <<>>
                                 ELSE IF s[n] \in T THEN Append(of[n - 1], s[n])
                                 ELSE of[n - 1]
    IN  of
Only(s, T) == Sifted(s, T)[Len(s)]

\* A node that is in no list goes to the front or the back of one.
Push(h, x) ==
    /\ ~ InList(x)
    /\ \/ heap' = rlist_push_front(heap, h, x) /\ lists' = [lists EXCEPT ![h] = <<x>> \o @]
       \/ heap' = rlist_push_back(heap, h, x) /\ lists' = [lists EXCEPT ![h] = Append(@, x)]

\* sched_register_timeout(): rl_splice(n->prev, x) for a node n of the list.
Insert(h, x) ==
    /\ ~ InList(x)
    /\ \E i \in 1 .. Len(lists[h]) :
          /\ heap' = rl_splice(heap, heap.prev[lists[h][i]], x)
          /\ lists' = [lists EXCEPT ![h] = InsertAt(@, i, x)]

\* Of a node wherever it is; in no list, it stays as it is.
Unlink(x) ==
    /\ heap' = rlist_remove(heap, x)
    /\ lists' = [h \in Heads |-> Only(lists[h], Items \ {x})]

\* Of an empty list, too, where nothing happens.
PopFront(h) ==
    /\ heap' = rlist_pop_front(heap, h)
    /\ lists' = [lists EXCEPT ![h] = IF @ = <<>> THEN @ ELSE Tail(@)]

\* Two lists that are not the same.
Join(d, s) ==
    /\ d # s
    /\ \/ heap' = rlist_append(heap, d, s)
          /\ lists' = [lists EXCEPT ![d] = @ \o lists[s], ![s] = <<>>]
       \/ heap' = rlist_prepend(heap, d, s)
          /\ lists' = [lists EXCEPT ![d] = lists[s] \o @, ![s] = <<>>]
       \/ heap' = rlist_select(heap, s, d)
          /\ lists' = [lists EXCEPT
                ![d] = @ \o Only(lists[s], Chosen),
                ![s] = Only(@, Items \ Chosen)]

TurnRound(h) ==
    /\ heap' = rlist_reverse(heap, h)
    /\ lists' = [lists EXCEPT ![h] = Reverse(@)]

RingsNext ==
    \/ \E h \in Heads :
          \/ \E x \in Items : Push(h, x) \/ Insert(h, x)
          \/ PopFront(h) \/ TurnRound(h)
          \/ \E s \in Heads : Join(h, s)
    \/ \E x \in Items : Unlink(x)

-----------------------------------------------------------------------------
(* Properties.                                                             *)

\* The ring of head h is h and the nodes of s, in both directions.
Linked(r, h, s) ==
    LET at(i) == IF i \in DOMAIN s THEN s[i] ELSE h
    IN  \A i \in 0 .. Len(s) : r.next[at(i)] = at(i + 1) /\ r.prev[at(i + 1)] = at(i)

(* Whatever sequence of calls was made on the lists, following next from a *)
(* head gives the nodes the list should hold, in their order, prev goes    *)
(* the same way back, a node that is in no list is a ring by itself, and   *)
(* the functions that walk along a list find what is in it.                *)
RingsSound ==
    /\ \A h \in Heads :
          /\ Linked(heap, h, lists[h])
          /\ is_rlist_empty(heap, h) <=> lists[h] = <<>>
          /\ rlist_len(heap, h) = Len(lists[h])
          /\ \A key \in 0 .. NKeys - 1 :
                LET has == Only(lists[h], {x \in Items : Key(x) = key})
                IN  rlist_find(heap, h, key, h) = Head(has \o <<h>>)
          /\ \A g \in Heads :
                rlist_equal(heap, g, h) <=>
                    /\ Len(lists[g]) = Len(lists[h])
                    /\ \A i \in DOMAIN lists[g] : Key(lists[g][i]) = Key(lists[h][i])
    /\ \A x \in Items : ~ InList(x) => Linked(heap, x, <<>>)
=============================================================================
