-------------------------------- MODULE List --------------------------------
(***************************************************************************)
(* The doubly linked lists of src/list.c. A list is not a value of its     *)
(* own: l is the store of all elements, l.next and l.prev their links, and *)
(* a list is what lies between its two sentinels, &list->head and          *)
(* &list->tail. An element may sit in one list, or in none and still have  *)
(* the links it had before.                                                *)
(***************************************************************************)
EXTENDS SequencesExt, Integers

CONSTANTS
  Elem,      \* the elements
  Sentinel,  \* the heads and tails
  NULL       \* the null pointer

ASSUME NodeAssumption ==
  /\ IsFiniteSet(Elem)
  /\ Elem \cap Sentinel = {} /\ NULL \notin Elem \cup Sentinel

Node  == Elem \cup Sentinel
Links == [next : [Node -> Node \cup {NULL}], prev : [Node -> Node \cup {NULL}]]

is_head(l, e)     == e # NULL /\ l.prev[e] = NULL /\ l.next[e] # NULL
is_interior(l, e) == e # NULL /\ l.prev[e] # NULL /\ l.next[e] # NULL
is_tail(l, e)     == e # NULL /\ l.prev[e] # NULL /\ l.next[e] = NULL

\* No element is in a list; heads and tails come in pairs.
Unlinked == [next |-> [x \in Node |-> NULL], prev |-> [x \in Node |-> NULL]]
list_init(l, head, tail) ==
  [next |-> [l.next EXCEPT ![head] = tail, ![tail] = NULL],
   prev |-> [l.prev EXCEPT ![head] = NULL, ![tail] = head]]

list_begin(l, head)       == l.next[head]
list_empty(l, head, tail) == list_begin(l, head) = tail

\* The four stores of list_insert, in their order.
store_prev(l, before, e) == [l EXCEPT !.prev[e] = l.prev[before]]
store_next(l, before, e) == [l EXCEPT !.next[e] = before]
store_link(l, before, e) == [l EXCEPT !.next[l.prev[before]] = e]
store_back(l, before, e) == [l EXCEPT !.prev[before] = e]

list_insert(l, before, e) ==
  store_back(store_link(store_next(store_prev(l, before, e), before, e), before, e), before, e)

list_push_back(l, tail, e) == list_insert(l, tail, e)

\* Linux clears the links of what it takes out of a list.
list_remove_Clear(l, e) ==
  [next |-> [l.next EXCEPT ![l.prev[e]] = l.next[e], ![e] = NULL],
   prev |-> [l.prev EXCEPT ![l.next[e]] = l.prev[e], ![e] = NULL]]
\* It makes them a list of one, too.
list_remove_Self(l, e) ==
  [next |-> [l.next EXCEPT ![l.prev[e]] = l.next[e], ![e] = e],
   prev |-> [l.prev EXCEPT ![l.next[e]] = l.prev[e], ![e] = e]]
\* What is taken out keeps its links.
list_remove(l, e) ==
  [next |-> [l.next EXCEPT ![l.prev[e]] = l.next[e]],
   prev |-> [l.prev EXCEPT ![l.next[e]] = l.prev[e]]]

\* The range would take last with it.
list_splice_Inclusive(l, before, first, last) ==
  LET out == [next |-> [l.next EXCEPT ![l.prev[first]] = last],
              prev |-> [l.prev EXCEPT ![last] = l.prev[first]]]
  IN  [next |-> [out.next EXCEPT ![last] = before, ![out.prev[before]] = first],
       prev |-> [out.prev EXCEPT ![first] = out.prev[before], ![before] = last]]
\* The range from first to last, exclusive, is moved to the place before before.
list_splice(l, before, first, last) ==
  LET end == l.prev[last]
      out == [next |-> [l.next EXCEPT ![l.prev[first]] = last],
              prev |-> [l.prev EXCEPT ![last] = l.prev[first]]]
  IN  [next |-> [out.next EXCEPT ![end] = before, ![out.prev[before]] = first],
       prev |-> [out.prev EXCEPT ![first] = out.prev[before], ![before] = end]]

(***************************************************************************)
(* What a traversal from list_begin by list_next comes across, and when    *)
(* the links of a list are sound.                                          *)
(***************************************************************************)
Traversal(l, head) ==
  LET at[k \in 1..(Cardinality(Elem) + 1)] ==
        IF k = 1 THEN l.next[head]
        ELSE IF at[k - 1] \in Elem THEN l.next[at[k - 1]] ELSE at[k - 1]
  IN  at

Order(l, head) ==
  LET at == Traversal(l, head)
  IN  SubSeq(at, 1, Cardinality({k \in DOMAIN at : at[k] \in Elem}))

\* c is a list in the store l, from its head to its tail.
Linked(l, c) ==
  /\ IsInjective(c)
  /\ \A k \in 1..(Len(c) - 1) : l.next[c[k]] = c[k + 1] /\ l.prev[c[k + 1]] = c[k]
  /\ l.prev[c[1]] = NULL /\ l.next[c[Len(c)]] = NULL

IsList(l, head, tail) == Linked(l, <<head>> \o Order(l, head) \o <<tail>>)
=============================================================================
