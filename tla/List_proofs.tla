----------------------------- MODULE List_proofs -----------------------------
(***************************************************************************)
(* Lemmas about the operations of List: what they make of a list that is   *)
(* sound.                                                                  *)
(***************************************************************************)
EXTENDS List, FiniteSetTheorems, SequenceTheorems, WellFoundedInduction, TLAPS

LEMMA LeastElement ==
  ASSUME NEW S \in SUBSET Nat, S # {}
  PROVE  \E x \in S : \A y \in S : x <= y
<1>1. PICK x \in S : \A y \in S : <<y, x>> \notin OpToRel(<, Nat)
  BY NatLessThanWellFounded, WFMin
<1>2. \A y \in S : ~(y < x)
  BY <1>1 DEF OpToRel
<1> QED  BY <1>2

LEMMA UpTo ==
  ASSUME NEW n \in Nat
  PROVE  IsFiniteSet(1..n) /\ Cardinality(1..n) = n
BY FS_Interval

-----------------------------------------------------------------------------
(***************************************************************************)
(* A traversal.                                                            *)
(***************************************************************************)

\* What a traversal of s, which ends at tail, comes across.
Visits(s, tail) == [k \in 1..(Cardinality(Elem) + 1) |-> IF k <= Len(s) THEN s[k] ELSE tail]

Forward(l, head, s, tail) ==
  /\ s = <<>> => l.next[head] = tail
  /\ s # <<>> => l.next[head] = s[1] /\ l.next[s[Len(s)]] = tail
  /\ \A k \in 1..(Len(s) - 1) : l.next[s[k]] = s[k + 1]

LEMMA TraversalIs ==
  ASSUME NEW l, NEW head, NEW s \in Seq(Elem), NEW tail \in Sentinel, Forward(l, head, s, tail)
  PROVE  Traversal(l, head) = Visits(s, tail)
<1> DEFINE N == Cardinality(Elem) + 1
           v == Visits(s, tail)
           step(g, k) == IF k = 1 THEN l.next[head]
                         ELSE IF g[k - 1] \in Elem THEN l.next[g[k - 1]] ELSE g[k - 1]
<1>1. N \in Nat
  BY NodeAssumption, FS_CardinalityType
<1>2. Len(s) \in Nat /\ (s = <<>> <=> Len(s) = 0) /\ \A k \in 1..Len(s) : s[k] \in Elem
  BY EmptySeq
<1>3. tail \notin Elem
  BY NodeAssumption
<1>4. \A k \in 1..N : v[k] = IF k <= Len(s) THEN s[k] ELSE tail
  BY DEF Visits
<1> HIDE DEF v
<1>5. ASSUME NEW k \in 1..N PROVE v[k] = step(v, k)
  <2>1. CASE k = 1
    BY <1>1, <1>2, <1>4, <2>1 DEF Forward
  <2>2. CASE k # 1
    <3>1. k - 1 \in 1..N /\ k \in 1..N /\ k \in Nat
      BY <1>1, <2>2
    <3>2. CASE k <= Len(s)
      <4>1. v[k] = s[k] /\ v[k - 1] = s[k - 1] /\ k - 1 \in 1..(Len(s) - 1) /\ s[k - 1] \in Elem
        BY <1>2, <1>4, <2>2, <3>1, <3>2
      <4>2. l.next[s[k - 1]] = s[(k - 1) + 1]
        BY <4>1 DEF Forward
      <4> QED  BY <2>2, <3>1, <4>1, <4>2
    <3>3. CASE k = Len(s) + 1
      <4>1. v[k] = tail /\ v[k - 1] = s[Len(s)] /\ s[Len(s)] \in Elem /\ s # <<>>
        BY <1>2, <1>4, <2>2, <3>1, <3>3
      <4> QED  BY <2>2, <4>1 DEF Forward
    <3>4. CASE k > Len(s) + 1
      BY <1>2, <1>3, <1>4, <2>2, <3>1, <3>4
    <3> QED  BY <1>2, <3>1, <3>2, <3>3, <3>4
  <2> QED  BY <2>1, <2>2
<1>6. v = [k \in 1..N |-> step(v, k)]
  BY <1>5 DEF v, Visits
<1>7. ASSUME NEW g, g = [k \in 1..N |-> step(g, k)] PROVE g = v
  <2> DEFINE B == {k \in 1..N : g[k] # v[k]}
  <2>1. CASE B = {}
    <3>1. \A k \in 1..N : step(g, k) = step(v, k)
      <4>1. \A k \in 1..N : g[k] = v[k]
        BY <2>1
      <4>2. \A k \in 1..N : g[k] = step(g, k) /\ v[k] = step(v, k)
        BY <1>5, <1>7
      <4> QED  BY <4>1, <4>2
    <3> HIDE DEF step, N
    <3> QED  BY <1>6, <1>7, <3>1
  <2>2. CASE B # {}
    <3>1. PICK k \in B : \A j \in B : k <= j
      <4>1. B \in SUBSET Nat
        BY <1>1
      <4> HIDE DEF B
      <4> QED  BY <2>2, <4>1, LeastElement
    <3>2. k \in 1..N /\ g[k] = step(g, k) /\ v[k] = step(v, k) /\ g[k] # v[k]
      BY <1>5, <1>7
    <3>3. k # 1
      BY <3>2
    <3>4. k - 1 \in 1..N /\ k - 1 \notin B
      BY <1>1, <3>1, <3>2, <3>3
    <3>5. g[k - 1] = v[k - 1]
      BY <3>4
    <3> QED  BY <3>2, <3>3, <3>5
  <2> QED  BY <2>1, <2>2
<1>8. Traversal(l, head) = CHOOSE g : g = [k \in 1..N |-> step(g, k)]
  BY DEF Traversal
<1> HIDE DEF N, step
<1>9. Traversal(l, head) = [k \in 1..N |-> step(Traversal(l, head), k)]
  BY <1>6, <1>8
<1> QED  BY <1>7, <1>9 DEF v

LEMMA InjectiveLength ==
  ASSUME NEW s \in Seq(Elem), IsInjective(s)
  PROVE  Len(s) \in Nat /\ Cardinality(Elem) \in Nat /\ Len(s) <= Cardinality(Elem)
<1>1. Len(s) \in Nat /\ s \in [1..Len(s) -> Elem] /\ DOMAIN s = 1..Len(s)
  BY LenProperties
<1>2. IsFiniteSet(1..Len(s)) /\ Cardinality(1..Len(s)) = Len(s)
  BY <1>1, UpTo
<1>3. s \in Injection(1..Len(s), Elem)
  BY <1>1 DEF Injection, IsInjective
<1> QED  BY <1>1, <1>2, <1>3, NodeAssumption, FS_Injection, FS_CardinalityType

\* The traversal has found s, whatever the links back are.
LEMMA OrderIs ==
  ASSUME NEW l, NEW head, NEW s \in Seq(Elem), IsInjective(s), NEW tail \in Sentinel,
         Forward(l, head, s, tail)
  PROVE  Order(l, head) = s
<1> DEFINE v == Visits(s, tail)
           N == Cardinality(Elem)
<1>1. N \in Nat /\ Len(s) \in Nat /\ s \in [1..Len(s) -> Elem] /\ DOMAIN s = 1..Len(s)
  BY NodeAssumption, FS_CardinalityType, LenProperties
<1>2. Len(s) <= N
  BY InjectiveLength
<1>3. Traversal(l, head) = v
  BY TraversalIs
<1>4. DOMAIN v = 1..(N + 1) /\ \A k \in 1..(N + 1) : v[k] = IF k <= Len(s) THEN s[k] ELSE tail
  BY DEF Visits
<1> HIDE DEF v
<1>5. {k \in DOMAIN v : v[k] \in Elem} = 1..Len(s)
  <2>1. tail \notin Elem
    BY NodeAssumption
  <2>2. \A k \in 1..Len(s) : s[k] \in Elem
    BY <1>1
  <2> QED  BY <1>1, <1>2, <1>4, <2>1, <2>2
<1>6. Cardinality(1..Len(s)) = Len(s)
  BY <1>1, UpTo
<1>7. SubSeq(v, 1, Len(s)) = [k \in 1..Len(s) |-> v[k]]
  BY <1>1, <1>2, <1>4
<1>8. \A k \in 1..Len(s) : v[k] = s[k]
  BY <1>1, <1>2, <1>4
<1>9. SubSeq(v, 1, Len(s)) = s
  BY <1>1, <1>7, <1>8
<1> QED  BY <1>3, <1>5, <1>6, <1>9 DEF Order

-----------------------------------------------------------------------------
(***************************************************************************)
(* A list that is sound.                                                   *)
(***************************************************************************)

Chain(head, s, tail) == <<head>> \o s \o <<tail>>

LEMMA ChainFacts ==
  ASSUME NEW s \in Seq(Elem), NEW head \in Sentinel, NEW tail \in Sentinel
  PROVE  LET c == Chain(head, s, tail) IN
         /\ c \in Seq(Node) /\ Len(s) \in Nat /\ Len(c) = Len(s) + 2
         /\ DOMAIN c = 1..(Len(s) + 2) /\ DOMAIN s = 1..Len(s)
         /\ c[1] = head /\ c[Len(s) + 2] = tail
         /\ \A k \in 1..Len(s) : c[k + 1] = s[k] /\ s[k] \in Elem
<1> DEFINE a == <<head>> \o s
           c == a \o <<tail>>
<1>1. /\ s \in Seq(Node) /\ <<head>> \in Seq(Node) /\ <<tail>> \in Seq(Node)
      /\ Len(<<head>>) = 1 /\ Len(<<tail>>) = 1 /\ <<head>>[1] = head /\ <<tail>>[1] = tail
  BY DEF Node
<1>2. /\ Len(s) \in Nat /\ DOMAIN s = 1..Len(s) /\ \A k \in 1..Len(s) : s[k] \in Elem
  BY LenProperties
<1>3. a \in Seq(Node) /\ Len(a) = Len(s) + 1
      /\ \A k \in 1..(Len(s) + 1) : a[k] = IF k <= 1 THEN <<head>>[k] ELSE s[k - 1]
  BY <1>1, <1>2, ConcatProperties
<1> HIDE DEF a
<1>4. c \in Seq(Node) /\ Len(c) = Len(s) + 2
      /\ \A k \in 1..(Len(s) + 2) : c[k] = IF k <= Len(a) THEN a[k] ELSE <<tail>>[k - Len(a)]
  BY <1>1, <1>2, <1>3, ConcatProperties
<1> HIDE DEF c
<1>5. c[1] = head /\ c[Len(s) + 2] = tail
  <2>1. 1 \in 1..(Len(s) + 1) /\ 1 \in 1..(Len(s) + 2) /\ Len(s) + 2 \in 1..(Len(s) + 2)
        /\ 1 <= Len(a) /\ ~(Len(s) + 2 <= Len(a)) /\ (Len(s) + 2) - Len(a) = 1
    BY <1>2, <1>3
  <2>2. c[1] = a[1]
    BY <1>4, <2>1
  <2>3. a[1] = head
    BY <1>1, <1>3, <2>1
  <2>4. c[Len(s) + 2] = <<tail>>[1]
    BY <1>4, <2>1
  <2> QED  BY <1>1, <2>2, <2>3, <2>4
<1>6. \A k \in 1..Len(s) : c[k + 1] = s[k]
  BY <1>2, <1>3, <1>4
<1>7. DOMAIN c = 1..(Len(s) + 2)
  BY <1>4, LenProperties
<1> QED  BY <1>2, <1>4, <1>5, <1>6, <1>7 DEF Chain, a, c

\* The element at position k, with the head at 0.
At(head, s, tail, k) == IF k = 0 THEN head ELSE IF k = Len(s) + 1 THEN tail ELSE s[k]

Sound(l, head, s, tail) ==
  /\ IsInjective(s)
  /\ l.prev[head] = NULL /\ l.next[tail] = NULL
  /\ \A k \in 0..Len(s) : /\ l.next[At(head, s, tail, k)] = At(head, s, tail, k + 1)
                          /\ l.prev[At(head, s, tail, k + 1)] = At(head, s, tail, k)

LEMMA AtFacts ==
  ASSUME NEW s \in Seq(Elem), NEW head \in Sentinel, NEW tail \in Sentinel, head # tail
  PROVE  /\ Len(s) \in Nat /\ DOMAIN s = 1..Len(s)
         /\ At(head, s, tail, 0) = head /\ At(head, s, tail, Len(s) + 1) = tail
         /\ \A k \in 1..Len(s) : At(head, s, tail, k) = s[k] /\ s[k] \in Elem
         /\ \A k \in 0..(Len(s) + 1) : At(head, s, tail, k) \in Node
         /\ IsInjective(s) => \A i, k \in 0..(Len(s) + 1) :
              At(head, s, tail, i) = At(head, s, tail, k) => i = k
<1> DEFINE n == Len(s)
<1>1. n \in Nat /\ DOMAIN s = 1..n /\ \A k \in 1..n : s[k] \in Elem
  BY LenProperties
<1> HIDE DEF n
<1>2. \A k : At(head, s, tail, k) = IF k = 0 THEN head ELSE IF k = n + 1 THEN tail ELSE s[k]
  BY DEF At, n
<1>3. head \notin Elem /\ tail \notin Elem
  BY NodeAssumption
<1>4. \A k \in 0..(n + 1) : k = 0 \/ k = n + 1 \/ (k \in 1..n /\ k # 0 /\ k # n + 1)
  BY <1>1
<1>5. At(head, s, tail, 0) = head /\ At(head, s, tail, n + 1) = tail
  BY <1>1, <1>2
<1>6. \A k \in 1..n : At(head, s, tail, k) = s[k] /\ s[k] \in Elem
  BY <1>1, <1>2
<1>7. \A k \in 0..(n + 1) : At(head, s, tail, k) \in Node
  BY <1>4, <1>5, <1>6 DEF Node
<1>8. ASSUME IsInjective(s), NEW i \in 0..(n + 1), NEW k \in 0..(n + 1),
             At(head, s, tail, i) = At(head, s, tail, k)
      PROVE  i = k
  BY <1>1, <1>3, <1>4, <1>5, <1>6, <1>8 DEF IsInjective
<1> QED  BY <1>1, <1>5, <1>6, <1>7, <1>8 DEF n

LEMMA LinkedIsSound ==
  ASSUME NEW l, NEW s \in Seq(Elem), NEW head \in Sentinel, NEW tail \in Sentinel, head # tail
  PROVE  Linked(l, Chain(head, s, tail)) <=> Sound(l, head, s, tail)
<1> DEFINE c == Chain(head, s, tail)
           n == Len(s)
           at(k) == At(head, s, tail, k)
<1>1. /\ n \in Nat /\ Len(c) = n + 2 /\ DOMAIN c = 1..(n + 2) /\ DOMAIN s = 1..n
      /\ c[1] = head /\ c[n + 2] = tail
      /\ \A k \in 1..n : c[k + 1] = s[k]
  <2> HIDE DEF n
  <2>1. /\ c \in Seq(Node) /\ Len(s) \in Nat /\ Len(c) = Len(s) + 2
        /\ DOMAIN c = 1..(Len(s) + 2) /\ DOMAIN s = 1..Len(s)
        /\ c[1] = head /\ c[Len(s) + 2] = tail
        /\ \A k \in 1..Len(s) : c[k + 1] = s[k] /\ s[k] \in Elem
    BY ChainFacts
  <2> QED  BY <2>1 DEF n
<1>2. /\ at(0) = head /\ at(n + 1) = tail /\ \A k \in 1..n : at(k) = s[k]
      /\ IsInjective(s) => \A i, k \in 0..(n + 1) : at(i) = at(k) => i = k
  BY AtFacts
<1> HIDE DEF c, n, at
<1>3. \A k \in 0..(n + 1) : c[k + 1] = at(k)
  <2>1. \A k \in 0..(n + 1) : k = 0 \/ k = n + 1 \/ k \in 1..n
    BY <1>1
  <2>2. 0 + 1 = 1 /\ (n + 1) + 1 = n + 2
    BY <1>1
  <2> QED  BY <1>1, <1>2, <2>1, <2>2
<1>4. IsInjective(c) <=> IsInjective(s)
  <2>1. ASSUME IsInjective(c), NEW i \in 1..n, NEW k \in 1..n, s[i] = s[k] PROVE i = k
    <3>1. i + 1 \in DOMAIN c /\ k + 1 \in DOMAIN c /\ c[i + 1] = c[k + 1]
      BY <1>1, <2>1
    <3>2. i + 1 = k + 1
      BY <2>1, <3>1 DEF IsInjective
    <3> QED  BY <1>1, <3>2
  <2>2. ASSUME IsInjective(s), NEW i \in 1..(n + 2), NEW k \in 1..(n + 2), c[i] = c[k] PROVE i = k
    <3>1. /\ i - 1 \in 0..(n + 1) /\ k - 1 \in 0..(n + 1)
          /\ (i - 1) + 1 = i /\ (k - 1) + 1 = k
      BY <1>1
    <3>2. at(i - 1) = at(k - 1)
      BY <1>3, <2>2, <3>1
    <3>3. i - 1 = k - 1
      BY <1>2, <2>2, <3>1, <3>2
    <3> QED  BY <3>1, <3>3
  <2> QED  BY <1>1, <2>1, <2>2 DEF IsInjective
<1> DEFINE L(k) == l.next[c[k]] = c[k + 1] /\ l.prev[c[k + 1]] = c[k]
           S(k) == l.next[at(k)] = at(k + 1) /\ l.prev[at(k + 1)] = at(k)
<1>5. \A k \in 0..n : L(k + 1) <=> S(k)
  <2>1. \A k \in 0..n : k \in 0..(n + 1) /\ k + 1 \in 0..(n + 1)
    BY <1>1
  <2> QED  BY <1>3, <2>1
<1>6. Linked(l, c) <=> /\ IsInjective(c) /\ \A k \in 1..(n + 1) : L(k)
                       /\ l.prev[head] = NULL /\ l.next[tail] = NULL
  <2>1. Len(c) - 1 = n + 1
    BY <1>1
  <2> QED  BY <1>1, <2>1 DEF Linked
<1>7. Sound(l, head, s, tail) <=> /\ IsInjective(s) /\ \A k \in 0..n : S(k)
                                  /\ l.prev[head] = NULL /\ l.next[tail] = NULL
  BY DEF Sound, n, at
<1> HIDE DEF L, S
<1>8. (\A k \in 1..(n + 1) : L(k)) <=> \A k \in 0..n : S(k)
  <2>1. \A k \in 1..(n + 1) : k - 1 \in 0..n /\ (k - 1) + 1 = k
    BY <1>1
  <2>2. \A k \in 0..n : k + 1 \in 1..(n + 1)
    BY <1>1
  <2> QED  BY <1>5, <2>1, <2>2
<1> QED  BY <1>4, <1>6, <1>7, <1>8 DEF c

\* A traversal of a sound list finds its elements, and so it is a list.
LEMMA SoundIsList ==
  ASSUME NEW l, NEW s \in Seq(Elem), NEW head \in Sentinel, NEW tail \in Sentinel, head # tail,
         Sound(l, head, s, tail)
  PROVE  Order(l, head) = s /\ IsList(l, head, tail)
<1> DEFINE n == Len(s)
           at(k) == At(head, s, tail, k)
<1>1. n \in Nat /\ at(0) = head /\ at(n + 1) = tail /\ \A k \in 1..n : at(k) = s[k]
  BY AtFacts
<1>2. IsInjective(s) /\ \A k \in 0..n : l.next[at(k)] = at(k + 1)
  BY DEF Sound
<1>3. s = <<>> <=> n = 0
  BY EmptySeq
<1> HIDE DEF at, n
<1>4. n = 0 => l.next[head] = tail
  BY <1>1, <1>2
<1>5. n # 0 => l.next[head] = s[1] /\ l.next[s[n]] = tail
  BY <1>1, <1>2
<1>6. \A k \in 1..(n - 1) : l.next[s[k]] = s[k + 1]
  BY <1>1, <1>2
<1>7. Forward(l, head, s, tail)
  BY <1>3, <1>4, <1>5, <1>6 DEF Forward, n
<1>8. Order(l, head) = s
  BY <1>2, <1>7, OrderIs
<1> QED  BY <1>8, LinkedIsSound DEF IsList, Chain

LEMMA ListIsSound ==
  ASSUME NEW l, NEW head \in Sentinel, NEW tail \in Sentinel, head # tail,
         IsList(l, head, tail), Order(l, head) \in Seq(Elem)
  PROVE  Sound(l, head, Order(l, head), tail)
BY LinkedIsSound DEF IsList, Chain

-----------------------------------------------------------------------------
(***************************************************************************)
(* The operations, link by link.                                           *)
(***************************************************************************)

Same(f, g) == \A y \in Node : f[y] = g[y]

LEMMA Stores ==
  ASSUME NEW l \in Links, NEW b \in Node, NEW x \in Elem, l.prev[b] \in Node
  PROVE  /\ store_prev(l, b, x) \in Links /\ Same(store_prev(l, b, x).next, l.next)
         /\ \A y \in Node : store_prev(l, b, x).prev[y] = IF y = x THEN l.prev[b] ELSE l.prev[y]
         /\ store_next(l, b, x) \in Links /\ Same(store_next(l, b, x).prev, l.prev)
         /\ \A y \in Node : store_next(l, b, x).next[y] = IF y = x THEN b ELSE l.next[y]
         /\ store_link(l, b, x) \in Links /\ Same(store_link(l, b, x).prev, l.prev)
         /\ \A y \in Node : store_link(l, b, x).next[y] = IF y = l.prev[b] THEN x ELSE l.next[y]
         /\ store_back(l, b, x) \in Links /\ Same(store_back(l, b, x).next, l.next)
         /\ \A y \in Node : store_back(l, b, x).prev[y] = IF y = b THEN x ELSE l.prev[y]
<1>1. l.next \in [Node -> Node \cup {NULL}] /\ l.prev \in [Node -> Node \cup {NULL}] /\ x \in Node
      /\ l = [next |-> l.next, prev |-> l.prev]
  BY DEF Links, Node
<1> USE DEF Links, Same
<1>2. /\ store_prev(l, b, x) \in Links /\ Same(store_prev(l, b, x).next, l.next)
      /\ \A y \in Node : store_prev(l, b, x).prev[y] = IF y = x THEN l.prev[b] ELSE l.prev[y]
  BY <1>1 DEF store_prev
<1>3. /\ store_next(l, b, x) \in Links /\ Same(store_next(l, b, x).prev, l.prev)
      /\ \A y \in Node : store_next(l, b, x).next[y] = IF y = x THEN b ELSE l.next[y]
  BY <1>1 DEF store_next
<1>4. /\ store_link(l, b, x) \in Links /\ Same(store_link(l, b, x).prev, l.prev)
      /\ \A y \in Node : store_link(l, b, x).next[y] = IF y = l.prev[b] THEN x ELSE l.next[y]
  BY <1>1 DEF store_link
<1>5. /\ store_back(l, b, x) \in Links /\ Same(store_back(l, b, x).next, l.next)
      /\ \A y \in Node : store_back(l, b, x).prev[y] = IF y = b THEN x ELSE l.prev[y]
  BY <1>1 DEF store_back
<1> HIDE DEF Same, Links
<1> QED  BY <1>2, <1>3, <1>4, <1>5

\* The order of the stores matters: the third still needs what the fourth overwrites.
LEMMA InsertLinks ==
  ASSUME NEW l \in Links, NEW b \in Node, NEW x \in Elem, l.prev[b] \in Node, b # x, l.prev[b] # x
  PROVE  LET m == list_insert(l, b, x) IN
         /\ m \in Links
         /\ \A y \in Node : /\ m.next[y] = IF y = l.prev[b] THEN x ELSE IF y = x THEN b ELSE l.next[y]
                            /\ m.prev[y] = IF y = b THEN x ELSE IF y = x THEN l.prev[b] ELSE l.prev[y]
<1> DEFINE l1 == store_prev(l, b, x)
           l2 == store_next(l1, b, x)
           l3 == store_link(l2, b, x)
           l4 == store_back(l3, b, x)
<1>1. /\ l1 \in Links /\ Same(l1.next, l.next)
      /\ \A y \in Node : l1.prev[y] = IF y = x THEN l.prev[b] ELSE l.prev[y]
  BY Stores
<1> HIDE DEF l1
<1>2. l1.prev[b] = l.prev[b]
  BY <1>1
<1>3. /\ l2 \in Links /\ Same(l2.prev, l1.prev)
      /\ \A y \in Node : l2.next[y] = IF y = x THEN b ELSE l1.next[y]
  BY <1>1, <1>2, Stores
<1> HIDE DEF l2
<1>4. l2.prev[b] = l.prev[b]
  BY <1>2, <1>3 DEF Same
<1>5. /\ l3 \in Links /\ Same(l3.prev, l2.prev)
      /\ \A y \in Node : l3.next[y] = IF y = l.prev[b] THEN x ELSE l2.next[y]
  BY <1>3, <1>4, Stores
<1> HIDE DEF l3
<1>6. l3.prev[b] = l.prev[b]
  BY <1>4, <1>5 DEF Same
<1>7. /\ l4 \in Links /\ Same(l4.next, l3.next)
      /\ \A y \in Node : l4.prev[y] = IF y = b THEN x ELSE l3.prev[y]
  BY <1>5, <1>6, Stores
<1> HIDE DEF l4
<1>8. list_insert(l, b, x) = l4
  BY DEF list_insert, l1, l2, l3, l4
<1>9. \A y \in Node : /\ l4.next[y] = IF y = l.prev[b] THEN x ELSE IF y = x THEN b ELSE l.next[y]
                      /\ l4.prev[y] = IF y = b THEN x ELSE IF y = x THEN l.prev[b] ELSE l.prev[y]
  BY <1>1, <1>3, <1>5, <1>7 DEF Same
<1> QED  BY <1>7, <1>8, <1>9

LEMMA RemoveLinks ==
  ASSUME NEW l \in Links, NEW x \in Node, l.prev[x] \in Node, l.next[x] \in Node
  PROVE  LET m == list_remove(l, x) IN
         /\ m \in Links
         /\ \A y \in Node : /\ m.next[y] = IF y = l.prev[x] THEN l.next[x] ELSE l.next[y]
                            /\ m.prev[y] = IF y = l.next[x] THEN l.prev[x] ELSE l.prev[y]
<1>1. l.next \in [Node -> Node \cup {NULL}] /\ l.prev \in [Node -> Node \cup {NULL}]
  BY DEF Links
<1> QED  BY <1>1 DEF list_remove, Links

\* Two stores that agree on a list.
LEMMA SoundFrame ==
  ASSUME NEW l, NEW m, NEW s \in Seq(Elem), NEW head \in Sentinel, NEW tail \in Sentinel,
         head # tail, Sound(l, head, s, tail),
         \A y \in Node : y = head \/ y = tail \/ Contains(s, y) =>
           m.next[y] = l.next[y] /\ m.prev[y] = l.prev[y]
  PROVE  Sound(m, head, s, tail)
<1> DEFINE n == Len(s)
           at(k) == At(head, s, tail, k)
<1>1. /\ n \in Nat /\ DOMAIN s = 1..n /\ at(0) = head /\ at(n + 1) = tail
      /\ \A k \in 1..n : at(k) = s[k]
      /\ \A k \in 0..(n + 1) : at(k) \in Node
  BY AtFacts
<1>2. /\ IsInjective(s) /\ l.prev[head] = NULL /\ l.next[tail] = NULL
      /\ \A k \in 0..n : l.next[at(k)] = at(k + 1) /\ l.prev[at(k + 1)] = at(k)
  BY DEF Sound
<1> HIDE DEF at, n
<1>3. \A k \in 1..n : Contains(s, s[k])
  BY <1>1 DEF Contains
<1>4. \A k \in 0..(n + 1) : k = 0 \/ k = n + 1 \/ k \in 1..n
  BY <1>1
<1>5. \A k \in 0..(n + 1) : m.next[at(k)] = l.next[at(k)] /\ m.prev[at(k)] = l.prev[at(k)]
  BY <1>1, <1>3, <1>4
<1>6. m.prev[head] = NULL /\ m.next[tail] = NULL
  <2>1. 0 \in 0..(n + 1) /\ n + 1 \in 0..(n + 1)
    BY <1>1
  <2> QED  BY <1>1, <1>2, <1>5, <2>1
<1>7. \A k \in 0..n : m.next[at(k)] = at(k + 1) /\ m.prev[at(k + 1)] = at(k)
  <2>1. \A k \in 0..n : k \in 0..(n + 1) /\ k + 1 \in 0..(n + 1)
    BY <1>1
  <2> QED  BY <1>2, <1>5, <2>1
<1> QED  BY <1>2, <1>6, <1>7 DEF Sound, at, n

LEMMA Appended ==
  ASSUME NEW S, NEW s \in Seq(S), NEW x \in S
  PROVE  /\ Append(s, x) \in Seq(S) /\ Len(s) \in Nat /\ Len(Append(s, x)) = Len(s) + 1
         /\ DOMAIN s = 1..Len(s) /\ DOMAIN Append(s, x) = 1..(Len(s) + 1)
         /\ \A i \in 1..Len(s) : Append(s, x)[i] = s[i]
         /\ Append(s, x)[Len(s) + 1] = x
         /\ \A y : Contains(Append(s, x), y) <=> Contains(s, y) \/ y = x
<1> DEFINE t == Append(s, x)
           n == Len(s)
<1>1. /\ t \in Seq(S) /\ Len(t) = n + 1 /\ n \in Nat /\ DOMAIN s = 1..n
      /\ \A i \in 1..n : t[i] = s[i]
      /\ t[n + 1] = x
  BY AppendProperties, LenProperties
<1> HIDE DEF t
<1>2. DOMAIN t = 1..(n + 1)
  BY <1>1, LenProperties
<1>3. \A y : Contains(s, y) <=> \E i \in 1..n : s[i] = y
  BY DEF Contains
<1> HIDE DEF n
<1>4. \A y : Contains(t, y) <=> \E i \in 1..(n + 1) : t[i] = y
  BY <1>1 DEF Contains
<1>5. \A i \in 1..(n + 1) : i \in 1..n \/ i = n + 1
  BY <1>1
<1>6. n + 1 \in 1..(n + 1) /\ \A i \in 1..n : i \in 1..(n + 1)
  BY <1>1
<1>7. ASSUME NEW y PROVE Contains(t, y) <=> Contains(s, y) \/ y = x
  BY <1>1, <1>3, <1>4, <1>5, <1>6
<1> QED  BY <1>1, <1>2, <1>7 DEF t, n

LEMMA PushSound ==
  ASSUME NEW l, NEW m, NEW s \in Seq(Elem), NEW head \in Sentinel, NEW tail \in Sentinel,
         head # tail, Sound(l, head, s, tail), NEW x \in Elem, ~Contains(s, x),
         \A y \in Node :
           /\ m.next[y] = IF y = l.prev[tail] THEN x ELSE IF y = x THEN tail ELSE l.next[y]
           /\ m.prev[y] = IF y = tail THEN x ELSE IF y = x THEN l.prev[tail] ELSE l.prev[y]
  PROVE  Sound(m, head, Append(s, x), tail)
<1> DEFINE n == Len(s)
           s2 == Append(s, x)
           at(k) == At(head, s, tail, k)
           at2(k) == At(head, s2, tail, k)
<1>1. /\ n \in Nat /\ DOMAIN s = 1..n /\ at(0) = head /\ at(n + 1) = tail
      /\ \A k \in 1..n : at(k) = s[k] /\ s[k] \in Elem
      /\ \A k \in 0..(n + 1) : at(k) \in Node
  BY AtFacts
<1>2. /\ IsInjective(s) /\ l.prev[head] = NULL /\ l.next[tail] = NULL
      /\ \A k \in 0..n : l.next[at(k)] = at(k + 1) /\ l.prev[at(k + 1)] = at(k)
      /\ \A i, k \in 0..(n + 1) : at(i) = at(k) => i = k
  BY AtFacts DEF Sound
<1>3. s2 \in Seq(Elem) /\ Len(s2) = n + 1 /\ s2[n + 1] = x /\ \A k \in 1..n : s2[k] = s[k]
  BY AppendProperties
<1>4. /\ DOMAIN s2 = 1..(n + 1) /\ at2(0) = head /\ at2((n + 1) + 1) = tail
      /\ \A k \in 1..(n + 1) : at2(k) = s2[k]
  <2> HIDE DEF s2, n
  <2> QED  BY <1>3, AtFacts
<1> HIDE DEF at, at2, s2, n
<1>5. \A k \in 1..n : s[k] # x
  BY <1>1 DEF Contains
<1>6. IsInjective(s2)
  BY <1>1, <1>2, <1>3, <1>4, <1>5 DEF IsInjective
<1>7. x # head /\ x # tail /\ x \in Node
  BY NodeAssumption DEF Node
<1>8. \A k \in 0..n : at2(k) = at(k) /\ at(k) \in Node /\ at(k) # x /\ at(k) # tail
  <2>1. \A k \in 0..n : k = 0 \/ k \in 1..n
    BY <1>1
  <2>2. \A k \in 1..n : k \in 1..(n + 1)
    BY <1>1
  <2>3. \A k \in 1..n : at2(k) = at(k)
    BY <1>1, <1>3, <1>4, <2>2
  <2>4. \A k \in 0..n : k \in 0..(n + 1) /\ n + 1 \in 0..(n + 1) /\ k # n + 1
    BY <1>1
  <2>5. \A k \in 0..n : at(k) # tail
    BY <1>1, <1>2, <2>4
  <2>6. \A k \in 0..n : at(k) # x
    BY <1>1, <1>5, <1>7, <2>1
  <2> QED  BY <1>1, <1>4, <2>1, <2>3, <2>4, <2>5, <2>6
<1>9. at2(n + 1) = x /\ at2(n + 2) = tail /\ l.prev[tail] = at(n) /\ tail \in Node
  <2>1. n \in 0..n /\ n + 1 \in 1..(n + 1) /\ (n + 1) + 1 = n + 2
    BY <1>1
  <2> QED  BY <1>1, <1>2, <1>3, <1>4, <2>1 DEF Node
<1>10. m.prev[head] = NULL /\ m.next[tail] = NULL
  <2>1. n \in 0..n /\ 0 \in 0..n
    BY <1>1
  <2>2. at(n) # tail /\ head # x /\ head # tail /\ head \in Node
    BY <1>1, <1>7, <1>8, <2>1
  <2> QED  BY <1>2, <1>7, <1>9, <2>2
<1>11. ASSUME NEW k \in 0..(n + 1)
       PROVE  m.next[at2(k)] = at2(k + 1) /\ m.prev[at2(k + 1)] = at2(k)
  <2>1. CASE k \in 0..n /\ k # n
    <3>1. k \in 0..n /\ k + 1 \in 0..n /\ k \in 0..(n + 1) /\ n \in 0..(n + 1)
      BY <1>1, <2>1
    <3>2. at(k) # at(n)
      BY <1>2, <2>1, <3>1
    <3>3. l.next[at(k)] = at(k + 1) /\ l.prev[at(k + 1)] = at(k)
      BY <1>2, <3>1
    <3> QED  BY <1>7, <1>8, <1>9, <3>1, <3>2, <3>3
  <2>2. CASE k = n
    <3>1. n \in 0..n
      BY <1>1
    <3> QED  BY <1>7, <1>8, <1>9, <2>2, <3>1
  <2>3. CASE k = n + 1
    <3>1. k + 1 = n + 2 /\ n \in 0..n
      BY <1>1, <2>3
    <3> QED  BY <1>7, <1>8, <1>9, <2>3, <3>1
  <2> QED  BY <1>1, <2>1, <2>2, <2>3
<1> QED
  <2> SUFFICES IsInjective(s2) /\ Len(s2) = n + 1 /\ m.prev[head] = NULL /\ m.next[tail] = NULL
               /\ \A k \in 0..(n + 1) : m.next[at2(k)] = at2(k + 1) /\ m.prev[at2(k + 1)] = at2(k)
    BY DEF Sound, at2, s2
  <2> QED  BY <1>3, <1>6, <1>10, <1>11

LEMMA RemoveAtIs ==
  ASSUME NEW S, NEW s \in Seq(S), NEW i \in DOMAIN s
  PROVE  /\ RemoveAt(s, i) \in Seq(S) /\ Len(RemoveAt(s, i)) = Len(s) - 1
         /\ DOMAIN RemoveAt(s, i) = 1..(Len(s) - 1)
         /\ \A k \in 1..(Len(s) - 1) : RemoveAt(s, i)[k] = IF k < i THEN s[k] ELSE s[k + 1]
<1> DEFINE a == SubSeq(s, 1, i - 1)
           b == SubSeq(s, i + 1, Len(s))
           t == a \o b
<1>1. /\ Len(s) \in Nat /\ DOMAIN s = 1..Len(s) /\ i \in 1..Len(s)
      /\ \A k \in 1..Len(s) : s[k] \in S
  BY LenProperties, ElementOfSeq
<1>2. /\ a \in Seq(S) /\ Len(a) = i - 1
      /\ \A k \in 1..(i - 1) : a[k] = s[k]
  <2>1. \A k \in 1..(i - 1) : s[k] \in S  BY <1>1
  <2>2. /\ a \in Seq(S)
        /\ Len(a) = IF 1 <= i - 1 THEN i - 1 - 1 + 1 ELSE 0
        /\ \A k \in 1..(i - 1 - 1 + 1) : a[k] = s[1 + k - 1]
    <3>1. 1 \in Int /\ i - 1 \in Int  BY <1>1
    <3> HIDE DEF a
    <3> QED  BY <2>1, <3>1, SubSeqProperties DEF a
  <2> HIDE DEF a
  <2> QED  BY <1>1, <2>2
<1>3. /\ b \in Seq(S) /\ Len(b) = Len(s) - i
      /\ \A k \in 1..(Len(s) - i) : b[k] = s[i + k]
  <2>1. \A k \in (i + 1)..Len(s) : s[k] \in S  BY <1>1
  <2>2. /\ b \in Seq(S)
        /\ Len(b) = IF i + 1 <= Len(s) THEN Len(s) - (i + 1) + 1 ELSE 0
        /\ \A k \in 1..(Len(s) - (i + 1) + 1) : b[k] = s[(i + 1) + k - 1]
    <3>1. i + 1 \in Int /\ Len(s) \in Int  BY <1>1
    <3> QED  BY <2>1, <3>1, SubSeqProperties
  <2>3. Len(s) - (i + 1) + 1 = Len(s) - i
    BY <1>1
  <2>4. ASSUME NEW k \in 1..(Len(s) - i) PROVE (i + 1) + k - 1 = i + k
    BY <1>1
  <2> HIDE DEF b
  <2>5. ASSUME NEW k \in 1..(Len(s) - i) PROVE b[k] = s[i + k]
    BY <2>2, <2>3, <2>4
  <2>6. Len(b) = Len(s) - i
    BY <1>1, <2>2
  <2> QED  BY <2>2, <2>5, <2>6
<1> HIDE DEF a, b
<1>4. /\ t \in Seq(S) /\ Len(t) = Len(s) - 1
      /\ \A k \in 1..(Len(s) - 1) : t[k] = IF k < i THEN s[k] ELSE s[k + 1]
  <2>1. /\ t \in Seq(S) /\ Len(t) = Len(a) + Len(b)
        /\ \A k \in 1..(Len(a) + Len(b)) : t[k] = IF k <= Len(a) THEN a[k] ELSE b[k - Len(a)]
    BY <1>2, <1>3, ConcatProperties
  <2> HIDE DEF t
  <2>2. Len(a) + Len(b) = Len(s) - 1
    BY <1>1, <1>2, <1>3
  <2>3. ASSUME NEW k \in 1..(Len(s) - 1), k < i PROVE t[k] = s[k]
    <3>1. k <= Len(a) /\ k \in 1..(i - 1)
      BY <1>1, <1>2, <2>3
    <3> QED  BY <2>1, <2>2, <3>1, <1>2
  <2>4. ASSUME NEW k \in 1..(Len(s) - 1), ~(k < i) PROVE t[k] = s[k + 1]
    <3>1. ~(k <= Len(a)) /\ k - Len(a) \in 1..(Len(s) - i) /\ i + (k - Len(a)) = k + 1
      BY <1>1, <1>2, <2>4
    <3> QED  BY <2>1, <2>2, <3>1, <1>3
  <2> QED  BY <2>1, <2>2, <2>3, <2>4
<1>5. RemoveAt(s, i) = t
  BY DEF RemoveAt, t, a, b
<1> HIDE DEF t
<1>6. DOMAIN t = 1..(Len(s) - 1)
  BY <1>4, LenProperties
<1> QED  BY <1>4, <1>5, <1>6

\* What remains when an element of a sequence without repetition is taken out.
LEMMA RemoveAtRest ==
  ASSUME NEW S, NEW s \in Seq(S), IsInjective(s), NEW i \in DOMAIN s
  PROVE  /\ IsInjective(RemoveAt(s, i))
         /\ \A y : Contains(RemoveAt(s, i), y) <=> Contains(s, y) /\ y # s[i]
<1> DEFINE t == RemoveAt(s, i)
           n == Len(s)
<1>1. n \in Nat /\ DOMAIN s = 1..n /\ i \in 1..n /\ \A j, k \in 1..n : s[j] = s[k] => j = k
  BY LenProperties DEF IsInjective
<1>2. Len(t) = n - 1 /\ DOMAIN t = 1..(n - 1)
      /\ \A k \in 1..(n - 1) : t[k] = IF k < i THEN s[k] ELSE s[k + 1]
  BY RemoveAtIs
<1> HIDE DEF t, n
<1>3. IsInjective(t)
  <2>1. ASSUME NEW j \in 1..(n - 1), NEW k \in 1..(n - 1), t[j] = t[k] PROVE j = k
    <3>1. j \in 1..n /\ k \in 1..n /\ j + 1 \in 1..n /\ k + 1 \in 1..n
      BY <1>1
    <3>2. CASE j < i /\ k < i
      BY <1>1, <1>2, <2>1, <3>1, <3>2
    <3>3. CASE j < i /\ ~(k < i)
      <4>1. j = k + 1
        BY <1>1, <1>2, <2>1, <3>1, <3>3
      <4> QED  BY <1>1, <3>1, <3>3, <4>1
    <3>4. CASE ~(j < i) /\ k < i
      <4>1. j + 1 = k
        BY <1>1, <1>2, <2>1, <3>1, <3>4
      <4> QED  BY <1>1, <3>1, <3>4, <4>1
    <3>5. CASE ~(j < i) /\ ~(k < i)
      <4>1. j + 1 = k + 1
        BY <1>1, <1>2, <2>1, <3>1, <3>5
      <4> QED  BY <1>1, <3>1, <4>1
    <3> QED  BY <3>2, <3>3, <3>4, <3>5
  <2> QED  BY <1>2, <2>1 DEF IsInjective
<1>4. ASSUME NEW y, Contains(t, y) PROVE Contains(s, y) /\ y # s[i]
  <2>1. PICK k \in 1..(n - 1) : t[k] = y
    BY <1>2, <1>4 DEF Contains
  <2>2. k \in 1..n /\ k + 1 \in 1..n
    BY <1>1
  <2>3. CASE k < i
    <3>1. s[k] = y /\ k # i
      BY <1>1, <1>2, <2>1, <2>3, <2>2
    <3> QED  BY <1>1, <2>2, <3>1 DEF Contains, n
  <2>4. CASE ~(k < i)
    <3>1. s[k + 1] = y /\ k + 1 # i
      BY <1>1, <1>2, <2>1, <2>4, <2>2
    <3> QED  BY <1>1, <2>2, <3>1 DEF Contains, n
  <2> QED  BY <2>3, <2>4
<1>5. ASSUME NEW y, Contains(s, y), y # s[i] PROVE Contains(t, y)
  <2>1. PICK k \in 1..n : s[k] = y
    BY <1>5 DEF Contains, n
  <2>2. CASE k < i
    <3>1. k \in 1..(n - 1)
      BY <1>1, <2>2
    <3> QED  BY <1>2, <2>1, <2>2, <3>1 DEF Contains
  <2>3. CASE ~(k < i)
    <3>1. k # i
      BY <1>5, <2>1
    <3>2. k - 1 \in 1..(n - 1) /\ ~(k - 1 < i) /\ (k - 1) + 1 = k
      BY <1>1, <2>3, <3>1
    <3>3. t[k - 1] = y
      BY <1>2, <2>1, <3>2
    <3> QED  BY <1>2, <3>2, <3>3 DEF Contains
  <2> QED  BY <2>2, <2>3
<1> QED  BY <1>3, <1>4, <1>5 DEF t

LEMMA RemoveSound ==
  ASSUME NEW l, NEW m, NEW s \in Seq(Elem), NEW head \in Sentinel, NEW tail \in Sentinel,
         head # tail, Sound(l, head, s, tail), NEW k \in DOMAIN s,
         \A y \in Node :
           /\ m.next[y] = IF y = l.prev[s[k]] THEN l.next[s[k]] ELSE l.next[y]
           /\ m.prev[y] = IF y = l.next[s[k]] THEN l.prev[s[k]] ELSE l.prev[y]
  PROVE  Sound(m, head, RemoveAt(s, k), tail)
<1> DEFINE n == Len(s)
           t == RemoveAt(s, k)
           at(i) == At(head, s, tail, i)
           atT(i) == At(head, t, tail, i)
<1>1. /\ n \in Nat /\ DOMAIN s = 1..n /\ at(0) = head /\ at(n + 1) = tail
      /\ \A i \in 1..n : at(i) = s[i]
      /\ \A i \in 0..(n + 1) : at(i) \in Node
  BY AtFacts
<1>2. /\ IsInjective(s) /\ l.prev[head] = NULL /\ l.next[tail] = NULL
      /\ \A i \in 0..n : l.next[at(i)] = at(i + 1) /\ l.prev[at(i + 1)] = at(i)
      /\ \A i, j \in 0..(n + 1) : at(i) = at(j) => i = j
  BY AtFacts DEF Sound
<1>3. /\ t \in Seq(Elem) /\ Len(t) = n - 1 /\ IsInjective(t)
      /\ \A i \in 1..(n - 1) : t[i] = IF i < k THEN s[i] ELSE s[i + 1]
  BY <1>2, RemoveAtIs, RemoveAtRest
<1>4. atT(0) = head /\ atT(n) = tail /\ \A i \in 1..(n - 1) : atT(i) = t[i]
  <2> HIDE DEF n, t
  <2>1. (n - 1) + 1 = n
    BY <1>1
  <2> QED  BY <1>3, <2>1, AtFacts
<1> HIDE DEF at, atT, t, n
<1>5. k \in 1..n
  BY <1>1
<1>6. \A i \in 0..n : atT(i) = IF i < k THEN at(i) ELSE at(i + 1)
  <2> TAKE i \in 0..n
  <2>1. CASE i = 0
    BY <1>1, <1>4, <1>5, <2>1
  <2>2. CASE i = n
    BY <1>1, <1>4, <1>5, <2>2
  <2>3. CASE i \in 1..(n - 1)
    <3>1. i \in 1..n /\ i + 1 \in 1..n
      BY <1>1, <2>3
    <3> QED  BY <1>1, <1>3, <1>4, <2>3, <3>1
  <2> QED  BY <1>1, <2>1, <2>2, <2>3
<1>7. l.prev[s[k]] = at(k - 1) /\ l.next[s[k]] = at(k + 1)
  <2>1. k \in 0..n /\ k - 1 \in 0..n /\ (k - 1) + 1 = k
    BY <1>1, <1>5
  <2> QED  BY <1>1, <1>2, <1>5, <2>1
<1>8. ASSUME NEW i \in 0..(n + 1)
      PROVE  /\ m.next[at(i)] = IF i = k - 1 THEN at(k + 1) ELSE l.next[at(i)]
             /\ m.prev[at(i)] = IF i = k + 1 THEN at(k - 1) ELSE l.prev[at(i)]
  <2>1. k - 1 \in 0..(n + 1) /\ k + 1 \in 0..(n + 1)
    BY <1>1, <1>5
  <2>2. (at(i) = at(k - 1) <=> i = k - 1) /\ (at(i) = at(k + 1) <=> i = k + 1)
    BY <1>2, <2>1
  <2> QED  BY <1>1, <1>7, <2>2
<1>9. m.prev[head] = NULL /\ m.next[tail] = NULL
  <2>1. 0 \in 0..(n + 1) /\ n + 1 \in 0..(n + 1) /\ 0 # k + 1 /\ n + 1 # k - 1
    BY <1>1, <1>5
  <2> QED  BY <1>1, <1>2, <1>8, <2>1
<1>10. ASSUME NEW i \in 0..(n - 1)
       PROVE  m.next[atT(i)] = atT(i + 1) /\ m.prev[atT(i + 1)] = atT(i)
  <2>1. /\ i \in 0..n /\ i + 1 \in 0..n /\ i \in 0..(n + 1) /\ i + 1 \in 0..(n + 1)
        /\ (i + 1) + 1 \in 0..(n + 1) /\ n - 1 \in Nat
    BY <1>1, <1>5
  <2>2. CASE i + 1 < k
    <3>1. i < k /\ i # k - 1 /\ i + 1 # k + 1
      BY <1>5, <2>2
    <3>2. atT(i) = at(i) /\ atT(i + 1) = at(i + 1)
      BY <1>6, <2>1, <2>2, <3>1
    <3> QED  BY <1>2, <1>8, <2>1, <3>1, <3>2
  <2>3. CASE i + 1 = k
    <3>1. i < k /\ i = k - 1 /\ ~(i + 1 < k) /\ (i + 1) + 1 = k + 1
      BY <1>5, <2>3
    <3>2. atT(i) = at(i) /\ atT(i + 1) = at(k + 1)
      BY <1>6, <2>1, <3>1
    <3> QED  BY <1>8, <2>1, <3>1, <3>2
  <2>4. CASE ~(i < k)
    <3>1. ~(i + 1 < k) /\ i + 1 # k - 1 /\ (i + 1) + 1 # k + 1
      BY <1>5, <2>4
    <3>2. atT(i) = at(i + 1) /\ atT(i + 1) = at((i + 1) + 1)
      BY <1>6, <2>1, <2>4, <3>1
    <3> QED  BY <1>2, <1>8, <2>1, <3>1, <3>2
  <2> QED  BY <1>5, <2>2, <2>3, <2>4
<1> QED
  <2> SUFFICES IsInjective(t) /\ Len(t) = n - 1 /\ m.prev[head] = NULL /\ m.next[tail] = NULL
               /\ \A i \in 0..(n - 1) : m.next[atT(i)] = atT(i + 1) /\ m.prev[atT(i + 1)] = atT(i)
    BY DEF Sound, atT, t
  <2> QED  BY <1>3, <1>9, <1>10

\* The neighbours of everybody in a sound list.
Around(l, head, s, tail, n) ==
  /\ n \in Nat /\ DOMAIN s = 1..n /\ IsInjective(s)
  /\ \A y : Contains(s, y) <=> \E k \in 1..n : s[k] = y
  /\ \A k \in 1..n : s[k] \in Elem
  /\ l.prev[head] = NULL /\ l.next[tail] = NULL
  /\ n = 0 => s = <<>> /\ l.next[head] = tail /\ l.prev[tail] = head
  /\ n # 0 => 1 \in 1..n /\ n \in 1..n /\ l.next[head] = s[1] /\ l.prev[tail] = s[n]
  /\ \A k \in 1..n :
       /\ l.prev[s[k]] = IF k = 1 THEN head ELSE s[k - 1]
       /\ l.next[s[k]] = IF k = n THEN tail ELSE s[k + 1]

LEMMA Neighbours ==
  ASSUME NEW l, NEW s \in Seq(Elem), NEW head \in Sentinel, NEW tail \in Sentinel,
         head # tail, Sound(l, head, s, tail)
  PROVE  Around(l, head, s, tail, Len(s))
<1> DEFINE n == Len(s)
           at(k) == At(head, s, tail, k)
<1>1. /\ n \in Nat /\ DOMAIN s = 1..n /\ at(0) = head /\ at(n + 1) = tail
      /\ \A k \in 1..n : at(k) = s[k] /\ s[k] \in Elem
      /\ s = <<>> <=> n = 0
  BY AtFacts, EmptySeq
<1>2. /\ IsInjective(s) /\ l.prev[head] = NULL /\ l.next[tail] = NULL
      /\ \A k \in 0..n : l.next[at(k)] = at(k + 1) /\ l.prev[at(k + 1)] = at(k)
  BY DEF Sound
<1> HIDE DEF at, n
<1>3. n = 0 => s = <<>> /\ l.next[head] = tail /\ l.prev[tail] = head
  <2> SUFFICES ASSUME n = 0 PROVE l.next[head] = tail /\ l.prev[tail] = head
    BY <1>1
  <2>1. 0 \in 0..n /\ 0 + 1 = n + 1
    BY <1>1
  <2> QED  BY <1>1, <1>2, <2>1
<1>4. n # 0 => 1 \in 1..n /\ n \in 1..n /\ l.next[head] = s[1] /\ l.prev[tail] = s[n]
  <2> SUFFICES ASSUME n # 0 PROVE 1 \in 1..n /\ n \in 1..n /\ l.next[head] = s[1] /\ l.prev[tail] = s[n]
    BY <1>1
  <2>1. 0 \in 0..n /\ n \in 0..n /\ 0 + 1 = 1 /\ 1 \in 1..n /\ n \in 1..n
    BY <1>1
  <2> QED  BY <1>1, <1>2, <2>1
<1>5. ASSUME NEW k \in 1..n
      PROVE  /\ l.prev[s[k]] = IF k = 1 THEN head ELSE s[k - 1]
             /\ l.next[s[k]] = IF k = n THEN tail ELSE s[k + 1]
  <2>1. k \in 0..n /\ k - 1 \in 0..n /\ (k - 1) + 1 = k
    BY <1>1
  <2>2. l.prev[s[k]] = at(k - 1) /\ l.next[s[k]] = at(k + 1)
    BY <1>1, <1>2, <2>1
  <2>3. k # 1 => k - 1 \in 1..n
    BY <1>1
  <2>4. k # n => k + 1 \in 1..n
    BY <1>1
  <2>5. k = 1 => k - 1 = 0
    OBVIOUS
  <2> QED  BY <1>1, <2>2, <2>3, <2>4, <2>5
<1>6. \A y : Contains(s, y) <=> \E k \in 1..n : s[k] = y
  BY DEF Contains, n
<1>7. Around(l, head, s, tail, n)
  BY <1>1, <1>2, <1>3, <1>4, <1>5, <1>6 DEF Around
<1> QED  BY <1>7 DEF n

LEMMA OrderByNext ==
  ASSUME NEW l, NEW m, l.next = m.next
  PROVE  \A head : Order(l, head) = Order(m, head)
BY DEF Order, Traversal

\* A killed job is taken out twice; the second time nothing changes.
LEMMA RemoveTwice ==
  ASSUME NEW l \in Links, NEW x \in Node, l.prev[x] \in Node, l.next[x] \in Node,
         l.prev[x] # x, l.next[x] # x
  PROVE  LET m == list_remove(l, x) IN
         /\ m.prev[x] = l.prev[x] /\ m.next[x] = l.next[x]
         /\ list_remove(m, x) = m
<1> DEFINE m == list_remove(l, x)
<1>1. /\ m \in Links
      /\ \A y \in Node : /\ m.next[y] = IF y = l.prev[x] THEN l.next[x] ELSE l.next[y]
                         /\ m.prev[y] = IF y = l.next[x] THEN l.prev[x] ELSE l.prev[y]
  BY RemoveLinks
<1> HIDE DEF m
<1>2. m.prev[x] = l.prev[x] /\ m.next[x] = l.next[x]
  BY <1>1
<1>3. m.next[l.prev[x]] = l.next[x] /\ m.prev[l.next[x]] = l.prev[x]
  BY <1>1
<1>4. m.next \in [Node -> Node \cup {NULL}] /\ m.prev \in [Node -> Node \cup {NULL}]
      /\ m = [next |-> m.next, prev |-> m.prev]
  BY <1>1 DEF Links
<1>5. [m.next EXCEPT ![m.prev[x]] = m.next[x]] = m.next
  BY <1>2, <1>3, <1>4
<1>6. [m.prev EXCEPT ![m.next[x]] = m.prev[x]] = m.prev
  BY <1>2, <1>3, <1>4
<1> QED  BY <1>2, <1>4, <1>5, <1>6 DEF list_remove, m

\* The element at j is moved to the place before the one at i.
Moved(s, i, j) ==
  [k \in 1..Len(s) |-> IF k < i \/ k > j THEN s[k] ELSE IF k = i THEN s[j] ELSE s[k - 1]]

LEMMA MovedIs ==
  ASSUME NEW S, NEW s \in Seq(S), NEW i \in DOMAIN s, NEW j \in DOMAIN s, i < j
  PROVE  LET t == Moved(s, i, j) IN
         /\ t \in Seq(S) /\ Len(t) = Len(s) /\ DOMAIN t = 1..Len(s)
         /\ \A k \in 1..Len(s) :
              t[k] = IF k < i \/ k > j THEN s[k] ELSE IF k = i THEN s[j] ELSE s[k - 1]
         /\ IsInjective(s) => IsInjective(t)
         /\ \A y : Contains(t, y) <=> Contains(s, y)
<1> DEFINE n == Len(s)
           t == Moved(s, i, j)
           from(k) == IF k < i \/ k > j THEN k ELSE IF k = i THEN j ELSE k - 1
           to(k) == IF k < i \/ k > j THEN k ELSE IF k = j THEN i ELSE k + 1
<1>1. n \in Nat /\ DOMAIN s = 1..n /\ \A k \in 1..n : s[k] \in S
  BY LenProperties, ElementOfSeq
<1>2. i \in 1..n /\ j \in 1..n
  BY <1>1
<1> HIDE DEF n
<1>3. \A k \in 1..n : from(k) \in 1..n /\ to(k) \in 1..n /\ from(to(k)) = k /\ to(from(k)) = k
  BY <1>1, <1>2
<1>4. t = [k \in 1..n |-> s[from(k)]]
  BY <1>1, <1>2 DEF Moved, n
<1> HIDE DEF t, from, to
<1>5. t \in [1..n -> S]
  BY <1>1, <1>3, <1>4
<1>6. t \in Seq(S) /\ Len(t) = n /\ DOMAIN t = 1..n
  <2>1. t \in Seq(S)
    BY <1>1, <1>5
  <2> QED  BY <2>1, <1>1, <1>5, LenProperties
<1>7. \A k \in 1..n : t[k] = s[from(k)]
  BY <1>4
<1>8. \A k \in 1..n :
        t[k] = IF k < i \/ k > j THEN s[k] ELSE IF k = i THEN s[j] ELSE s[k - 1]
  BY <1>7 DEF from
<1>9. ASSUME IsInjective(s)  PROVE  IsInjective(t)
  <2>1. \A a, b \in 1..n : s[a] = s[b] => a = b
    BY <1>1, <1>9 DEF IsInjective
  <2>2. ASSUME NEW a \in 1..n, NEW b \in 1..n, t[a] = t[b]  PROVE  a = b
    <3>1. from(a) = from(b)
      BY <1>3, <1>7, <2>1, <2>2
    <3> QED  BY <1>3, <3>1
  <2> QED  BY <1>6, <2>2 DEF IsInjective
<1>10. ASSUME NEW y  PROVE  Contains(t, y) <=> Contains(s, y)
  <2>1. Contains(t, y) <=> \E k \in 1..n : t[k] = y
    BY <1>6 DEF Contains
  <2>2. Contains(s, y) <=> \E k \in 1..n : s[k] = y
    BY <1>1 DEF Contains
  <2>3. ASSUME NEW k \in 1..n, t[k] = y  PROVE  \E q \in 1..n : s[q] = y
    BY <1>3, <1>7, <2>3
  <2>4. ASSUME NEW k \in 1..n, s[k] = y  PROVE  \E q \in 1..n : t[q] = y
    <3>1. to(k) \in 1..n /\ t[to(k)] = s[k]
      BY <1>3, <1>7
    <3> QED  BY <2>4, <3>1
  <2> QED  BY <2>1, <2>2, <2>3, <2>4
<1> QED  BY <1>6, <1>8, <1>9, <1>10 DEF t, n

\* The links of m are those of l but for x, in front of a in l, being in front of b.
Spliced(l, m, b, x, a) ==
  \A y \in Node :
    /\ m.next[y] = IF y = l.prev[b] THEN x ELSE IF y = x THEN b
                   ELSE IF y = l.prev[x] THEN a ELSE l.next[y]
    /\ m.prev[y] = IF y = b THEN x ELSE IF y = x THEN l.prev[b]
                   ELSE IF y = a THEN l.prev[x] ELSE l.prev[y]

\* list_splice of one element to a place further in front.
LEMMA SpliceLinks ==
  ASSUME NEW l \in Links, NEW b \in Node, NEW x \in Node, NEW a \in Node,
         l.prev[a] = x, l.prev[x] \in Node, l.prev[b] \in Node,
         b # x, b # a, x # a
  PROVE  list_splice(l, b, x, a) \in Links /\ Spliced(l, list_splice(l, b, x, a), b, x, a)
<1> DEFINE out == [next |-> [l.next EXCEPT ![l.prev[x]] = a],
                   prev |-> [l.prev EXCEPT ![a] = l.prev[x]]]
           m == list_splice(l, b, x, a)
<1>1. l.next \in [Node -> Node \cup {NULL}] /\ l.prev \in [Node -> Node \cup {NULL}]
  BY DEF Links
<1>2. out.next = [l.next EXCEPT ![l.prev[x]] = a] /\ out.prev = [l.prev EXCEPT ![a] = l.prev[x]]
  OBVIOUS
<1>3. m = [next |-> [out.next EXCEPT ![x] = b, ![out.prev[b]] = x],
           prev |-> [out.prev EXCEPT ![x] = out.prev[b], ![b] = x]]
  BY DEF list_splice
<1> HIDE DEF out, m
<1>4. /\ out.next \in [Node -> Node \cup {NULL}] /\ out.prev \in [Node -> Node \cup {NULL}]
      /\ \A y \in Node : out.next[y] = IF y = l.prev[x] THEN a ELSE l.next[y]
      /\ \A y \in Node : out.prev[y] = IF y = a THEN l.prev[x] ELSE l.prev[y]
  BY <1>1, <1>2
<1>5. out.prev[b] = l.prev[b]
  BY <1>4
<1>6. /\ m.next = [out.next EXCEPT ![x] = b, ![l.prev[b]] = x]
      /\ m.prev = [out.prev EXCEPT ![x] = l.prev[b], ![b] = x]
  BY <1>3, <1>5
<1>7. m \in Links
  BY <1>3, <1>4, <1>5 DEF Links
<1>8. \A y \in Node : m.next[y] = IF y = l.prev[b] THEN x ELSE IF y = x THEN b ELSE out.next[y]
  BY <1>4, <1>6
<1>9. \A y \in Node : m.prev[y] = IF y = b THEN x ELSE IF y = x THEN l.prev[b] ELSE out.prev[y]
  BY <1>4, <1>6
<1> QED  BY <1>4, <1>7, <1>8, <1>9 DEF m, Spliced

LEMMA SpliceSound ==
  ASSUME NEW l, NEW m, NEW s \in Seq(Elem), NEW head \in Sentinel, NEW tail \in Sentinel,
         head # tail, Sound(l, head, s, tail),
         NEW i \in DOMAIN s, NEW j \in DOMAIN s, i < j,
         Spliced(l, m, s[i], s[j], l.next[s[j]])
  PROVE  Sound(m, head, Moved(s, i, j), tail)
<1> DEFINE n == Len(s)
           a == l.next[s[j]]
           t == Moved(s, i, j)
           at(k) == At(head, s, tail, k)
           atT(k) == At(head, t, tail, k)
<1>1. /\ n \in Nat /\ DOMAIN s = 1..n /\ at(0) = head /\ at(n + 1) = tail
      /\ \A k \in 1..n : at(k) = s[k]
      /\ \A k \in 0..(n + 1) : at(k) \in Node
  BY AtFacts
<1>2. /\ IsInjective(s) /\ l.prev[head] = NULL /\ l.next[tail] = NULL
      /\ \A k \in 0..n : l.next[at(k)] = at(k + 1) /\ l.prev[at(k + 1)] = at(k)
      /\ \A p, q \in 0..(n + 1) : at(p) = at(q) => p = q
  BY AtFacts DEF Sound
<1>3. /\ t \in Seq(Elem) /\ Len(t) = n /\ IsInjective(t)
      /\ \A k \in 1..n : t[k] = IF k < i \/ k > j THEN s[k] ELSE IF k = i THEN s[j] ELSE s[k - 1]
  BY <1>2, MovedIs
<1>4. /\ DOMAIN t = 1..n /\ atT(0) = head /\ atT(n + 1) = tail
      /\ \A k \in 1..n : atT(k) = t[k]
  <2> HIDE DEF t, n
  <2> QED  BY <1>3, AtFacts
<1>5. i \in 1..n /\ j \in 1..n
  BY <1>1
<1> HIDE DEF at, atT, t, n, a
<1>6. \A k \in 0..(n + 1) :
        atT(k) = IF k < i \/ k > j THEN at(k) ELSE IF k = i THEN at(j) ELSE at(k - 1)
  <2>1. \A k \in 0..(n + 1) : k = 0 \/ k = n + 1 \/ k \in 1..n
    BY <1>1
  <2>2. \A k \in 1..n : ~(k < i) /\ k # i => k - 1 \in 1..n
    BY <1>1, <1>5
  <2> QED  BY <1>1, <1>3, <1>4, <1>5, <2>1, <2>2
<1>7. /\ l.prev[s[i]] = at(i - 1) /\ l.prev[s[j]] = at(j - 1) /\ a = at(j + 1)
      /\ s[i] = at(i) /\ s[j] = at(j)
  <2>1. i - 1 \in 0..n /\ j - 1 \in 0..n /\ j \in 0..n /\ (i - 1) + 1 = i /\ (j - 1) + 1 = j
    BY <1>1, <1>5
  <2>2. s[i] = at(i) /\ s[j] = at(j)
    BY <1>1, <1>5
  <2>3. l.prev[at((i - 1) + 1)] = at(i - 1) /\ l.prev[at((j - 1) + 1)] = at(j - 1)
    BY <1>2, <2>1
  <2> QED  BY <1>2, <2>1, <2>2, <2>3 DEF a
<1>8. \A p, q \in 0..(n + 1) : p # q => at(p) # at(q)
  BY <1>2
<1>9. /\ 0 <= i - 1 /\ i - 1 \in 0..(n + 1) /\ i \in 0..(n + 1) /\ j - 1 \in 0..(n + 1)
      /\ j \in 0..(n + 1) /\ j + 1 \in 0..(n + 1)
  BY <1>1, <1>5
<1>10. ASSUME NEW k \in 0..(n + 1)
       PROVE  /\ m.next[at(k)] = IF k = i - 1 THEN at(j) ELSE IF k = j THEN at(i)
                                 ELSE IF k = j - 1 THEN at(j + 1) ELSE l.next[at(k)]
              /\ m.prev[at(k)] = IF k = i THEN at(j) ELSE IF k = j THEN at(i - 1)
                                 ELSE IF k = j + 1 THEN at(j - 1) ELSE l.prev[at(k)]
  <2>1. at(k) \in Node
    BY <1>1
  <2>2. /\ at(k) = at(i - 1) <=> k = i - 1
        /\ at(k) = at(i) <=> k = i
        /\ at(k) = at(j) <=> k = j
        /\ at(k) = at(j - 1) <=> k = j - 1
        /\ at(k) = at(j + 1) <=> k = j + 1
    BY <1>8, <1>9
  <2> QED  BY <1>7, <2>1, <2>2 DEF Spliced, a
<1>11. m.prev[head] = NULL /\ m.next[tail] = NULL
  <2>1. 0 \in 0..(n + 1) /\ n + 1 \in 0..(n + 1)
    BY <1>1
  <2>2. 0 # i /\ 0 # j /\ 0 # j + 1 /\ n + 1 # i - 1 /\ n + 1 # j /\ n + 1 # j - 1
    BY <1>1, <1>5
  <2>3. m.prev[at(0)] = l.prev[at(0)] /\ m.next[at(n + 1)] = l.next[at(n + 1)]
    BY <1>10, <2>1, <2>2
  <2> QED  BY <1>1, <1>2, <2>3
<1>12. ASSUME NEW k \in 0..n
       PROVE  m.next[atT(k)] = atT(k + 1) /\ m.prev[atT(k + 1)] = atT(k)
  <2>1. k \in 0..(n + 1) /\ k + 1 \in 0..(n + 1) /\ k \in Int /\ i \in Int /\ j \in Int
    BY <1>1, <1>5
  <2>2. l.next[at(k)] = at(k + 1) /\ l.prev[at(k + 1)] = at(k)
    BY <1>2
  <2>3. CASE k < i - 1 \/ k > j
    <3>1. /\ k < i \/ k > j
          /\ k + 1 < i \/ k + 1 > j
          /\ k # i - 1 /\ k # j /\ k # j - 1 /\ k + 1 # i /\ k + 1 # j /\ k + 1 # j + 1
      BY <2>1, <2>3
    <3>2. atT(k) = at(k) /\ atT(k + 1) = at(k + 1)
      BY <1>6, <2>1, <3>1
    <3> QED  BY <1>10, <2>1, <2>2, <3>1, <3>2
  <2>4. CASE k = i - 1
    <3>1. k < i /\ k + 1 = i /\ ~(i < i) /\ ~(i > j) /\ j # i - 1 /\ j # i
      BY <2>1, <2>4
    <3>2. atT(k) = at(i - 1) /\ atT(k + 1) = at(j)
      BY <1>6, <2>1, <2>4, <3>1
    <3>3. m.next[at(i - 1)] = at(j) /\ m.prev[at(j)] = at(i - 1)
      BY <1>9, <1>10, <3>1
    <3> QED  BY <3>2, <3>3
  <2>5. CASE k = i
    <3>1. /\ ~(k < i) /\ ~(k > j) /\ ~(k + 1 < i) /\ ~(k + 1 > j) /\ k + 1 # i /\ (k + 1) - 1 = i
          /\ j # i - 1
      BY <2>1, <2>5
    <3>2. atT(k) = at(j) /\ atT(k + 1) = at(i)
      BY <1>6, <2>1, <2>5, <3>1
    <3>3. m.next[at(j)] = at(i) /\ m.prev[at(i)] = at(j)
      BY <1>9, <1>10, <3>1
    <3> QED  BY <3>2, <3>3
  <2>6. CASE i < k /\ k < j
    <3>1. /\ ~(k < i) /\ ~(k > j) /\ k # i /\ ~(k + 1 < i) /\ ~(k + 1 > j) /\ k + 1 # i
          /\ (k + 1) - 1 = k
          /\ k - 1 \in 0..n /\ k - 1 \in 0..(n + 1) /\ (k - 1) + 1 = k
          /\ k - 1 # i - 1 /\ k - 1 # j /\ k - 1 # j - 1 /\ k # j /\ k # j + 1
      BY <2>1, <2>6, <1>1, <1>5
    <3>2. atT(k) = at(k - 1) /\ atT(k + 1) = at(k)
      BY <1>6, <2>1, <3>1
    <3>3. l.next[at(k - 1)] = at((k - 1) + 1) /\ l.prev[at((k - 1) + 1)] = at(k - 1)
      BY <1>2, <3>1
    <3>4. m.next[at(k - 1)] = l.next[at(k - 1)] /\ m.prev[at(k)] = l.prev[at(k)]
      BY <1>10, <2>1, <3>1
    <3> QED  BY <3>1, <3>2, <3>3, <3>4
  <2>7. CASE k = j
    <3>1. /\ ~(k < i) /\ ~(k > j) /\ k # i /\ k + 1 > j /\ j - 1 # i - 1 /\ j - 1 # j
          /\ j + 1 # i /\ j + 1 # j
      BY <2>1, <2>7
    <3>2. atT(k) = at(j - 1) /\ atT(k + 1) = at(j + 1)
      BY <1>6, <2>1, <2>7, <3>1
    <3>3. m.next[at(j - 1)] = at(j + 1) /\ m.prev[at(j + 1)] = at(j - 1)
      BY <1>9, <1>10, <3>1
    <3> QED  BY <3>2, <3>3
  <2> QED  BY <2>1, <2>3, <2>4, <2>5, <2>6, <2>7
<1> QED
  <2> SUFFICES IsInjective(t) /\ Len(t) = n /\ m.prev[head] = NULL /\ m.next[tail] = NULL
               /\ \A k \in 0..n : m.next[atT(k)] = atT(k + 1) /\ m.prev[atT(k + 1)] = atT(k)
    BY DEF Sound, atT, t
  <2> QED  BY <1>3, <1>11, <1>12
=============================================================================
