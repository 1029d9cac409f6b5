-------------------------- MODULE EshPlugins_proofs --------------------------
(***************************************************************************)
(* Proofs about EshPlugins, for any number of plug-ins and any ranks.      *)
(***************************************************************************)
EXTENDS EshPlugins, List_proofs

LEMMA Nodes ==
  /\ Elem = Plugin /\ head \in Sentinel /\ tail \in Sentinel /\ head # tail
  /\ Plugin \cap Sentinel = {} /\ Plugin \subseteq Node /\ Sentinel \subseteq Node
  /\ NULL \notin Node /\ IsFiniteSet(Plugin) /\ MaxRank \in Nat
  /\ head \notin Plugin /\ tail \notin Plugin /\ head \in Node /\ tail \in Node
BY PluginAssumption, NodeAssumption DEF Node

-----------------------------------------------------------------------------
(***************************************************************************)
(* The places of the list.                                                 *)
(***************************************************************************)

\* The list has n plug-ins, one at each place before the tail's.
OnLine(n) ==
  /\ n \in Nat /\ n = Len(esh_plugin_list) /\ esh_plugin_list \in Seq(Plugin)
  /\ DOMAIN esh_plugin_list = 1..n /\ DOMAIN Line = 1..(n + 1) /\ Line[n + 1] = tail
  /\ \A k \in 1..n : /\ Line[k] = esh_plugin_list[k] /\ Line[k] \in Plugin /\ Line[k] # tail
                     /\ rank[Line[k]] \in Nat
  /\ \A k \in 1..(n + 1) : Line[k] \in Node
  /\ \A a, b \in 1..(n + 1) : Line[a] = Line[b] => a = b

Linking(n) ==
  /\ Sound(l, head, esh_plugin_list, tail)
  /\ l.next[head] = Line[1] /\ l.prev[Line[1]] = head
  /\ \A k \in 1..n : l.next[Line[k]] = Line[k + 1] /\ l.prev[Line[k + 1]] = Line[k]
  /\ \A k \in 1..(n + 1) : l.prev[Line[k]] \in Node

LEMMA LineOf ==
  ASSUME NEW s \in Seq(Plugin), IsInjective(s), NEW t, t = Append(s, tail)
  PROVE  /\ Len(s) \in Nat /\ DOMAIN s = 1..Len(s) /\ DOMAIN t = 1..(Len(s) + 1)
         /\ t[Len(s) + 1] = tail
         /\ \A k \in 1..Len(s) : t[k] = s[k] /\ t[k] \in Plugin /\ t[k] # tail
         /\ \A k \in 1..(Len(s) + 1) : t[k] \in Node
         /\ \A a, b \in 1..(Len(s) + 1) : t[a] = t[b] => a = b
<1> DEFINE n == Len(s)
<1>1. s \in Seq(Node)
  BY Nodes, SeqMonotonic
<1>2. /\ n \in Nat /\ DOMAIN s = 1..n /\ DOMAIN t = 1..(n + 1) /\ t[n + 1] = tail
      /\ \A k \in 1..n : t[k] = s[k]
  BY <1>1, Nodes, Appended
<1>3. \A k \in 1..n : s[k] \in Plugin
  BY ElementOfSeq
<1> HIDE DEF n
<1>4. \A k \in 1..n : t[k] \in Plugin /\ t[k] # tail
  BY <1>2, <1>3, Nodes
<1>5. \A k \in 1..(n + 1) : k \in 1..n \/ k = n + 1
  BY <1>2
<1>6. \A k \in 1..(n + 1) : t[k] \in Node
  BY <1>2, <1>4, <1>5, Nodes
<1>7. \A a, b \in 1..(n + 1) : t[a] = t[b] => a = b
  BY <1>2, <1>4, <1>5 DEF IsInjective
<1> QED  BY <1>2, <1>4, <1>6, <1>7 DEF n

LEMMA LineNow ==
  ASSUME TypeOK, esh_plugin_list \in Seq(Plugin), IsList(l, head, tail)
  PROVE  OnLine(Len(esh_plugin_list)) /\ Linking(Len(esh_plugin_list))
<1> DEFINE s == esh_plugin_list
           n == Len(s)
<1>1. Sound(l, head, s, tail)
  BY Nodes, ListIsSound DEF esh_plugin_list
<1>2. Around(l, head, s, tail, n)
  BY <1>1, Nodes, Neighbours
<1>3. IsInjective(s) /\ Line = Append(s, tail)
  BY <1>1 DEF Sound, Line
<1>4. rank \in [Plugin -> 0..MaxRank]
  BY DEF TypeOK
<1> HIDE DEF s
<1>5. /\ n \in Nat /\ DOMAIN s = 1..n /\ DOMAIN Line = 1..(n + 1) /\ Line[n + 1] = tail
      /\ \A k \in 1..n : Line[k] = s[k] /\ Line[k] \in Plugin /\ Line[k] # tail
      /\ \A k \in 1..(n + 1) : Line[k] \in Node
      /\ \A a, b \in 1..(n + 1) : Line[a] = Line[b] => a = b
  BY <1>3, LineOf DEF s
<1> HIDE DEF n
<1>6. \A k \in 1..n : rank[Line[k]] \in Nat
  BY <1>4, <1>5, Nodes
<1>7. /\ l.next[head] = Line[1] /\ l.prev[Line[1]] = head
  <2>1. CASE n = 0
    BY <1>2, <1>5, <2>1 DEF Around
  <2>2. CASE n # 0
    BY <1>2, <1>5, <2>2 DEF Around
  <2> QED  BY <2>1, <2>2
<1>8. ASSUME NEW k \in 1..n
      PROVE  l.next[Line[k]] = Line[k + 1] /\ l.prev[Line[k + 1]] = Line[k]
  <2>1. l.next[s[k]] = IF k = n THEN tail ELSE s[k + 1]
    BY <1>2 DEF Around
  <2>2. CASE k = n
    <3>1. l.prev[tail] = s[n]
      BY <1>2, <1>5, <2>2 DEF Around
    <3> QED  BY <1>5, <2>1, <2>2, <3>1
  <2>3. CASE k # n
    <3>1. k + 1 \in 1..n /\ k + 1 # 1 /\ (k + 1) - 1 = k
      BY <1>5, <2>3
    <3>2. l.prev[s[k + 1]] = s[(k + 1) - 1]
      BY <1>2, <3>1 DEF Around
    <3> QED  BY <1>5, <2>1, <2>3, <3>1, <3>2
  <2> QED  BY <2>2, <2>3
<1>9. \A k \in 1..(n + 1) : l.prev[Line[k]] \in Node
  <2>1. \A k \in 1..(n + 1) : k = 1 \/ (k - 1 \in 1..n /\ (k - 1) + 1 = k)
    BY <1>5
  <2>2. ASSUME NEW k \in 1..n  PROVE  l.prev[Line[k + 1]] \in Node
    BY <1>5, <1>8, Nodes
  <2>3. ASSUME NEW k \in 1..(n + 1), k # 1  PROVE  l.prev[Line[k]] \in Node
    BY <2>1, <2>2, <2>3
  <2> QED  BY <1>7, <2>3, Nodes
<1> QED  BY <1>1, <1>5, <1>6, <1>7, <1>8, <1>9 DEF OnLine, Linking, s, n

-----------------------------------------------------------------------------
(***************************************************************************)
(* Runs.                                                                   *)
(***************************************************************************)

LEMMA DropsFacts ==
  ASSUME NEW a \in Int, NEW b \in Int
  PROVE  /\ Drops(a, b) \subseteq a..b
         /\ IsFiniteSet(Drops(a, b)) /\ Cardinality(Drops(a, b)) \in Nat
<1>1. Drops(a, b) \subseteq a..b
  BY DEF Drops
<1> QED  BY <1>1, FS_Interval, FS_Subset, FS_CardinalityType

LEMMA OneMore ==
  ASSUME NEW S, IsFiniteSet(S), NEW x, NEW T, T \subseteq S \cup {x}
  PROVE  Cardinality(S) \in Nat /\ Cardinality(T) \in Nat /\ Cardinality(T) <= Cardinality(S) + 1
<1>1. /\ IsFiniteSet(S \cup {x}) /\ Cardinality(S) \in Nat
      /\ Cardinality(S \cup {x}) = IF x \in S THEN Cardinality(S) ELSE Cardinality(S) + 1
  BY FS_AddElement, FS_CardinalityType
<1>2. IsFiniteSet(T) /\ Cardinality(T) <= Cardinality(S \cup {x})
  BY <1>1, FS_Subset
<1>3. Cardinality(T) \in Nat
  BY <1>2, FS_CardinalityType
<1> QED  BY <1>1, <1>2, <1>3

\* It is enough to compare neighbours.
LEMMA Adjacent ==
  ASSUME NEW n, OnLine(n), NEW a \in 1..(n + 1), NEW b \in 0..n, Drops(a + 1, b) = {}
  PROVE  Sorted(a, b)
<1>0. n \in Nat
  BY DEF OnLine
<1>1. \A k \in 1..n : rank[Line[k]] \in Nat
  BY DEF OnLine
<1>2. \A k \in (a + 1)..b : ~(rank[Line[k]] < rank[Line[k - 1]])
  BY DEF Drops, less
<1>3. \A p \in a..b : p \in 1..n
  BY <1>0
<1>4. SUFFICES ASSUME NEW p \in a..b, NEW q \in a..b, p < q,
                      ~(rank[Line[p]] <= rank[Line[q]])
               PROVE  FALSE
  BY DEF Sorted
<1> DEFINE wrong == {k \in a..b : p < k /\ ~(rank[Line[p]] <= rank[Line[k]])}
<1>5. wrong \in SUBSET Nat /\ wrong # {}
  BY <1>0, <1>4
<1>6. PICK k \in wrong : \A m \in wrong : k <= m
  BY <1>5, LeastElement
<1>7. k \in a..b /\ p < k /\ ~(rank[Line[p]] <= rank[Line[k]])
  BY <1>6
<1>8. k - 1 \in a..b /\ k \in (a + 1)..b /\ k - 1 \notin wrong
  BY <1>0, <1>6, <1>7
<1>9. k - 1 = p \/ rank[Line[p]] <= rank[Line[k - 1]]
  BY <1>7, <1>8
<1>10. rank[Line[p]] \in Nat /\ rank[Line[k]] \in Nat /\ rank[Line[k - 1]] \in Nat
  BY <1>1, <1>3, <1>7, <1>8
<1>11. ~(rank[Line[k]] < rank[Line[k - 1]])
  BY <1>2, <1>8
<1> HIDE DEF wrong
<1>12. rank[Line[p]] <= rank[Line[k - 1]]
  BY <1>9, <1>10
<1> QED  BY <1>7, <1>10, <1>11, <1>12

LEMMA NoDrops ==
  ASSUME NEW n, OnLine(n), NEW a \in 1..(n + 1), NEW b \in 0..n, Sorted(a, b)
  PROVE  Drops(a + 1, b) = {}
<1>1. n \in Nat /\ \A k \in 1..n : rank[Line[k]] \in Nat
  BY DEF OnLine
<1>2. ASSUME NEW k \in (a + 1)..b  PROVE  ~less(Line[k], Line[k - 1])
  <2>1. k \in a..b /\ k - 1 \in a..b /\ k - 1 < k /\ k \in 1..n /\ k - 1 \in 1..n
    BY <1>1
  <2>2. rank[Line[k - 1]] <= rank[Line[k]]
    BY <2>1 DEF Sorted
  <2> QED  BY <1>1, <2>1, <2>2 DEF less
<1> QED  BY <1>2 DEF Drops

LEMMA InOrderIs ==
  ASSUME NEW n, OnLine(n)
  PROVE  InOrder(esh_plugin_list) <=> Drops(2, n) = {}
<1>1. /\ n \in Nat /\ n = Len(esh_plugin_list)
      /\ \A k \in 1..n : Line[k] = esh_plugin_list[k]
  BY DEF OnLine
<1>2. ASSUME NEW k \in 2..n, InOrder(esh_plugin_list)  PROVE  ~less(Line[k], Line[k - 1])
  <2>1. k - 1 \in 1..(n - 1) /\ (k - 1) + 1 = k /\ k - 1 \in 1..n /\ k \in 1..n
    BY <1>1
  <2>2. ~less(esh_plugin_list[(k - 1) + 1], esh_plugin_list[k - 1])
    BY <1>1, <1>2, <2>1 DEF InOrder
  <2> QED  BY <1>1, <2>1, <2>2
<1>3. ASSUME NEW k \in 1..(n - 1), Drops(2, n) = {}
      PROVE  ~less(esh_plugin_list[k + 1], esh_plugin_list[k])
  <2>1. k + 1 \in 2..n /\ (k + 1) - 1 = k /\ k + 1 \in 1..n /\ k \in 1..n
    BY <1>1
  <2>2. ~less(Line[k + 1], Line[(k + 1) - 1])
    BY <1>3, <2>1 DEF Drops
  <2> QED  BY <1>1, <2>1, <2>2
<1> QED  BY <1>1, <1>2, <1>3 DEF InOrder, Drops

\* A list in order is one run.
LEMMA OneRun ==
  ASSUME NEW n, OnLine(n), InOrder(esh_plugin_list)
  PROVE  Sorted(1, n)
<1>1. n \in Nat /\ 1 \in 1..(n + 1) /\ n \in 0..n /\ 1 + 1 = 2
  BY DEF OnLine
<1>2. Drops(1 + 1, n) = {}
  BY <1>1, InOrderIs
<1> QED  BY <1>1, <1>2, Adjacent

LEMMA RunsIs ==
  ASSUME NEW n, OnLine(n)
  PROVE  Runs(esh_plugin_list) = IF n = 0 THEN 0 ELSE 1 + Cardinality(Drops(2, n))
<1>1. /\ n \in Nat /\ n = Len(esh_plugin_list) /\ esh_plugin_list \in Seq(Plugin)
      /\ \A k \in 1..n : Line[k] = esh_plugin_list[k]
  BY DEF OnLine
<1>2. esh_plugin_list = <<>> <=> n = 0
  BY <1>1, EmptySeq
<1>3. {k \in 2..n : less(esh_plugin_list[k], esh_plugin_list[k - 1])} = Drops(2, n)
  <2>1. \A k \in 2..n : k \in 1..n /\ k - 1 \in 1..n
    BY <1>1
  <2>2. \A k \in 2..n : Line[k] = esh_plugin_list[k] /\ Line[k - 1] = esh_plugin_list[k - 1]
    BY <1>1, <2>1
  <2> QED  BY <2>2 DEF Drops
<1> QED  BY <1>1, <1>2, <1>3 DEF Runs

-----------------------------------------------------------------------------
(***************************************************************************)
(* What find_end_of_run and is_sorted return.                              *)
(***************************************************************************)

LEMMA BetweenIs ==
  ASSUME NEW n, OnLine(n), NEW i \in 1..(n + 1), NEW j \in 1..(n + 1), i <= j
  PROVE  /\ Len(Between(Line[i], Line[j])) = j - i
         /\ \A k \in 1..(j - i) : Between(Line[i], Line[j])[k] = Line[i + k - 1]
<1> DEFINE s == esh_plugin_list
           at(x) == IF x = tail THEN Len(s) + 1 ELSE CHOOSE k \in DOMAIN s : s[k] = x
<1>1. /\ n \in Nat /\ n = Len(s) /\ DOMAIN s = 1..n /\ Line[n + 1] = tail
      /\ \A k \in 1..n : Line[k] = s[k] /\ Line[k] # tail /\ Line[k] \in Plugin
      /\ \A a, b \in 1..(n + 1) : Line[a] = Line[b] => a = b
  BY DEF OnLine
<1> HIDE DEF s
<1>2. ASSUME NEW k \in 1..(n + 1)  PROVE  at(Line[k]) = k
  <2>1. CASE k = n + 1
    BY <1>1, <2>1
  <2>2. CASE k # n + 1
    <3>1. k \in 1..n
      BY <1>1, <2>2
    <3>2. \A q \in DOMAIN s : s[q] = Line[k] => q = k
      BY <1>1, <3>1
    <3>3. (CHOOSE q \in DOMAIN s : s[q] = Line[k]) = k
      BY <1>1, <3>1, <3>2
    <3> QED  BY <1>1, <3>1, <3>3
  <2> QED  BY <2>1, <2>2
<1>3. Between(Line[i], Line[j]) = SubSeq(s, at(Line[i]), at(Line[j]) - 1)
  BY DEF Between, s
<1> HIDE DEF at
<1>4. Between(Line[i], Line[j]) = SubSeq(s, i, j - 1)
  BY <1>2, <1>3
<1>5. \A k \in i..(j - 1) : k \in 1..n
  BY <1>1
<1>6. \A k \in i..(j - 1) : s[k] \in Plugin
  BY <1>1, <1>5
<1>7. /\ Len(SubSeq(s, i, j - 1)) = IF i <= j - 1 THEN (j - 1) - i + 1 ELSE 0
      /\ \A k \in 1..((j - 1) - i + 1) : SubSeq(s, i, j - 1)[k] = s[i + k - 1]
  <2>1. i \in Int /\ j - 1 \in Int
    BY <1>1
  <2> QED  BY <1>6, <2>1, SubSeqProperties
<1>8. (j - 1) - i + 1 = j - i /\ (i <= j - 1 \/ j - i = 0)
  BY <1>1
<1>9. \A k \in 1..(j - i) : i + k - 1 \in 1..n
  BY <1>1
<1> QED  BY <1>1, <1>4, <1>7, <1>8, <1>9

LEMMA SortedIs ==
  ASSUME NEW n, OnLine(n), NEW i \in 1..(n + 1), NEW j \in 1..(n + 1), i <= j, Sorted(i, j - 1)
  PROVE  is_sorted(Line[i], Line[j])
<1> DEFINE b == Between(Line[i], Line[j])
<1>1. n \in Nat /\ \A k \in 1..n : rank[Line[k]] \in Nat
  BY DEF OnLine
<1>2. Len(b) = j - i /\ \A k \in 1..(j - i) : b[k] = Line[i + k - 1]
  BY BetweenIs
<1> HIDE DEF b
<1>3. ASSUME NEW k \in 1..(Len(b) - 1)  PROVE  ~less(b[k + 1], b[k])
  <2>1. /\ k \in 1..(j - i) /\ k + 1 \in 1..(j - i) /\ i + (k + 1) - 1 = i + k
        /\ i + k \in i..(j - 1) /\ i + k - 1 \in i..(j - 1) /\ i + k - 1 < i + k
        /\ i + k \in 1..n /\ i + k - 1 \in 1..n
    BY <1>1, <1>2
  <2>2. b[k] = Line[i + k - 1] /\ b[k + 1] = Line[i + k]
    BY <1>2, <2>1
  <2>3. rank[Line[i + k - 1]] <= rank[Line[i + k]]
    BY <2>1 DEF Sorted
  <2> QED  BY <1>1, <2>1, <2>2, <2>3 DEF less
<1> QED  BY <1>3 DEF is_sorted, InOrder, b

\* The run that begins at place i ends at a place behind it, at the tail or where it drops.
LEMMA RunEnd ==
  ASSUME NEW n, OnLine(n), NEW i \in 1..n
  PROVE  \E j \in (i + 1)..(n + 1) :
           /\ find_end_of_run(Line[i], tail) = Line[j] /\ Sorted(i, j - 1)
           /\ j <= n => j \in Drops(i + 1, n)
<1> DEFINE s == Between(Line[i], Line[n + 1])
           ends == {k \in 2..Len(s) : less(s[k], s[k - 1])}
<1>1. n \in Nat /\ Line[n + 1] = tail
  BY DEF OnLine
<1>2. i \in 1..(n + 1) /\ n + 1 \in 1..(n + 1) /\ i <= n + 1
  BY <1>1
<1>3. Len(s) = (n + 1) - i /\ \A k \in 1..((n + 1) - i) : s[k] = Line[i + k - 1]
  BY <1>2, BetweenIs
<1>4. find_end_of_run(Line[i], tail) =
        IF ends = {} THEN tail ELSE s[CHOOSE k \in ends : \A q \in ends : k <= q]
  BY <1>1 DEF find_end_of_run
<1> HIDE DEF s
<1>5. \A k \in 2..Len(s) : k \in ends <=> i + k - 1 \in Drops(i + 1, n)
  <2> SUFFICES ASSUME NEW k \in 2..Len(s)
               PROVE  k \in ends <=> i + k - 1 \in Drops(i + 1, n)
    OBVIOUS
  <2>1. /\ k \in 1..((n + 1) - i) /\ k - 1 \in 1..((n + 1) - i) /\ i + (k - 1) - 1 = (i + k - 1) - 1
        /\ i + k - 1 \in (i + 1)..n
    BY <1>1, <1>3
  <2>2. s[k] = Line[i + k - 1] /\ s[k - 1] = Line[(i + k - 1) - 1]
    BY <1>3, <2>1
  <2> QED  BY <2>1, <2>2 DEF Drops
<1>6. \A m \in Drops(i + 1, n) : m - i + 1 \in 2..Len(s) /\ i + (m - i + 1) - 1 = m
  <2>1. \A m \in Drops(i + 1, n) : m \in (i + 1)..n
    BY DEF Drops
  <2> QED  BY <1>1, <1>3, <2>1
<1>7. CASE ends = {}
  <2>1. Drops(i + 1, n) = {}
    BY <1>5, <1>6, <1>7
  <2>2. Sorted(i, n)
    BY <1>1, <1>2, <2>1, Adjacent
  <2>3. n + 1 \in (i + 1)..(n + 1) /\ (n + 1) - 1 = n /\ ~(n + 1 <= n)
    BY <1>1
  <2> QED  BY <1>1, <1>4, <1>7, <2>2, <2>3
<1>8. CASE ends # {}
  <2> DEFINE k == CHOOSE k \in ends : \A q \in ends : k <= q
             j == i + k - 1
  <2>1. ends \in SUBSET Nat
    BY <1>1, <1>3
  <2>2. k \in ends /\ \A q \in ends : k <= q
    BY <1>8, <2>1, LeastElement
  <2>3. find_end_of_run(Line[i], tail) = s[k]
    BY <1>4, <1>8
  <2>4. k \in 2..Len(s)
    BY <2>2
  <2> HIDE DEF k, ends
  <2>5. j \in (i + 1)..n /\ j \in (i + 1)..(n + 1) /\ j - 1 \in 0..n /\ k \in 1..((n + 1) - i)
    BY <1>1, <1>3, <2>4
  <2>6. s[k] = Line[j] /\ j \in Drops(i + 1, n)
    BY <1>3, <1>5, <2>2, <2>4, <2>5
  <2>7. Drops(i + 1, j - 1) = {}
    <3>1. ASSUME NEW m \in Drops(i + 1, j - 1)  PROVE  FALSE
      <4>1. m \in (i + 1)..(j - 1) /\ m \in Drops(i + 1, n)
        <5>1. m \in (i + 1)..(j - 1) /\ less(Line[m], Line[m - 1])
          BY <3>1 DEF Drops
        <5>2. m \in (i + 1)..n
          BY <1>1, <2>5, <5>1
        <5> QED  BY <5>1, <5>2 DEF Drops
      <4>2. m - i + 1 \in ends
        BY <1>5, <1>6, <4>1
      <4>3. k <= m - i + 1
        BY <2>2, <4>2
      <4> QED  BY <1>1, <1>3, <2>4, <4>1, <4>3
    <3> QED  BY <3>1
  <2> HIDE DEF j
  <2>8. Sorted(i, j - 1)
    BY <1>2, <2>5, <2>7, Adjacent
  <2> QED  BY <2>3, <2>5, <2>6, <2>8
<1> QED  BY <1>7, <1>8

\* A run less is left behind a drop, or behind the last run.
LEMMA LeftBehind ==
  ASSUME NEW n, OnLine(n), NEW i \in 1..n, NEW j \in (i + 1)..(n + 1),
         j <= n => j \in Drops(i + 1, n)
  PROVE  Left(i) \in Nat /\ Left(j) \in Nat /\ Left(i) >= 1 + Left(j)
<1>1. /\ n \in Nat /\ n = Len(esh_plugin_list) /\ Line[n + 1] = tail
      /\ \A k \in 1..n : Line[k] # tail
  BY DEF OnLine
<1>2. Left(i) = 1 + Cardinality(Drops(i + 1, n))
  BY <1>1 DEF Left
<1>3. i + 1 \in Int /\ j + 1 \in Int /\ n \in Int
  BY <1>1
<1>4. /\ IsFiniteSet(Drops(i + 1, n)) /\ Cardinality(Drops(i + 1, n)) \in Nat
      /\ IsFiniteSet(Drops(j + 1, n)) /\ Cardinality(Drops(j + 1, n)) \in Nat
  BY <1>3, DropsFacts
<1>5. CASE j = n + 1
  BY <1>1, <1>2, <1>4, <1>5 DEF Left
<1>6. CASE j # n + 1
  <2>1. j \in 1..n /\ j \in Drops(i + 1, n)
    BY <1>1, <1>6
  <2>2. Left(j) = 1 + Cardinality(Drops(j + 1, n))
    BY <1>1, <2>1 DEF Left
  <2>3. Drops(j + 1, n) \subseteq Drops(i + 1, n) /\ j \notin Drops(j + 1, n)
    <3>1. \A k \in (j + 1)..n : k \in (i + 1)..n /\ k # j
      BY <1>1, <2>1
    <3> QED  BY <3>1 DEF Drops
  <2>4. Cardinality(Drops(j + 1, n) \cup {j}) = Cardinality(Drops(j + 1, n)) + 1
    BY <1>4, <2>3, FS_AddElement
  <2>5. Cardinality(Drops(j + 1, n) \cup {j}) <= Cardinality(Drops(i + 1, n))
    BY <1>4, <2>1, <2>3, FS_Subset
  <2> QED  BY <1>2, <1>4, <2>2, <2>4, <2>5
<1> QED  BY <1>5, <1>6

\* One more run is done.
LEMMA DoneNext ==
  ASSUME NEW n, OnLine(n), NEW c \in Nat, NEW r \in 1..n, Done(r, c),
         NEW k \in (r + 1)..(n + 1), Sorted(r, k - 1)
  PROVE  Done(k, c + 1)
<1>1. n \in Nat
  BY DEF OnLine
<1>2. r \in 1..(n + 1) /\ k - 1 \in 0..n /\ r - 1 \in Int /\ k - 1 \in Int /\ 1 + 1 = 2
  BY <1>1
<1>3. Drops(r + 1, k - 1) = {}
  BY <1>2, NoDrops
<1>4. CASE c = 0
  <2>1. r = 1
    BY <1>4 DEF Done
  <2>2. Cardinality(Drops(2, k - 1)) = 0
    BY <1>2, <1>3, <2>1, FS_EmptySet
  <2> QED  BY <1>1, <1>4, <2>1, <2>2 DEF Done
<1>5. CASE c # 0
  <2>1. c < r /\ Cardinality(Drops(2, r - 1)) < c
    BY <1>5 DEF Done
  <2>2. IsFiniteSet(Drops(2, r - 1))
    <3> DEFINE q == r - 1
    <3>1. q \in Int
      BY <1>2
    <3> HIDE DEF q
    <3>2. IsFiniteSet(Drops(2, q))
      BY <3>1, DropsFacts
    <3> QED  BY <3>2 DEF q
  <2>3. Drops(2, k - 1) \subseteq Drops(2, r - 1) \cup {r}
    <3>1. ASSUME NEW m \in Drops(2, k - 1)  PROVE  m \in Drops(2, r - 1) \cup {r}
      <4>1. m \in 2..(k - 1) /\ less(Line[m], Line[m - 1])
        BY DEF Drops
      <4>2. m \in 2..(r - 1) \/ m = r \/ m \in (r + 1)..(k - 1)
        BY <1>1, <4>1
      <4>3. m \notin (r + 1)..(k - 1)
        BY <1>3, <4>1 DEF Drops
      <4> QED  BY <4>1, <4>2, <4>3 DEF Drops
    <3> QED  BY <3>1
  <2>4. /\ Cardinality(Drops(2, r - 1)) \in Nat /\ Cardinality(Drops(2, k - 1)) \in Nat
        /\ Cardinality(Drops(2, k - 1)) <= Cardinality(Drops(2, r - 1)) + 1
    BY <2>2, <2>3, OneMore
  <2>7. c + 1 # 0 /\ c + 1 < k
    BY <1>1, <2>1
  <2>8. Cardinality(Drops(2, k - 1)) < c + 1
    BY <2>1, <2>4
  <2> QED  BY <2>7, <2>8 DEF Done
<1> QED  BY <1>4, <1>5

\* When a pass is done its count is of the runs that there are.
LEMMA RunsDone ==
  ASSUME NEW n, OnLine(n), NEW c \in Nat, Done(n + 1, c)
  PROVE  Runs(esh_plugin_list) <= c /\ c <= n
<1>1. n \in Nat /\ 2 \in Int /\ n \in Int /\ (n + 1) - 1 = n
  BY DEF OnLine
<1>2. Runs(esh_plugin_list) = IF n = 0 THEN 0 ELSE 1 + Cardinality(Drops(2, n))
  BY RunsIs
<1>3. Cardinality(Drops(2, n)) \in Nat
  BY <1>1, DropsFacts
<1> QED  BY <1>1, <1>2, <1>3 DEF Done

-----------------------------------------------------------------------------
(***************************************************************************)
(* The steps that change the list, and those that do not.                  *)
(***************************************************************************)

LEMMA Placed ==
  ASSUME PluginsInv
  PROVE  OnLine(Len(esh_plugin_list)) /\ Linking(Len(esh_plugin_list))
BY LineNow DEF PluginsInv, SortInv

LEMMA SameList ==
  ASSUME UNCHANGED <<rank, l>>
  PROVE  /\ esh_plugin_list' = esh_plugin_list /\ Line' = Line
         /\ IsList(l, head, tail)' <=> IsList(l, head, tail)
         /\ InOrder(esh_plugin_list)' <=> InOrder(esh_plugin_list)
         /\ Runs(esh_plugin_list)' = Runs(esh_plugin_list)
         /\ \A m, n : Sorted(m, n)' <=> Sorted(m, n)
         /\ \A i, c : Done(i, c)' <=> Done(i, c)
         /\ \A i : Left(i)' = Left(i)
         /\ \A m, n : Drops(m, n)' = Drops(m, n)
<1>1. esh_plugin_list' = esh_plugin_list
  BY DEF esh_plugin_list
<1>2. Line' = Line
  BY <1>1 DEF Line
<1>3. \A p, q : less(p, q)' <=> less(p, q)
  BY DEF less
<1>4. \A m, n : Drops(m, n)' = Drops(m, n)
  BY <1>2, <1>3 DEF Drops
<1>5. InOrder(esh_plugin_list)' <=> InOrder(esh_plugin_list)
  BY <1>1, <1>3 DEF InOrder
<1>6. Runs(esh_plugin_list)' = Runs(esh_plugin_list)
  <2>1. {k \in 2..Len(esh_plugin_list) : less(esh_plugin_list[k], esh_plugin_list[k - 1])}'
          = {k \in 2..Len(esh_plugin_list) : less(esh_plugin_list[k], esh_plugin_list[k - 1])}
    BY <1>1, <1>3
  <2> QED  BY <1>1, <2>1 DEF Runs
<1>7. \A m, n : Sorted(m, n)' <=> Sorted(m, n)
  BY <1>2 DEF Sorted
<1>8. \A i, c : Done(i, c)' <=> Done(i, c)
  BY <1>4 DEF Done
<1>9. \A i : Left(i)' = Left(i)
  BY <1>1, <1>2, <1>4 DEF Left
<1>10. IsList(l, head, tail)' <=> IsList(l, head, tail)
  OBVIOUS
<1> QED  BY <1>1, <1>2, <1>4, <1>5, <1>6, <1>7, <1>8, <1>9, <1>10

LEMMA Push ==
  ASSUME PluginsInv, NEW p \in Plugin, load_plugin(p)
  PROVE  /\ l' \in Links /\ esh_plugin_list' = Append(esh_plugin_list, p)
         /\ esh_plugin_list' \in Seq(Plugin) /\ IsList(l, head, tail)'
<1> DEFINE s == esh_plugin_list
           n == Len(s)
<1>1. OnLine(n) /\ Linking(n)
  BY Placed
<1>2. s \in Seq(Plugin) /\ Sound(l, head, s, tail) /\ l \in Links
  BY <1>1 DEF OnLine, Linking, PluginsInv, TypeOK
<1>3. l' = list_insert(l, tail, p) /\ ~Contains(s, p)
  BY DEF load_plugin, list_push_back
<1> HIDE DEF s
<1>4. Around(l, head, s, tail, n)
  BY <1>2, Nodes, Neighbours
<1>5. l.prev[tail] \in Node /\ l.prev[tail] # p
  <2>1. CASE n = 0
    BY <1>4, <2>1, Nodes DEF Around
  <2>2. CASE n # 0
    BY <1>3, <1>4, <2>2, Nodes DEF Around, Contains
  <2> QED  BY <2>1, <2>2
<1>6. tail # p /\ p \in Elem /\ tail \in Node
  BY Nodes
<1>7. /\ l' \in Links
      /\ \A y \in Node :
           /\ l'.next[y] = IF y = l.prev[tail] THEN p ELSE IF y = p THEN tail ELSE l.next[y]
           /\ l'.prev[y] = IF y = tail THEN p ELSE IF y = p THEN l.prev[tail] ELSE l.prev[y]
  BY <1>2, <1>3, <1>5, <1>6, InsertLinks
<1>8. s \in Seq(Elem)
  BY <1>2, Nodes
<1>9. Sound(l', head, Append(s, p), tail)
  BY <1>2, <1>3, <1>6, <1>7, <1>8, Nodes, PushSound
<1>10. Append(s, p) \in Seq(Elem)
  BY <1>6, <1>8
<1>11. Order(l', head) = Append(s, p) /\ IsList(l', head, tail)
  BY <1>9, <1>10, Nodes, SoundIsList
<1> QED  BY <1>7, <1>10, <1>11, Nodes DEF esh_plugin_list, s

LEMMA Splice ==
  ASSUME PluginsInv, NEW i \in DOMAIN esh_plugin_list, NEW j \in DOMAIN esh_plugin_list, i < j,
         l' = list_splice(l, Line[i], Line[j], Line[j + 1])
  PROVE  /\ l' \in Links /\ esh_plugin_list' = Moved(esh_plugin_list, i, j)
         /\ esh_plugin_list' \in Seq(Plugin) /\ IsList(l, head, tail)'
<1> DEFINE s == esh_plugin_list
           n == Len(s)
<1>1. OnLine(n) /\ Linking(n)
  BY Placed
<1>2. s \in Seq(Plugin) /\ Sound(l, head, s, tail) /\ l \in Links
  BY <1>1 DEF OnLine, Linking, PluginsInv, TypeOK
<1>3. /\ n \in Nat /\ DOMAIN s = 1..n
      /\ \A k \in 1..n : Line[k] = s[k] /\ Line[k] \in Plugin
      /\ \A k \in 1..(n + 1) : Line[k] \in Node
      /\ \A a, b \in 1..(n + 1) : Line[a] = Line[b] => a = b
  BY <1>1 DEF OnLine
<1>4. /\ \A k \in 1..n : l.next[Line[k]] = Line[k + 1] /\ l.prev[Line[k + 1]] = Line[k]
      /\ \A k \in 1..(n + 1) : l.prev[Line[k]] \in Node
  BY <1>1 DEF Linking
<1> HIDE DEF s, n
<1>5. i \in 1..n /\ j \in 1..n /\ i \in 1..(n + 1) /\ j \in 1..(n + 1) /\ j + 1 \in 1..(n + 1)
  BY <1>3 DEF s
<1>6. /\ Line[i] \in Node /\ Line[j] \in Node /\ Line[j + 1] \in Node
      /\ l.prev[Line[j + 1]] = Line[j] /\ l.prev[Line[j]] \in Node /\ l.prev[Line[i]] \in Node
      /\ Line[i] # Line[j] /\ Line[i] # Line[j + 1] /\ Line[j] # Line[j + 1]
  <2>1. i # j /\ i # j + 1 /\ j # j + 1
    BY <1>3, <1>5
  <2> QED  BY <1>3, <1>4, <1>5, <2>1
<1>7. l' \in Links /\ Spliced(l, l', Line[i], Line[j], Line[j + 1])
  BY <1>2, <1>6, SpliceLinks
<1>8. s \in Seq(Elem) /\ i \in DOMAIN s /\ j \in DOMAIN s
  BY <1>2, Nodes DEF s
<1>9. Line[i] = s[i] /\ Line[j] = s[j] /\ Line[j + 1] = l.next[s[j]]
  BY <1>3, <1>4, <1>5
<1>10. Sound(l', head, Moved(s, i, j), tail)
  <2>1. Spliced(l, l', s[i], s[j], l.next[s[j]])
    BY <1>7, <1>9
  <2>2. head \in Sentinel /\ tail \in Sentinel /\ head # tail
    BY Nodes
  <2> QED  BY <1>2, <1>8, <2>1, <2>2, SpliceSound
<1>11. Moved(s, i, j) \in Seq(Elem)
  BY <1>8, MovedIs
<1>12. Order(l', head) = Moved(s, i, j) /\ IsList(l', head, tail)
  BY <1>10, <1>11, Nodes, SoundIsList
<1> QED  BY <1>7, <1>11, <1>12, Nodes DEF esh_plugin_list, s

-----------------------------------------------------------------------------
(***************************************************************************)
(* Two runs are found.                                                     *)
(***************************************************************************)

LEMMA FindRuns ==
  ASSUME PluginsInv, find_runs, NEW n, n = Len(esh_plugin_list)
  PROVE  \E i \in 1..n, j \in 2..(n + 1) :
           /\ a0 = Line[i] /\ i < j /\ Done(i, output_run_cnt) /\ output_run_cnt < n
           /\ 2 * output_run_cnt + Left(i) <= runs
           /\ a1b0' = Line[j] /\ Sorted(i, j - 1)
           /\ \/ j = n + 1 /\ pc' = "pass_end" /\ b1' = b1 /\ Left(i) \in Nat /\ Left(i) >= 1
              \/ \E k \in 3..(n + 1) :
                   /\ b1' = Line[k] /\ j < k /\ Sorted(j, k - 1) /\ pc' = "merge"
                   /\ Left(i) \in Nat /\ Left(k) \in Nat /\ Left(i) >= 2 + Left(k)
<1>1. OnLine(n) /\ output_run_cnt \in Nat
  BY Placed DEF PluginsInv, TypeOK
<1>2. /\ n \in Nat /\ Line[n + 1] = tail /\ DOMAIN Line = 1..(n + 1)
      /\ \A k \in 1..n : Line[k] # tail
      /\ \A a, b \in 1..(n + 1) : Line[a] = Line[b] => a = b
  BY <1>1 DEF OnLine
<1>3. pc = "runs" /\ a0 # tail
  BY DEF find_runs
<1>4. PICK i \in DOMAIN Line : /\ a0 = Line[i] /\ Done(i, output_run_cnt)
                               /\ 2 * output_run_cnt + Left(i) <= runs
  BY <1>3 DEF PluginsInv, SortInv, RunsInv
<1>5. i \in 1..n /\ i \in 1..(n + 1)
  BY <1>2, <1>3, <1>4
<1>6. output_run_cnt < n
  BY <1>1, <1>2, <1>4, <1>5 DEF Done
<1>7. PICK j \in (i + 1)..(n + 1) :
        /\ find_end_of_run(Line[i], tail) = Line[j] /\ Sorted(i, j - 1)
        /\ j <= n => j \in Drops(i + 1, n)
  BY <1>1, <1>5, RunEnd
<1>8. a1b0' = Line[j] /\ j \in 2..(n + 1) /\ i < j
  BY <1>2, <1>4, <1>5, <1>7 DEF find_runs
<1>9. Left(i) \in Nat /\ Left(j) \in Nat /\ Left(i) >= 1 + Left(j)
  BY <1>1, <1>5, <1>7, LeftBehind
<1>10. CASE j = n + 1
  <2>1. pc' = "pass_end" /\ b1' = b1
    BY <1>2, <1>8, <1>10 DEF find_runs
  <2> QED  BY <1>4, <1>5, <1>6, <1>7, <1>8, <1>9, <1>10, <2>1
<1>11. CASE j # n + 1
  <2>1. j \in 1..n /\ j \in 1..(n + 1)
    BY <1>2, <1>8, <1>11
  <2>2. PICK k \in (j + 1)..(n + 1) :
          /\ find_end_of_run(Line[j], tail) = Line[k] /\ Sorted(j, k - 1)
          /\ k <= n => k \in Drops(j + 1, n)
    BY <1>1, <2>1, RunEnd
  <2>3. Left(k) \in Nat /\ Left(j) >= 1 + Left(k)
    BY <1>1, <2>1, <2>2, LeftBehind
  <2>4. a1b0' # tail
    BY <1>2, <1>8, <2>1
  <2>5. b1' = Line[k] /\ k \in 3..(n + 1) /\ j < k /\ k \in 1..(n + 1)
    BY <1>2, <1>8, <2>1, <2>2, <2>4 DEF find_runs
  <2>6. is_sorted(a0, a1b0')
    <3>1. is_sorted(Line[i], Line[j])
      BY <1>1, <1>5, <1>7, <1>8, <2>1, SortedIs
    <3> QED  BY <1>4, <1>8, <3>1
  <2>7. is_sorted(a1b0', b1')
    <3>1. is_sorted(Line[j], Line[k])
      BY <1>1, <2>1, <2>2, <2>5, SortedIs
    <3> QED  BY <1>8, <2>5, <3>1
  <2>8. pc' = "merge"
    BY <2>4, <2>6, <2>7 DEF find_runs
  <2>9. Left(i) >= 2 + Left(k)
    BY <1>9, <2>3
  <2> QED  BY <1>4, <1>5, <1>6, <1>7, <1>8, <1>9, <2>2, <2>3, <2>5, <2>8, <2>9
<1> QED  BY <1>10, <1>11

-----------------------------------------------------------------------------
(***************************************************************************)
(* Types.                                                                  *)
(***************************************************************************)

\* e stands on the line and before its end, and so has a successor there.
LEMMA WalkOn ==
  ASSUME PluginsInv, pc \in {"init", "fragments", "offer"}, e # tail
  PROVE  \E i \in 1..Len(esh_plugin_list) :
           /\ e = Line[i] /\ e \in Plugin /\ l.next[e] = Line[i + 1] /\ l.next[e] \in Node
           /\ pc = "init" => \A p \in Has("init", i) : inits[p] > 0
           /\ pc = "fragments" => ToSet(notified) = Has("make_prompt", i)
           /\ pc = "offer" => ToSet(notified) = Has("process_builtin", i)
<1> DEFINE n == Len(esh_plugin_list)
<1>1. OnLine(n) /\ Linking(n)
  BY Placed
<1> HIDE DEF n
<1>2. /\ n \in Nat /\ Line[n + 1] = tail /\ DOMAIN Line = 1..(n + 1)
      /\ \A k \in 1..n : Line[k] \in Plugin
      /\ \A k \in 1..(n + 1) : Line[k] \in Node
      /\ \A k \in 1..n : l.next[Line[k]] = Line[k + 1]
  BY <1>1 DEF OnLine, Linking
<1>3. PICK i \in DOMAIN Line :
        /\ e = Line[i]
        /\ pc = "init" => \A p \in Has("init", i) : inits[p] > 0
        /\ pc = "fragments" => ToSet(notified) = Has("make_prompt", i)
        /\ pc = "offer" => ToSet(notified) = Has("process_builtin", i)
  <2>1. CASE pc = "init"
    BY <2>1 DEF PluginsInv, WalkInv
  <2>2. CASE pc = "fragments"
    BY <2>2 DEF PluginsInv, WalkInv
  <2>3. CASE pc = "offer"
    BY <2>3 DEF PluginsInv, WalkInv
  <2> QED  BY <2>1, <2>2, <2>3
<1>4. i \in 1..n /\ i + 1 \in 1..(n + 1)
  BY <1>2, <1>3
<1> QED  BY <1>2, <1>3, <1>4 DEF n

LEMMA MergePlace ==
  ASSUME PluginsInv, pc = "merge", NEW n, n = Len(esh_plugin_list)
  PROVE  \E r \in 1..n, i \in 1..(n + 1), j \in 1..(n + 1), k \in 1..(n + 1) :
    /\ r <= i /\ i <= j /\ j <= k /\ r < k
    /\ a0 = Line[i] /\ a1b0 = Line[j] /\ b1 = Line[k]
    /\ a0 = a1b0 <=> i = j
    /\ a1b0 = b1 <=> j = k
    /\ output_run_cnt \in Nat /\ output_run_cnt > 0 /\ Done(r, output_run_cnt - 1)
    /\ 2 * output_run_cnt + Left(k) <= runs
    /\ Sorted(r, i - 1) /\ Sorted(i, j - 1) /\ Sorted(j, k - 1)
    /\ \A p \in r..(i - 1), q \in i..(k - 1) : rank[Line[p]] <= rank[Line[q]]
<1>1. OnLine(n) /\ output_run_cnt \in Nat
  BY Placed DEF PluginsInv, TypeOK
<1>2. n \in Nat /\ DOMAIN Line = 1..(n + 1) /\ \A a, b \in 1..(n + 1) : Line[a] = Line[b] => a = b
  BY <1>1 DEF OnLine
<1>3. PICK r \in DOMAIN Line, i \in DOMAIN Line, j \in DOMAIN Line, k \in DOMAIN Line :
    /\ r <= i /\ i <= j /\ j <= k /\ r < k
    /\ a0 = Line[i] /\ a1b0 = Line[j] /\ b1 = Line[k]
    /\ output_run_cnt > 0 /\ Done(r, output_run_cnt - 1) /\ 2 * output_run_cnt + Left(k) <= runs
    /\ Sorted(r, i - 1) /\ Sorted(i, j - 1) /\ Sorted(j, k - 1)
    /\ \A p \in r..(i - 1), q \in i..(k - 1) : rank[Line[p]] <= rank[Line[q]]
  BY DEF PluginsInv, SortInv, MergeInv
<1>4. r \in 1..n /\ i \in 1..(n + 1) /\ j \in 1..(n + 1) /\ k \in 1..(n + 1)
  BY <1>2, <1>3
<1>5. (a0 = a1b0 <=> i = j) /\ (a1b0 = b1 <=> j = k)
  BY <1>2, <1>3, <1>4
<1> USE <1>4
<1> WITNESS r \in 1..n, i \in 1..(n + 1), j \in 1..(n + 1), k \in 1..(n + 1)
<1> QED  BY <1>1, <1>3, <1>5

\* An element of the second run goes in front of the first run's.
LEMMA MergeSecond ==
  ASSUME PluginsInv, merge_second, NEW n, n = Len(esh_plugin_list),
         NEW i \in 1..(n + 1), NEW j \in 1..(n + 1), NEW k \in 1..(n + 1), i < j, j < k,
         a0 = Line[i], a1b0 = Line[j], b1 = Line[k]
  PROVE  /\ i \in 1..n /\ j \in 1..n /\ a1b0' = Line[j + 1] /\ pc' = "merge"
         /\ l' \in Links /\ esh_plugin_list' = Moved(esh_plugin_list, i, j)
         /\ esh_plugin_list' \in Seq(Plugin) /\ IsList(l, head, tail)'
<1>1. OnLine(n) /\ Linking(n) /\ l \in Links
  BY Placed DEF PluginsInv, TypeOK
<1>2. /\ n \in Nat /\ DOMAIN esh_plugin_list = 1..n
      /\ \A q \in 1..(n + 1) : Line[q] \in Node
      /\ \A q \in 1..n : l.next[Line[q]] = Line[q + 1] /\ l.prev[Line[q + 1]] = Line[q]
      /\ \A q \in 1..(n + 1) : l.prev[Line[q]] \in Node
  BY <1>1 DEF OnLine, Linking
<1>3. i \in 1..n /\ j \in 1..n /\ i + 1 \in 1..(n + 1) /\ j + 1 \in 1..(n + 1)
  BY <1>2
<1>4. a1b0' = Line[j + 1] /\ l.prev[a1b0'] = Line[j]
  BY <1>2, <1>3 DEF merge_second
<1>5. l' = list_splice(l, Line[i], Line[j], Line[j + 1])
  BY <1>4 DEF merge_second
<1>6. \A q \in 1..n : is_interior(l, Line[q])
  <2> SUFFICES ASSUME NEW q \in 1..n  PROVE  is_interior(l, Line[q])
    OBVIOUS
  <2>1. q \in 1..(n + 1) /\ q + 1 \in 1..(n + 1)
    BY <1>2
  <2>2. Line[q] \in Node /\ l.next[Line[q]] \in Node /\ l.prev[Line[q]] \in Node
    BY <1>2, <2>1
  <2> QED  BY <2>2, Nodes DEF is_interior
<1>7. pc' = "merge"
  BY <1>3, <1>6 DEF merge_second
<1> QED  BY <1>2, <1>3, <1>4, <1>5, <1>7, Splice

LEMMA TypeStep == PluginsInv /\ [Next]_vars => TypeOK'
<1> SUFFICES ASSUME PluginsInv, [Next]_vars  PROVE TypeOK'
  OBVIOUS
<1> USE DEF vars, sort, walk, ghosts, Goto, Constant
<1> DEFINE n == Len(esh_plugin_list)
<1>1. TypeOK /\ esh_plugin_list \in Seq(Plugin)
  BY DEF PluginsInv, SortInv
<1>2. OnLine(n) /\ Linking(n)
  BY Placed
<1>3. n \in Nat /\ Cardinality(Plugin) \in Nat /\ n <= Cardinality(Plugin)
  <2>1. IsInjective(esh_plugin_list)
    BY <1>2 DEF Linking, Sound
  <2> QED  BY <1>1, <2>1, Nodes, InjectiveLength
<1>4. /\ DOMAIN Line = 1..(n + 1)
      /\ \A k \in 1..(n + 1) : Line[k] \in Node
      /\ \A k \in 1..n : l.next[Line[k]] = Line[k + 1]
      /\ l.next[head] = Line[1]
  BY <1>2 DEF OnLine, Linking
<1>5. list_begin(l, head) \in Node
  <2>1. 1 \in 1..(n + 1)
    BY <1>3
  <2> QED  BY <1>4, <2>1 DEF list_begin
<1>6. <<>> \in Seq(Plugin) /\ 0 \in 0..Cardinality(Plugin)
  BY <1>3
<1> HIDE DEF n
<1>7. ASSUME opendir  PROVE TypeOK'
  BY <1>1, <1>7 DEF TypeOK, opendir
<1>8. ASSUME NEW p \in Plugin, load_plugin(p)  PROVE TypeOK'
  <2>1. l' \in Links
    BY <1>8, Push
  <2> QED  BY <1>1, <1>8, <2>1 DEF TypeOK, load_plugin
<1>9. ASSUME closedir  PROVE TypeOK'
  BY <1>1, <1>9 DEF TypeOK, closedir
<1>10. ASSUME esh_plugin_initialize  PROVE TypeOK'
  BY <1>1, <1>5, <1>10 DEF TypeOK, esh_plugin_initialize, first_to_init
<1>11. ASSUME init_plugin  PROVE TypeOK'
  <2>1. e \in Plugin /\ l.next[e] \in Node
    BY <1>11, WalkOn DEF init_plugin
  <2>2. inits' \in [Plugin -> Nat]
    BY <1>1, <1>11, <2>1 DEF TypeOK, init_plugin
  <2> QED  BY <1>1, <1>11, <2>1, <2>2 DEF TypeOK, init_plugin
<1>12. ASSUME NextOption \/ EndOfOptions  PROVE TypeOK'
  BY <1>1, <1>12 DEF TypeOK, NextOption, EndOfOptions
<1>13. ASSUME begin_pass  PROVE TypeOK'
  <2>1. Runs(esh_plugin_list) \in Nat
    <3>1. 2 \in Int /\ n \in Int
      BY <1>3
    <3>2. Cardinality(Drops(2, n)) \in Nat
      BY <3>1, DropsFacts
    <3> QED  BY <1>2, <3>2, RunsIs
  <2> QED  BY <1>1, <1>5, <1>6, <1>13, <2>1 DEF TypeOK, begin_pass, reset_output_run_cnt
<1>14. ASSUME find_runs  PROVE TypeOK'
  <2>1. PICK i \in 1..n, j \in 2..(n + 1) :
           /\ output_run_cnt < n /\ a1b0' = Line[j]
           /\ \/ pc' = "pass_end" /\ b1' = b1
              \/ \E k \in 3..(n + 1) : b1' = Line[k] /\ pc' = "merge"
    BY <1>14, FindRuns DEF n
  <2>2. a1b0' \in Node /\ b1' \in Node /\ pc' \in {"pass_end", "merge"}
    <3>1. \A q \in 2..(n + 1) : q \in 1..(n + 1)
      BY <1>3
    <3>2. \A q \in 3..(n + 1) : q \in 1..(n + 1)
      BY <1>3
    <3> QED  BY <1>1, <1>4, <2>1, <3>1, <3>2 DEF TypeOK
  <2>3. output_run_cnt' \in 0..Cardinality(Plugin)
    BY <1>1, <1>3, <1>14, <2>1 DEF TypeOK, find_runs
  <2> QED  BY <1>1, <1>14, <2>2, <2>3 DEF TypeOK, find_runs
<1>15. ASSUME merge_first \/ merge_second  PROVE TypeOK'
  <2>0. pc = "merge" /\ a0 # a1b0 /\ a1b0 # b1
    BY <1>15 DEF merge_first, merge_second
  <2>1. PICK r \in 1..n, i \in 1..(n + 1), j \in 1..(n + 1), k \in 1..(n + 1) :
          /\ r <= i /\ i <= j /\ j <= k /\ r < k
          /\ a0 = Line[i] /\ a1b0 = Line[j] /\ b1 = Line[k]
          /\ a0 = a1b0 <=> i = j
          /\ a1b0 = b1 <=> j = k
    BY <2>0, MergePlace DEF n
  <2>2. i < j /\ j < k /\ i \in 1..n /\ j \in 1..n /\ i + 1 \in 1..(n + 1) /\ j + 1 \in 1..(n + 1)
    BY <1>3, <2>0, <2>1
  <2>3. l.next[a0] \in Node /\ l.next[a1b0] \in Node
    BY <1>4, <2>1, <2>2
  <2>4. CASE merge_first
    BY <1>1, <2>3, <2>4 DEF TypeOK, merge_first
  <2>5. CASE merge_second
    <3>1. l' \in Links /\ pc' = "merge"
      BY <2>1, <2>2, <2>5, MergeSecond DEF n
    <3> QED  BY <1>1, <2>3, <2>5, <3>1 DEF TypeOK, merge_second
  <2> QED  BY <1>15, <2>4, <2>5
<1>16. ASSUME merge_end \/ no_more_runs  PROVE TypeOK'
  BY <1>1, <1>16 DEF TypeOK, merge_end, no_more_runs
<1>17. ASSUME end_pass  PROVE TypeOK'
  BY <1>1, <1>17 DEF TypeOK, end_pass
<1>18. ASSUME build_prompt_from_plugins \/ plugin_execute  PROVE TypeOK'
  BY <1>1, <1>5, <1>6, <1>18 DEF TypeOK, build_prompt_from_plugins, plugin_execute, begin_walk, Kept
<1>19. ASSUME make_prompt  PROVE TypeOK'
  <2>1. e \in Plugin /\ l.next[e] \in Node
    BY <1>19, WalkOn DEF make_prompt
  <2>2. notified' \in Seq(Plugin)
    BY <1>1, <1>19, <2>1, AppendProperties DEF TypeOK, make_prompt
  <2> QED  BY <1>1, <1>19, <2>1, <2>2 DEF TypeOK, make_prompt, Kept
<1>20. ASSUME NEW takes \in BOOLEAN, process_builtin(takes)  PROVE TypeOK'
  <2>1. e \in Plugin /\ l.next[e] \in Node
    BY <1>20, WalkOn DEF process_builtin
  <2>2. notified' \in Seq(Plugin)
    <3>1. notified' = notified \/ notified' = Append(notified, e)
      BY <1>20 DEF process_builtin
    <3>2. notified \in Seq(Plugin)
      BY <1>1 DEF TypeOK
    <3> QED  BY <2>1, <3>1, <3>2, AppendProperties
  <2>3. e' \in Node /\ isPlugin' \in BOOLEAN /\ (pc' = pc \/ pc' = "crashed")
    BY <1>1, <1>20, <2>1 DEF TypeOK, process_builtin, next_plugin
  <2>4. UNCHANGED <<rank, hooks, l, a0, a1b0, b1, output_run_cnt, inits, before, runs>>
    BY <1>20 DEF process_builtin, Kept
  <2> QED  BY <1>1, <2>2, <2>3, <2>4 DEF TypeOK
<1>21. ASSUME command_done  PROVE TypeOK'
  BY <1>1, <1>6, <1>21 DEF TypeOK, command_done, Kept
<1>22. ASSUME Ended \/ UNCHANGED vars  PROVE TypeOK'
  BY <1>1, <1>22 DEF TypeOK, Ended
<1> QED
  BY <1>7, <1>8, <1>9, <1>10, <1>11, <1>12, <1>13, <1>14, <1>15, <1>16, <1>17, <1>18, <1>19, <1>20,
     <1>21, <1>22 DEF Next, MainStep, Sort

-----------------------------------------------------------------------------
(***************************************************************************)
(* Stability.                                                              *)
(***************************************************************************)

LEMMA StableKept ==
  ASSUME StableInv, pc # "load", UNCHANGED <<rank, l, before>>
  PROVE  StableInv'
<1>1. esh_plugin_list' = esh_plugin_list /\ Line' = Line
  BY SameList
<1>2. \A p, q : Precedes(p, q)' <=> Precedes(p, q)
  BY DEF Precedes
<1> QED  BY <1>1, <1>2 DEF StableInv

\* Behind a step that moves the plug-in at place j to place i.
LineMoved(n, i, j) ==
  /\ Len(esh_plugin_list)' = n /\ DOMAIN esh_plugin_list' = 1..n
  /\ \A q \in 1..(n + 1) :
       Line'[q] = IF q < i \/ q > j THEN Line[q] ELSE IF q = i THEN Line[j] ELSE Line[q - 1]
  /\ \A p \in Plugin : Contains(esh_plugin_list, p)' <=> Contains(esh_plugin_list, p)

LEMMA Moves ==
  ASSUME NEW n, OnLine(n), NEW i \in 1..n, NEW j \in 1..n, i < j,
         esh_plugin_list' = Moved(esh_plugin_list, i, j)
  PROVE  LineMoved(n, i, j)
<1> DEFINE s == esh_plugin_list
           t == Moved(s, i, j)
<1>1. /\ n \in Nat /\ n = Len(s) /\ s \in Seq(Plugin) /\ DOMAIN s = 1..n
      /\ \A k \in 1..n : Line[k] = s[k]
      /\ Line[n + 1] = tail
  BY DEF OnLine
<1> HIDE DEF s
<1>2. /\ t \in Seq(Plugin) /\ Len(t) = n /\ DOMAIN t = 1..n
      /\ \A k \in 1..n : t[k] = IF k < i \/ k > j THEN s[k] ELSE IF k = i THEN s[j] ELSE s[k - 1]
      /\ \A y : Contains(t, y) <=> Contains(s, y)
  <2>1. i \in DOMAIN s /\ j \in DOMAIN s
    BY <1>1
  <2>2. t \in Seq(Plugin) /\ Len(t) = Len(s) /\ DOMAIN t = 1..Len(s)
    BY <1>1, <2>1, MovedIs
  <2>3. \A k \in 1..Len(s) :
          t[k] = IF k < i \/ k > j THEN s[k] ELSE IF k = i THEN s[j] ELSE s[k - 1]
    BY <1>1, <2>1, MovedIs
  <2>4. \A y : Contains(t, y) <=> Contains(s, y)
    BY <1>1, <2>1, MovedIs
  <2> HIDE DEF t
  <2> QED  BY <1>1, <2>2, <2>3, <2>4
<1>3. esh_plugin_list' = t /\ Line' = Append(t, tail)
  BY DEF Line, s
<1> HIDE DEF t
<1>4. Line'[n + 1] = tail /\ \A k \in 1..n : Line'[k] = t[k]
  <2>1. t \in Seq(Node)
    BY <1>2, Nodes, SeqMonotonic
  <2> QED  BY <1>2, <1>3, <2>1, Nodes, Appended
<1>5. \A q \in 1..(n + 1) :
        Line'[q] = IF q < i \/ q > j THEN Line[q] ELSE IF q = i THEN Line[j] ELSE Line[q - 1]
  <2>1. \A q \in 1..(n + 1) : q \in 1..n \/ (q = n + 1 /\ q > j)
    BY <1>1
  <2>2. \A q \in 1..n : q < i \/ q > j \/ q = i \/ q - 1 \in 1..n
    BY <1>1
  <2> QED  BY <1>1, <1>2, <1>4, <2>1, <2>2
<1> QED  BY <1>2, <1>3, <1>5 DEF LineMoved, s

LEMMA StableMoved ==
  ASSUME NEW n, OnLine(n), StableInv, pc # "load", UNCHANGED <<rank, before>>,
         NEW i \in 1..n, NEW j \in 1..n, i < j, LineMoved(n, i, j),
         Sorted(i, j - 1), less(Line[j], Line[i])
  PROVE  StableInv'
<1> DEFINE from(q) == IF q < i \/ q > j THEN q ELSE IF q = i THEN j ELSE q - 1
<1>1. n \in Nat /\ DOMAIN esh_plugin_list = 1..n /\ \A k \in 1..n : rank[Line[k]] \in Nat
  BY DEF OnLine
<1>2. DOMAIN esh_plugin_list' = 1..n /\ \A q \in 1..n : from(q) \in 1..n /\ Line'[q] = Line[from(q)]
  BY <1>1 DEF LineMoved
<1>3. \A p, q : Precedes(p, q)' <=> Precedes(p, q)
  BY DEF Precedes
<1>4. \A p \in Plugin : Contains(esh_plugin_list, p)' <=> Contains(before, p)'
  BY DEF LineMoved, StableInv
<1>5. ASSUME NEW a \in 1..n, NEW b \in 1..n, a < b, rank[Line'[a]] = rank[Line'[b]]
      PROVE  Precedes(Line'[a], Line'[b])
  <2>1. from(a) \in 1..n /\ from(b) \in 1..n /\ rank[Line[from(a)]] = rank[Line[from(b)]]
    BY <1>2, <1>5
  <2>2. CASE from(a) < from(b)
    BY <1>1, <1>2, <2>1, <2>2 DEF StableInv
  <2>3. CASE ~(from(a) < from(b))
    <3>1. from(a) = j /\ from(b) \in i..(j - 1)
      BY <1>1, <1>5, <2>3
    <3>2. rank[Line[i]] <= rank[Line[from(b)]]
      <4>1. rank[Line[i]] \in Nat
        BY <1>1
      <4>2. from(b) = i \/ (i < from(b) /\ i \in i..(j - 1))
        BY <1>1, <3>1
      <4> HIDE DEF from
      <4> QED  BY <3>1, <4>1, <4>2 DEF Sorted
    <3>3. rank[Line[j]] < rank[Line[i]]
      BY DEF less
    <3> HIDE DEF from
    <3>4. rank[Line[i]] \in Nat /\ rank[Line[j]] \in Nat /\ rank[Line[from(b)]] \in Nat
      BY <1>1, <2>1
    <3> QED  BY <2>1, <3>1, <3>2, <3>3, <3>4
  <2> QED  BY <2>2, <2>3
<1> QED  BY <1>2, <1>3, <1>4, <1>5 DEF StableInv

-----------------------------------------------------------------------------
(***************************************************************************)
(* Merging.                                                                *)
(***************************************************************************)

MergeAt(r, i, j, k) ==
  /\ Sorted(r, i - 1) /\ Sorted(i, j - 1) /\ Sorted(j, k - 1)
  /\ \A p \in r..(i - 1), q \in i..(k - 1) : rank[Line[p]] <= rank[Line[q]]

LEMMA MergedFirst ==
  ASSUME NEW n, OnLine(n), NEW r \in 1..n, NEW i \in 1..n, NEW j \in 1..n, NEW k \in 1..(n + 1),
         r <= i, i < j, j < k, MergeAt(r, i, j, k), ~less(Line[j], Line[i])
  PROVE  MergeAt(r, i + 1, j, k)
<1>1. n \in Nat /\ \A q \in 1..n : rank[Line[q]] \in Nat
  BY DEF OnLine
<1>2. \A q \in r..(k - 1) : q \in 1..n /\ rank[Line[q]] \in Nat
  BY <1>1
<1>3. (i + 1) - 1 = i
  BY <1>1
<1>4. Sorted(r, i)
  <2> SUFFICES ASSUME NEW a \in r..i, NEW b \in r..i, a < b
               PROVE  rank[Line[a]] <= rank[Line[b]]
    BY DEF Sorted
  <2>1. CASE b = i
    <3>1. a \in r..(i - 1) /\ b \in i..(k - 1)
      BY <1>1, <2>1
    <3> QED  BY <3>1 DEF MergeAt
  <2>2. CASE b # i
    <3>1. a \in r..(i - 1) /\ b \in r..(i - 1)
      BY <1>1, <2>2
    <3> QED  BY <3>1 DEF MergeAt, Sorted
  <2> QED  BY <2>1, <2>2
<1>5. Sorted(i + 1, j - 1)
  <2>1. \A a \in (i + 1)..(j - 1) : a \in i..(j - 1)
    BY <1>1
  <2> QED  BY <2>1 DEF MergeAt, Sorted
<1>6. ASSUME NEW p \in r..i, NEW q \in (i + 1)..(k - 1)
      PROVE  rank[Line[p]] <= rank[Line[q]]
  <2>1. CASE p # i
    <3>1. p \in r..(i - 1) /\ q \in i..(k - 1)
      BY <1>1, <2>1
    <3> QED  BY <3>1 DEF MergeAt
  <2>2. CASE p = i /\ q < j
    <3>1. p \in i..(j - 1) /\ q \in i..(j - 1) /\ p < q
      BY <1>1, <2>2
    <3> QED  BY <3>1 DEF MergeAt, Sorted
  <2>3. CASE p = i /\ ~(q < j)
    <3>1. q = j \/ (j \in j..(k - 1) /\ q \in j..(k - 1) /\ j < q)
      BY <1>1, <2>3
    <3>2. i \in r..(k - 1) /\ j \in r..(k - 1) /\ q \in r..(k - 1)
      BY <1>1
    <3>3. rank[Line[i]] <= rank[Line[j]]
      BY <1>2, <3>2 DEF less
    <3>4. q = j \/ rank[Line[j]] <= rank[Line[q]]
      BY <3>1 DEF MergeAt, Sorted
    <3> QED  BY <1>2, <2>3, <3>2, <3>3, <3>4
  <2> QED  BY <2>1, <2>2, <2>3
<1> QED  BY <1>3, <1>4, <1>5, <1>6 DEF MergeAt

LEMMA MergedSecond ==
  ASSUME NEW n, OnLine(n), NEW r \in 1..n, NEW i \in 1..n, NEW j \in 1..n, NEW k \in 1..(n + 1),
         r <= i, i < j, j < k, MergeAt(r, i, j, k), less(Line[j], Line[i]),
         rank' = rank, LineMoved(n, i, j)
  PROVE  MergeAt(r, i + 1, j + 1, k)'
<1> DEFINE R(q) == rank[Line[q]]
           T(q) == rank'[Line'[q]]
<1>1. n \in Nat /\ \A q \in 1..n : rank[Line[q]] \in Nat
  BY DEF OnLine
<1>2. \A q \in r..(k - 1) : q \in 1..n /\ q \in 1..(n + 1) /\ R(q) \in Nat
  BY <1>1
<1>3. (i + 1) - 1 = i /\ (j + 1) - 1 = j
  BY <1>1
<1>4. \A q \in r..(k - 1) : T(q) = IF q < i \/ q > j THEN R(q) ELSE IF q = i THEN R(j) ELSE R(q - 1)
  BY <1>2 DEF LineMoved
<1>5. /\ \A a, b \in r..(i - 1) : a < b => R(a) <= R(b)
      /\ \A a, b \in i..(j - 1) : a < b => R(a) <= R(b)
      /\ \A a, b \in j..(k - 1) : a < b => R(a) <= R(b)
      /\ \A a \in r..(i - 1), b \in i..(k - 1) : R(a) <= R(b)
  BY DEF MergeAt, Sorted
<1>6. R(j) < R(i)
  BY DEF less
<1> HIDE DEF R
<1>7. \A q \in i..(j - 1) : R(j) <= R(q)
  <2> SUFFICES ASSUME NEW q \in i..(j - 1)  PROVE R(j) <= R(q)
    OBVIOUS
  <2>1. i \in r..(k - 1) /\ j \in r..(k - 1) /\ q \in r..(k - 1) /\ i \in i..(j - 1)
    BY <1>1
  <2>2. q = i \/ R(i) <= R(q)
    BY <1>1, <1>5, <2>1
  <2> QED  BY <1>2, <1>6, <2>1, <2>2
<1> HIDE DEF T
<1>8. ASSUME NEW a \in r..i, NEW b \in r..i, a < b  PROVE T(a) <= T(b)
  <2>1. a \in r..(i - 1) /\ a \in r..(k - 1) /\ b \in r..(k - 1) /\ j \in i..(k - 1)
    BY <1>1, <1>8
  <2>2. CASE b = i
    BY <1>1, <1>4, <1>5, <2>1, <2>2
  <2>3. CASE b # i
    <3>1. b \in r..(i - 1)
      BY <1>1, <2>3
    <3> QED  BY <1>1, <1>4, <1>5, <1>8, <2>1, <3>1
  <2> QED  BY <2>2, <2>3
<1>9. ASSUME NEW a \in (i + 1)..j, NEW b \in (i + 1)..j, a < b  PROVE T(a) <= T(b)
  <2>1. /\ a - 1 \in i..(j - 1) /\ b - 1 \in i..(j - 1) /\ a - 1 < b - 1
        /\ a \in r..(k - 1) /\ b \in r..(k - 1)
    BY <1>1, <1>9
  <2>2. T(a) = R(a - 1) /\ T(b) = R(b - 1)
    BY <1>1, <1>4, <2>1
  <2> QED  BY <1>5, <2>1, <2>2
<1>10. ASSUME NEW a \in (j + 1)..(k - 1), NEW b \in (j + 1)..(k - 1), a < b  PROVE T(a) <= T(b)
  <2>1. a \in j..(k - 1) /\ b \in j..(k - 1) /\ a \in r..(k - 1) /\ b \in r..(k - 1) /\ a > j /\ b > j
    BY <1>1
  <2>2. T(a) = R(a) /\ T(b) = R(b)
    BY <1>4, <2>1
  <2> QED  BY <1>5, <1>10, <2>1, <2>2
<1>11. ASSUME NEW p \in r..i, NEW q \in (i + 1)..(k - 1)  PROVE T(p) <= T(q)
  <2>1. p \in r..(k - 1) /\ q \in r..(k - 1)
    BY <1>1
  <2>2. CASE q > j
    <3>1. T(q) = R(q) /\ q \in i..(k - 1) /\ q \in j..(k - 1) /\ j \in j..(k - 1) /\ j < q
      BY <1>1, <1>4, <2>1, <2>2
    <3>2. CASE p = i
      BY <1>1, <1>4, <1>5, <2>1, <3>1, <3>2
    <3>3. CASE p # i
      <4>1. p \in r..(i - 1) /\ T(p) = R(p)
        BY <1>1, <1>4, <2>1, <3>3
      <4> QED  BY <1>5, <3>1, <4>1
    <3> QED  BY <3>2, <3>3
  <2>3. CASE ~(q > j)
    <3>1. T(q) = R(q - 1) /\ q - 1 \in i..(k - 1) /\ q - 1 \in i..(j - 1)
      BY <1>1, <1>4, <2>1, <2>3
    <3>2. CASE p = i
      <4>1. T(p) = R(j)
        BY <1>1, <1>4, <2>1, <3>2
      <4> QED  BY <1>7, <3>1, <4>1
    <3>3. CASE p # i
      <4>1. p \in r..(i - 1) /\ T(p) = R(p)
        BY <1>1, <1>4, <2>1, <3>3
      <4> QED  BY <1>5, <3>1, <4>1
    <3> QED  BY <3>2, <3>3
  <2> QED  BY <2>2, <2>3
<1> QED  BY <1>3, <1>8, <1>9, <1>10, <1>11 DEF MergeAt, Sorted, T

\* When one of the two runs is used up all three are one.
LEMMA MergedAll ==
  ASSUME NEW n, OnLine(n), NEW r \in 1..n, NEW i \in 1..(n + 1), NEW j \in 1..(n + 1),
         NEW k \in 1..(n + 1), r <= i, i <= j, j <= k, i = j \/ j = k, MergeAt(r, i, j, k)
  PROVE  Sorted(r, k - 1)
<1>1. n \in Nat
  BY DEF OnLine
<1>2. Sorted(i, k - 1) /\ Sorted(r, i - 1)
  BY DEF MergeAt
<1> SUFFICES ASSUME NEW a \in r..(k - 1), NEW b \in r..(k - 1), a < b
             PROVE  rank[Line[a]] <= rank[Line[b]]
  BY DEF Sorted
<1>3. \/ a \in r..(i - 1) /\ b \in r..(i - 1)
      \/ a \in r..(i - 1) /\ b \in i..(k - 1)
      \/ a \in i..(k - 1) /\ b \in i..(k - 1)
  BY <1>1
<1> QED  BY <1>2, <1>3 DEF MergeAt, Sorted

\* The runs in front of those that are merged, and those behind, stay as they are.
LEMMA OthersKept ==
  ASSUME NEW n, OnLine(n), NEW r \in 1..n, NEW i \in 1..n, NEW j \in 1..n, NEW k \in 1..(n + 1),
         r <= i, i < j, j < k, rank' = rank, LineMoved(n, i, j)
  PROVE  Left(k)' = Left(k) /\ \A c : Done(r, c)' <=> Done(r, c)
<1>1. n \in Nat /\ Len(esh_plugin_list) = n /\ Len(esh_plugin_list)' = n
  BY DEF OnLine, LineMoved
<1>2. \A q \in 1..(n + 1) : q < i \/ q > j => Line'[q] = Line[q]
  BY DEF LineMoved
<1>3. Drops(2, r - 1)' = Drops(2, r - 1)
  <2>1. \A m \in 2..(r - 1) : m \in 1..(n + 1) /\ m - 1 \in 1..(n + 1) /\ m < i /\ m - 1 < i
    BY <1>1
  <2>2. \A m \in 2..(r - 1) : less(Line[m], Line[m - 1])' <=> less(Line[m], Line[m - 1])
    BY <1>2, <2>1 DEF less
  <2> QED  BY <2>2 DEF Drops
<1>4. Drops(k + 1, n)' = Drops(k + 1, n)
  <2>1. \A m \in (k + 1)..n : m \in 1..(n + 1) /\ m - 1 \in 1..(n + 1) /\ m > j /\ m - 1 > j
    BY <1>1
  <2>2. \A m \in (k + 1)..n : less(Line[m], Line[m - 1])' <=> less(Line[m], Line[m - 1])
    BY <1>2, <2>1 DEF less
  <2> QED  BY <2>2 DEF Drops
<1>5. Line'[k] = Line[k]
  BY <1>2
<1>6. Left(k)' = Left(k)
  BY <1>1, <1>4, <1>5 DEF Left
<1>7. \A c : Done(r, c)' <=> Done(r, c)
  BY <1>3 DEF Done
<1> QED  BY <1>6, <1>7

-----------------------------------------------------------------------------
(***************************************************************************)
(* SortInv is kept.                                                        *)
(***************************************************************************)

\* What a step has to show that leaves the list alone.
LEMMA SortKept ==
  ASSUME PluginsInv, UNCHANGED <<rank, l, before>>, pc # "load", pc' # "aborted",
         output_run_cnt' <= Len(esh_plugin_list),
         RunsInv', MergeInv', RunsHalve',
         pc' \notin {"load", "pass", "runs", "merge", "pass_end"} => InOrder(esh_plugin_list)
  PROVE  SortInv'
<1>1. /\ esh_plugin_list' = esh_plugin_list
      /\ IsList(l, head, tail)' <=> IsList(l, head, tail)
      /\ InOrder(esh_plugin_list)' <=> InOrder(esh_plugin_list)
  BY SameList
<1>2. StableInv'
  BY StableKept DEF PluginsInv, SortInv
<1> QED  BY <1>1, <1>2 DEF PluginsInv, SortInv

\* A step that neither sorts nor loads.
LEMMA SortQuiet ==
  ASSUME PluginsInv, UNCHANGED <<rank, l, before, output_run_cnt>>,
         {pc, pc'} \subseteq {"sorted", "init", "options", "prompt", "fragments", "offer", "crashed"}
  PROVE  SortInv'
<1>1. RunsInv' /\ MergeInv' /\ RunsHalve'
  BY DEF RunsInv, MergeInv, RunsHalve
<1>2. InOrder(esh_plugin_list) /\ output_run_cnt <= Len(esh_plugin_list)
  BY DEF PluginsInv, SortInv
<1> QED  BY <1>1, <1>2, SortKept

LEMMA LoadSort ==
  ASSUME PluginsInv, opendir \/ (\E p \in Plugin : load_plugin(p)) \/ closedir
  PROVE  SortInv'
<1> USE DEF Goto, Constant, ghosts, sort, walk
<1>1. /\ esh_plugin_list \in Seq(Plugin) /\ IsList(l, head, tail)
      /\ output_run_cnt <= Len(esh_plugin_list) /\ output_run_cnt \in Nat
  BY DEF PluginsInv, SortInv, TypeOK
<1>2. CASE opendir
  <2>1. UNCHANGED <<rank, l, output_run_cnt>> /\ pc' = "load"
    BY <1>2 DEF opendir
  <2>2. esh_plugin_list' = esh_plugin_list /\ (IsList(l, head, tail)' <=> IsList(l, head, tail))
    BY <2>1, SameList
  <2>3. StableInv' /\ RunsInv' /\ MergeInv' /\ RunsHalve'
    BY <2>1 DEF StableInv, RunsInv, MergeInv, RunsHalve
  <2> QED  BY <1>1, <2>1, <2>2, <2>3 DEF SortInv
<1>3. ASSUME NEW p \in Plugin, load_plugin(p)  PROVE SortInv'
  <2>1. UNCHANGED output_run_cnt /\ pc' = "load"
    BY <1>3 DEF load_plugin
  <2>2. /\ esh_plugin_list' = Append(esh_plugin_list, p)
        /\ esh_plugin_list' \in Seq(Plugin) /\ IsList(l, head, tail)'
    BY <1>3, Push
  <2>3. StableInv' /\ RunsInv' /\ MergeInv' /\ RunsHalve'
    BY <2>1 DEF StableInv, RunsInv, MergeInv, RunsHalve
  <2>4. Len(esh_plugin_list)' = Len(esh_plugin_list) + 1 /\ Len(esh_plugin_list) \in Nat
    BY <1>1, <2>2, AppendProperties, LenProperties
  <2>5. output_run_cnt' <= Len(esh_plugin_list)'
    BY <1>1, <2>1, <2>4
  <2> QED  BY <2>1, <2>2, <2>3, <2>5 DEF SortInv
<1>4. CASE closedir
  <2>1. UNCHANGED <<rank, l, output_run_cnt>> /\ pc' = "pass" /\ before' = esh_plugin_list
    BY <1>4 DEF closedir
  <2>2. /\ esh_plugin_list' = esh_plugin_list /\ Line' = Line
        /\ IsList(l, head, tail)' <=> IsList(l, head, tail)
    BY <2>1, SameList
  <2>3. RunsInv' /\ MergeInv' /\ RunsHalve'
    BY <2>1 DEF RunsInv, MergeInv, RunsHalve
  <2>4. \A k \in DOMAIN esh_plugin_list : Line[k] = esh_plugin_list[k]
    BY Placed DEF OnLine
  <2>5. StableInv'
    <3>1. ASSUME NEW a \in DOMAIN esh_plugin_list, NEW b \in DOMAIN esh_plugin_list, a < b
          PROVE  Precedes(Line[a], Line[b])'
      BY <2>1, <2>2, <2>4, <3>1 DEF Precedes
    <3> QED  BY <2>1, <2>2, <3>1 DEF StableInv
  <2> QED  BY <1>1, <2>1, <2>2, <2>3, <2>5 DEF SortInv
<1> QED  BY <1>2, <1>3, <1>4

LEMMA PassSort ==
  ASSUME PluginsInv, begin_pass \/ no_more_runs \/ end_pass
  PROVE  SortInv'
<1> USE DEF Goto, Constant, ghosts, sort, walk
<1> DEFINE n == Len(esh_plugin_list)
<1>1. OnLine(n) /\ Linking(n)
  BY Placed
<1>2. /\ n \in Nat /\ Line[n + 1] = tail /\ DOMAIN Line = 1..(n + 1) /\ l.next[head] = Line[1]
      /\ \A k \in 1..n : Line[k] # tail
  BY <1>1 DEF OnLine, Linking
<1>3. output_run_cnt \in Nat /\ output_run_cnt <= n /\ runs \in Nat
  BY DEF PluginsInv, SortInv, TypeOK
<1> HIDE DEF n
<1>4. UNCHANGED <<rank, l, before>> /\ pc # "load"
  BY DEF begin_pass, no_more_runs, end_pass
<1>5. /\ Line' = Line /\ Runs(esh_plugin_list)' = Runs(esh_plugin_list)
      /\ \A i, c : Done(i, c)' <=> Done(i, c)
      /\ \A i : Left(i)' = Left(i)
  BY <1>4, SameList
<1>6. CASE begin_pass
  <2>1. /\ pc' = "runs" /\ output_run_cnt' = 0 /\ a0' = Line[1]
        /\ runs' = Runs(esh_plugin_list)
    BY <1>2, <1>6 DEF begin_pass, reset_output_run_cnt, list_begin
  <2>2. Done(1, 0)
    BY DEF Done
  <2>3. Left(1) = Runs(esh_plugin_list) /\ Left(1) \in Nat
    <3>1. 2 \in Int /\ n \in Int /\ 1 + 1 = 2 /\ (n # 0 => 1 \in 1..n)
      BY <1>2
    <3>2. Cardinality(Drops(2, n)) \in Nat
      BY <3>1, DropsFacts
    <3> QED  BY <1>1, <1>2, <3>1, <3>2, RunsIs DEF Left, n
  <2>4. RunsInv'
    <3>1. 1 \in DOMAIN Line' /\ 2 * 0 + Left(1) = Left(1)
      BY <1>2, <1>5, <2>3
    <3>2. a0' = Line'[1] /\ Done(1, 0)' /\ 2 * 0 + Left(1)' <= runs'
      BY <1>5, <2>1, <2>2, <2>3, <3>1
    <3> QED  BY <2>1, <3>1, <3>2 DEF RunsInv
  <2>5. MergeInv' /\ RunsHalve'
    BY <2>1 DEF MergeInv, RunsHalve
  <2> QED  BY <1>2, <1>4, <2>1, <2>4, <2>5, SortKept DEF n
<1>7. CASE no_more_runs
  <2>1. pc = "runs" /\ pc' = "pass_end" /\ a0 = tail /\ UNCHANGED <<output_run_cnt, runs>>
    BY <1>7 DEF no_more_runs
  <2>2. PICK i \in DOMAIN Line : /\ a0 = Line[i] /\ Done(i, output_run_cnt)
                                 /\ 2 * output_run_cnt + Left(i) <= runs
    BY <2>1 DEF PluginsInv, SortInv, RunsInv
  <2>3. i = n + 1 /\ Left(i) = 0
    BY <1>2, <2>1, <2>2 DEF Left
  <2>4. Runs(esh_plugin_list) <= output_run_cnt
    BY <1>1, <1>3, <2>2, <2>3, RunsDone
  <2>5. RunsHalve'
    BY <1>3, <1>5, <2>1, <2>2, <2>3, <2>4 DEF RunsHalve
  <2>6. RunsInv' /\ MergeInv'
    BY <2>1 DEF RunsInv, MergeInv
  <2> QED  BY <1>3, <1>4, <2>1, <2>5, <2>6, SortKept DEF n
<1>8. CASE end_pass
  <2>1. pc = "pass_end" /\ UNCHANGED output_run_cnt
    BY <1>8 DEF end_pass
  <2>2. Runs(esh_plugin_list) <= output_run_cnt
    BY <2>1 DEF PluginsInv, SortInv, RunsHalve
  <2>3. ASSUME is_last_pass  PROVE InOrder(esh_plugin_list)
    <3>1. output_run_cnt <= 1
      BY <1>3, <2>3 DEF is_last_pass
    <3>2. Runs(esh_plugin_list) = IF n = 0 THEN 0 ELSE 1 + Cardinality(Drops(2, n))
      BY <1>1, RunsIs
    <3>3. IsFiniteSet(Drops(2, n)) /\ Cardinality(Drops(2, n)) \in Nat /\ Drops(2, n) \subseteq 2..n
      <4>1. 2 \in Int /\ n \in Int
        BY <1>2
      <4> QED  BY <4>1, DropsFacts
    <3>4. n = 0 \/ Cardinality(Drops(2, n)) = 0
      BY <1>2, <1>3, <2>2, <3>1, <3>2, <3>3
    <3>5. Drops(2, n) = {}
      BY <1>2, <3>3, <3>4, FS_EmptySet
    <3> QED  BY <1>1, <3>5, InOrderIs
  <2>4. pc' = "pass" \/ (pc' = "sorted" /\ InOrder(esh_plugin_list))
    BY <1>8, <2>3 DEF end_pass
  <2>5. RunsInv' /\ MergeInv' /\ RunsHalve'
    BY <2>4 DEF RunsInv, MergeInv, RunsHalve
  <2> QED  BY <1>3, <1>4, <2>1, <2>4, <2>5, SortKept DEF n
<1> QED  BY <1>6, <1>7, <1>8

LEMMA FindSort ==
  ASSUME PluginsInv, find_runs
  PROVE  SortInv'
<1> USE DEF Goto, Constant, ghosts, sort, walk
<1> DEFINE n == Len(esh_plugin_list)
<1>1. OnLine(n) /\ output_run_cnt \in Nat /\ runs \in Nat
  BY Placed DEF PluginsInv, TypeOK
<1>2. n \in Nat /\ DOMAIN Line = 1..(n + 1)
  BY <1>1 DEF OnLine
<1> HIDE DEF n
<1>3. /\ pc = "runs" /\ UNCHANGED <<rank, l, before, a0, runs>>
      /\ output_run_cnt' = output_run_cnt + 1
  BY DEF find_runs
<1>4. /\ Line' = Line /\ Runs(esh_plugin_list)' = Runs(esh_plugin_list)
      /\ \A i, c : Done(i, c)' <=> Done(i, c)
      /\ \A i : Left(i)' = Left(i)
      /\ \A a, b : Sorted(a, b)' <=> Sorted(a, b)
      /\ \A a, b : Drops(a, b)' = Drops(a, b)
  BY <1>3, SameList
<1>5. PICK i \in 1..n, j \in 2..(n + 1) :
           /\ a0 = Line[i] /\ i < j /\ Done(i, output_run_cnt) /\ output_run_cnt < n
           /\ 2 * output_run_cnt + Left(i) <= runs
           /\ a1b0' = Line[j] /\ Sorted(i, j - 1)
           /\ \/ j = n + 1 /\ pc' = "pass_end" /\ b1' = b1 /\ Left(i) \in Nat /\ Left(i) >= 1
              \/ \E k \in 3..(n + 1) :
                   /\ b1' = Line[k] /\ j < k /\ Sorted(j, k - 1) /\ pc' = "merge"
                   /\ Left(i) \in Nat /\ Left(k) \in Nat /\ Left(i) >= 2 + Left(k)
  BY FindRuns DEF n
<1>6. output_run_cnt' <= n
  BY <1>1, <1>2, <1>3, <1>5
<1>7. CASE /\ j = n + 1 /\ pc' = "pass_end" /\ Left(i) \in Nat /\ Left(i) >= 1
  <2>1. Done(n + 1, output_run_cnt + 1)
    <3>1. n + 1 \in (i + 1)..(n + 1)
      BY <1>2, <1>5
    <3> QED  BY <1>1, <1>5, <1>7, <3>1, DoneNext
  <2>2. Runs(esh_plugin_list) <= output_run_cnt + 1
    <3>1. output_run_cnt + 1 \in Nat
      BY <1>1
    <3> QED  BY <1>1, <2>1, <3>1, RunsDone
  <2>3. RunsHalve'
    <3>1. 2 * (output_run_cnt + 1) <= runs + 1
      BY <1>1, <1>5, <1>7
    <3> QED  BY <1>3, <1>4, <2>2, <3>1 DEF RunsHalve
  <2>4. RunsInv' /\ MergeInv'
    BY <1>7 DEF RunsInv, MergeInv
  <2> QED  BY <1>3, <1>6, <1>7, <2>3, <2>4, SortKept DEF n
<1>8. ASSUME NEW k \in 3..(n + 1), b1' = Line[k], j < k, Sorted(j, k - 1), pc' = "merge",
             Left(i) \in Nat, Left(k) \in Nat, Left(i) >= 2 + Left(k)
      PROVE  SortInv'
  <2>1. 2 * (output_run_cnt + 1) + Left(k) <= runs
    BY <1>1, <1>5, <1>8
  <2>2. (output_run_cnt + 1) - 1 = output_run_cnt /\ output_run_cnt + 1 > 0
    BY <1>1
  <2>3. MergeInv'
    <3>1. i \in DOMAIN Line' /\ j \in DOMAIN Line' /\ k \in DOMAIN Line'
      BY <1>2, <1>4, <1>5, <1>8
    <3>2. i <= i /\ i <= j /\ j <= k /\ i < k
      BY <1>2, <1>5, <1>8
    <3>3. a0' = Line'[i] /\ a1b0' = Line'[j] /\ b1' = Line'[k]
      BY <1>3, <1>4, <1>5, <1>8
    <3>4. /\ output_run_cnt' > 0 /\ Done(i, output_run_cnt - 1)'
          /\ 2 * output_run_cnt' + Left(k)' <= runs'
      <4>1. output_run_cnt' - 1 = output_run_cnt /\ Drops(2, i - 1)' = Drops(2, i - 1)
        BY <1>3, <1>4, <2>2
      <4>2. Done(i, output_run_cnt - 1)'
        BY <1>5, <4>1 DEF Done
      <4> QED  BY <1>3, <1>4, <2>1, <2>2, <4>2
    <3>5. Sorted(i, i - 1)' /\ Sorted(i, j - 1)' /\ Sorted(j, k - 1)'
      <4>1. Sorted(i, i - 1)
        BY <1>2 DEF Sorted
      <4> QED  BY <1>4, <1>5, <1>8, <4>1
    <3>6. \A p \in i..(i - 1), q \in i..(k - 1) : rank'[Line'[p]] <= rank'[Line'[q]]
      BY <1>2
    <3>7. \E r \in DOMAIN Line' :
            /\ r <= i /\ i <= j /\ j <= k /\ r < k
            /\ a0' = Line'[i] /\ a1b0' = Line'[j] /\ b1' = Line'[k]
            /\ output_run_cnt' > 0 /\ Done(r, output_run_cnt - 1)'
            /\ 2 * output_run_cnt' + Left(k)' <= runs'
            /\ Sorted(r, i - 1)' /\ Sorted(i, j - 1)' /\ Sorted(j, k - 1)'
            /\ \A p \in r..(i - 1), q \in i..(k - 1) : rank'[Line'[p]] <= rank'[Line'[q]]
      BY <3>1, <3>2, <3>3, <3>4, <3>5, <3>6
    <3> QED  BY <3>1, <3>7 DEF MergeInv
  <2>4. RunsInv' /\ RunsHalve'
    BY <1>8 DEF RunsInv, RunsHalve
  <2> QED  BY <1>3, <1>6, <1>8, <2>3, <2>4, SortKept DEF n
<1> QED  BY <1>5, <1>7, <1>8

LEMMA MergeSort ==
  ASSUME PluginsInv, merge_first \/ merge_second \/ merge_end
  PROVE  SortInv'
<1> USE DEF Goto, Constant, ghosts, sort, walk
<1> DEFINE n == Len(esh_plugin_list)
<1>1. OnLine(n) /\ Linking(n) /\ output_run_cnt \in Nat /\ output_run_cnt <= n /\ runs \in Nat
  BY Placed DEF PluginsInv, SortInv, TypeOK
<1>2. n \in Nat /\ DOMAIN Line = 1..(n + 1) /\ \A k \in 1..n : l.next[Line[k]] = Line[k + 1]
  BY <1>1 DEF OnLine, Linking
<1> HIDE DEF n
<1>3. pc = "merge" /\ UNCHANGED <<rank, before, output_run_cnt, runs, b1>>
  BY DEF merge_first, merge_second, merge_end
<1>4. PICK r \in 1..n, i \in 1..(n + 1), j \in 1..(n + 1), k \in 1..(n + 1) :
        /\ r <= i /\ i <= j /\ j <= k /\ r < k
        /\ a0 = Line[i] /\ a1b0 = Line[j] /\ b1 = Line[k]
        /\ a0 = a1b0 <=> i = j
        /\ a1b0 = b1 <=> j = k
        /\ output_run_cnt \in Nat /\ output_run_cnt > 0 /\ Done(r, output_run_cnt - 1)
        /\ 2 * output_run_cnt + Left(k) <= runs
        /\ MergeAt(r, i, j, k)
  BY <1>3, MergePlace DEF n, MergeAt
<1>5. ASSUME NEW x, NEW y, x \in DOMAIN Line', y \in DOMAIN Line', DOMAIN Line' = 1..(n + 1),
             r <= x, x <= y, y <= k, a0' = Line'[x], a1b0' = Line'[y], b1' = Line'[k],
             Done(r, output_run_cnt - 1)', 2 * output_run_cnt + Left(k)' <= runs,
             MergeAt(r, x, y, k)'
      PROVE  MergeInv'
  <2>1. /\ output_run_cnt' > 0 /\ Done(r, output_run_cnt - 1)'
        /\ 2 * output_run_cnt' + Left(k)' <= runs'
    BY <1>3, <1>4, <1>5
  <2>2. r \in DOMAIN Line' /\ k \in DOMAIN Line'
    BY <1>2, <1>5
  <2>3. /\ Sorted(r, x - 1)' /\ Sorted(x, y - 1)' /\ Sorted(y, k - 1)'
        /\ \A p \in r..(x - 1), q \in x..(k - 1) : rank'[Line'[p]] <= rank'[Line'[q]]
    BY <1>5 DEF MergeAt
  <2>4. \E x0 \in DOMAIN Line', y0 \in DOMAIN Line' :
          /\ r <= x0 /\ x0 <= y0 /\ y0 <= k /\ r < k
          /\ a0' = Line'[x0] /\ a1b0' = Line'[y0] /\ b1' = Line'[k]
          /\ output_run_cnt' > 0 /\ Done(r, output_run_cnt - 1)'
          /\ 2 * output_run_cnt' + Left(k)' <= runs'
          /\ Sorted(r, x0 - 1)' /\ Sorted(x0, y0 - 1)' /\ Sorted(y0, k - 1)'
          /\ \A p \in r..(x0 - 1), q \in x0..(k - 1) : rank'[Line'[p]] <= rank'[Line'[q]]
    BY <1>4, <1>5, <2>1, <2>3
  <2> QED  BY <2>2, <2>4 DEF MergeInv
<1>6. CASE merge_first
  <2>1. pc' = "merge" /\ UNCHANGED <<l, a1b0>> /\ a0' = l.next[a0] /\ ~less(a1b0, a0)
        /\ a0 # a1b0 /\ a1b0 # b1
    BY <1>6 DEF merge_first, takes_first
  <2>2. /\ i < j /\ j < k /\ i \in 1..n /\ j \in 1..n /\ i + 1 \in 1..(n + 1)
        /\ r <= i + 1 /\ i + 1 <= j /\ j <= k
    BY <1>2, <1>4, <2>1
  <2>3. MergeAt(r, i + 1, j, k)
    BY <1>1, <1>4, <2>1, <2>2, MergedFirst
  <2>4. /\ Line' = Line /\ (\A x, c : Done(x, c)' <=> Done(x, c)) /\ (\A x : Left(x)' = Left(x))
        /\ \A a, b : Sorted(a, b)' <=> Sorted(a, b)
    BY <1>3, <2>1, SameList
  <2>5. a0' = Line'[i + 1] /\ a1b0' = Line'[j] /\ b1' = Line'[k]
    BY <1>2, <1>3, <1>4, <2>1, <2>2, <2>4
  <2>6. MergeAt(r, i + 1, j, k)'
    BY <1>3, <2>3, <2>4 DEF MergeAt
  <2>7. MergeInv'
    <3>1. i + 1 \in DOMAIN Line' /\ j \in DOMAIN Line' /\ DOMAIN Line' = 1..(n + 1)
      BY <1>2, <2>2, <2>4
    <3>2. Done(r, output_run_cnt - 1)' /\ 2 * output_run_cnt + Left(k)' <= runs
      BY <1>3, <1>4, <2>4 DEF Done
    <3> QED  BY <1>5, <2>2, <2>5, <2>6, <3>1, <3>2
  <2>8. RunsInv' /\ RunsHalve'
    BY <2>1 DEF RunsInv, RunsHalve
  <2> QED  BY <1>1, <1>3, <2>1, <2>7, <2>8, SortKept DEF n
<1>7. CASE merge_second
  <2>1. a0' = a0 /\ less(a1b0, a0) /\ a0 # a1b0 /\ a1b0 # b1
    BY <1>7 DEF merge_second, takes_first
  <2>2. i < j /\ j < k
    BY <1>2, <1>4, <2>1
  <2>3. /\ i \in 1..n /\ j \in 1..n /\ a1b0' = Line[j + 1] /\ pc' = "merge"
        /\ esh_plugin_list' = Moved(esh_plugin_list, i, j)
        /\ esh_plugin_list' \in Seq(Plugin) /\ IsList(l, head, tail)'
    BY <1>4, <1>7, <2>2, MergeSecond DEF n
  <2>4. LineMoved(n, i, j)
    BY <1>1, <2>2, <2>3, Moves
  <2>5. MergeAt(r, i + 1, j + 1, k)'
    BY <1>1, <1>3, <1>4, <2>1, <2>2, <2>3, <2>4, MergedSecond
  <2>6. Left(k)' = Left(k) /\ \A c : Done(r, c)' <=> Done(r, c)
    BY <1>1, <1>3, <1>4, <2>2, <2>3, <2>4, OthersKept
  <2>7. DOMAIN Line' = 1..(n + 1)
    <3>1. Len(esh_plugin_list)' = n /\ Line' = Append(esh_plugin_list', tail)
      BY <2>4 DEF LineMoved, Line
    <3>2. esh_plugin_list' \in Seq(Node)
      BY <2>3, Nodes, SeqMonotonic
    <3> QED  BY <3>1, <3>2, Nodes, Appended
  <2>8. a0' = Line'[i + 1] /\ a1b0' = Line'[j + 1] /\ b1' = Line'[k]
    <3>1. /\ i + 1 \in 1..(n + 1) /\ j + 1 \in 1..(n + 1) /\ ~(i + 1 < i) /\ ~(i + 1 > j) /\ i + 1 # i
          /\ (i + 1) - 1 = i /\ j + 1 > j /\ k > j
      BY <1>2, <2>2, <2>3
    <3> QED  BY <1>3, <1>4, <2>1, <2>3, <2>4, <3>1 DEF LineMoved
  <2>9. MergeInv'
    <3>1. i + 1 \in DOMAIN Line' /\ j + 1 \in DOMAIN Line'
      BY <1>2, <2>3, <2>7
    <3>2. r <= i + 1 /\ i + 1 <= j + 1 /\ j + 1 <= k
      BY <1>2, <1>4, <2>2, <2>3
    <3>3. Done(r, output_run_cnt - 1)' /\ 2 * output_run_cnt + Left(k)' <= runs
      BY <1>3, <1>4, <2>6 DEF Done
    <3> QED  BY <1>5, <2>5, <2>7, <2>8, <3>1, <3>2, <3>3
  <2>10. StableInv'
    <3>1. Sorted(i, j - 1) /\ less(Line[j], Line[i])
      BY <1>4, <2>1 DEF MergeAt
    <3>2. StableInv /\ pc # "load"
      BY <1>3 DEF PluginsInv, SortInv
    <3> QED  BY <1>1, <1>3, <2>2, <2>3, <2>4, <3>1, <3>2, StableMoved
  <2>11. RunsInv' /\ RunsHalve' /\ output_run_cnt' <= Len(esh_plugin_list)'
    BY <1>1, <1>3, <2>3, <2>4 DEF RunsInv, RunsHalve, LineMoved
  <2> QED  BY <2>3, <2>9, <2>10, <2>11 DEF SortInv
<1>8. CASE merge_end
  <2>1. pc' = "runs" /\ UNCHANGED l /\ a0' = b1 /\ (a0 = a1b0 \/ a1b0 = b1)
    BY <1>8 DEF merge_end
  <2>2. Sorted(r, k - 1)
    BY <1>1, <1>4, <2>1, MergedAll
  <2>3. Done(k, output_run_cnt)
    <3>1. /\ output_run_cnt - 1 \in Nat /\ (output_run_cnt - 1) + 1 = output_run_cnt
          /\ k \in (r + 1)..(n + 1)
      BY <1>2, <1>4
    <3> QED  BY <1>1, <1>4, <2>2, <3>1, DoneNext
  <2>4. /\ Line' = Line /\ (\A x, c : Done(x, c)' <=> Done(x, c)) /\ (\A x : Left(x)' = Left(x))
    BY <1>3, <2>1, SameList
  <2>5. RunsInv'
    <3>1. k \in DOMAIN Line' /\ a0' = Line'[k]
      BY <1>2, <1>4, <2>1, <2>4
    <3>2. Done(k, output_run_cnt)'
      <4>1. Drops(2, k - 1)' = Drops(2, k - 1)
        BY <1>3, <2>1, SameList
      <4> QED  BY <1>3, <2>3, <4>1 DEF Done
    <3>3. 2 * output_run_cnt' + Left(k)' <= runs'
      BY <1>3, <1>4, <2>4
    <3> QED  BY <3>1, <3>2, <3>3 DEF RunsInv
  <2>6. MergeInv' /\ RunsHalve'
    BY <2>1 DEF MergeInv, RunsHalve
  <2> QED  BY <1>1, <1>3, <2>1, <2>5, <2>6, SortKept DEF n
<1> QED  BY <1>6, <1>7, <1>8

-----------------------------------------------------------------------------
(***************************************************************************)
(* WalkInv is kept.                                                        *)
(***************************************************************************)

LEMMA HasFirst == \A f : Has(f, 1) = {}
<1>1. 1..(1 - 1) = {}
  OBVIOUS
<1> QED  BY <1>1 DEF Has

LEMMA HasNext ==
  ASSUME NEW n, OnLine(n), NEW i \in 1..n, NEW f
  PROVE  Has(f, i + 1) = Has(f, i) \cup {p \in {Line[i]} : f \in hooks[p]}
<1>1. n \in Nat /\ Line[i] \in Plugin /\ (i + 1) - 1 = i
  BY DEF OnLine
<1>2. \A k : k \in 1..((i + 1) - 1) <=> k \in 1..(i - 1) \/ k = i
  BY <1>1
<1> QED  BY <1>1, <1>2 DEF Has

LEMMA SameHas ==
  ASSUME UNCHANGED <<hooks, rank, l>>
  PROVE  \A f, i : Has(f, i)' = Has(f, i)
BY SameList DEF Has

\* A walk begins at the first place.
LEMMA WalkBegins ==
  ASSUME PluginsInv, UNCHANGED <<rank, hooks, l>>, e' = list_begin(l, head),
         pc' = "init" \/ notified' = <<>>
  PROVE  WalkInv'
<1>1. Line' = Line /\ \A f, i : Has(f, i)' = Has(f, i)
  BY SameList, SameHas
<1> DEFINE n == Len(esh_plugin_list)
<1>2. OnLine(n) /\ Linking(n)
  BY Placed
<1> HIDE DEF n
<1>3. 1 \in DOMAIN Line' /\ e' = Line'[1]
  BY <1>1, <1>2 DEF OnLine, Linking, list_begin
<1>4. \A f : Has(f, 1)' = {}
  BY <1>1, HasFirst
<1>5. CASE pc' = "init"
  <2>1. \A p \in Has("init", 1)' : inits'[p] > 0
    BY <1>4
  <2> QED  BY <1>3, <1>5, <2>1 DEF WalkInv
<1>6. CASE notified' = <<>> /\ pc' # "init"
  <2>1. ToSet(notified)' = {} /\ DOMAIN notified' = {}
    BY <1>6 DEF ToSet
  <2>2. ToSet(notified)' = Has(IF pc = "offer" THEN "process_builtin" ELSE "make_prompt", 1)'
    BY <1>4, <2>1
  <2> QED  BY <1>3, <1>6, <2>1, <2>2 DEF WalkInv
<1> QED  BY <1>5, <1>6

\* Plug-ins x and y have their places in the list, x before y; those in s are in that order.
Ahead(n, x, y) == \E i, k \in 1..n : i < k /\ x = Line[i] /\ y = Line[k]
InPlaces(n, s) == \A a, b \in DOMAIN s : a < b => Ahead(n, s[a], s[b])

\* A walk goes on to the next place, and calls the plug-in that it leaves.
LEMMA WalkCalls ==
  ASSUME PluginsInv, UNCHANGED <<rank, hooks, l, pc>>, pc \in {"fragments", "offer"}, e # tail,
         NEW f, f = IF pc = "offer" THEN "process_builtin" ELSE "make_prompt",
         notified' = IF f \in hooks[e] THEN Append(notified, e) ELSE notified,
         e' = l.next[e]
  PROVE  WalkInv'
<1>1. Line' = Line /\ esh_plugin_list' = esh_plugin_list /\ \A g, i : Has(g, i)' = Has(g, i)
  BY SameList, SameHas
<1> DEFINE n == Len(esh_plugin_list)
<1>2. OnLine(n)
  BY Placed
<1>3. DOMAIN Line = 1..(n + 1) /\ DOMAIN esh_plugin_list = 1..n /\ n \in Nat
  BY <1>2 DEF OnLine
<1>4. PICK i \in 1..n : /\ e = Line[i] /\ e \in Plugin /\ l.next[e] = Line[i + 1]
                        /\ ToSet(notified) = Has(f, i)
  <2>1. CASE pc = "fragments"
    BY <2>1, WalkOn DEF n
  <2>2. CASE pc = "offer"
    BY <2>2, WalkOn DEF n
  <2> QED  BY <2>1, <2>2
<1> HIDE DEF n
<1>5. notified \in Seq(Plugin)
  BY DEF PluginsInv, TypeOK
<1>6. /\ Len(notified) \in Nat /\ DOMAIN notified = 1..Len(notified)
      /\ \A m \in DOMAIN notified : notified[m] \in ToSet(notified)
  BY <1>5, LenProperties DEF ToSet
<1>7. \A m \in DOMAIN notified : \E k \in 1..(i - 1) : notified[m] = Line[k]
  BY <1>4, <1>6 DEF Has
<1>8. InPlaces(n, notified)
  BY <1>3 DEF PluginsInv, WalkInv, InPlaces, Ahead
<1>9. Has(f, i + 1) = Has(f, i) \cup {p \in {Line[i]} : f \in hooks[p]}
  BY <1>2, HasNext
<1>10. ToSet(notified)' = Has(f, i + 1) /\ InPlaces(n, notified')
  <2>1. CASE f \notin hooks[e]
    <3>1. notified' = notified
      BY <2>1
    <3>2. ToSet(notified)' = ToSet(notified)
      BY <3>1
    <3>3. {p \in {Line[i]} : f \in hooks[p]} = {}
      BY <1>4, <2>1
    <3> QED  BY <1>4, <1>8, <1>9, <3>1, <3>2, <3>3
  <2>2. CASE f \in hooks[e]
    <3> DEFINE c == Len(notified)
    <3>1. /\ DOMAIN notified' = 1..(c + 1) /\ notified'[c + 1] = e
          /\ \A m \in 1..c : notified'[m] = notified[m]
      BY <1>4, <1>5, <2>2, AppendProperties
    <3>2. c \in Nat /\ DOMAIN notified = 1..c
      BY <1>6
    <3> HIDE DEF c
    <3>3. \A m \in 1..(c + 1) : m \in 1..c \/ m = c + 1
      BY <3>2
    <3>4. c + 1 \in 1..(c + 1) /\ \A m \in 1..c : m \in 1..(c + 1)
      BY <3>2
    <3>5. ToSet(notified)' = ToSet(notified) \cup {e}
      <4>1. ToSet(notified)' = {notified'[m] : m \in 1..(c + 1)}
        BY <3>1 DEF ToSet
      <4>2. ToSet(notified) = {notified[m] : m \in 1..c}
        BY <3>2 DEF ToSet
      <4> QED  BY <3>1, <3>3, <3>4, <4>1, <4>2
    <3>6. ASSUME NEW a \in 1..(c + 1), NEW b \in 1..(c + 1), a < b
          PROVE  Ahead(n, notified'[a], notified'[b])
      <4>1. a \in 1..c
        BY <3>2, <3>6
      <4>2. CASE b \in 1..c
        <5>1. Ahead(n, notified[a], notified[b])
          BY <1>8, <3>2, <3>6, <4>1, <4>2 DEF InPlaces
        <5> QED  BY <3>1, <4>1, <4>2, <5>1
      <4>3. CASE b = c + 1
        <5>1. PICK k \in 1..(i - 1) : notified[a] = Line[k]
          BY <1>7, <3>2, <4>1
        <5>2. k \in 1..n /\ k < i
          BY <1>3, <1>4, <5>1
        <5> QED  BY <1>4, <3>1, <4>1, <4>3, <5>1, <5>2 DEF Ahead
      <4> QED  BY <3>3, <4>2, <4>3
    <3>7. InPlaces(n, notified')
      BY <3>1, <3>6 DEF InPlaces
    <3>8. {p \in {Line[i]} : f \in hooks[p]} = {e}
      BY <1>4, <2>2
    <3> QED  BY <1>4, <1>9, <3>5, <3>7, <3>8
  <2> QED  BY <2>1, <2>2
<1>11. i + 1 \in DOMAIN Line' /\ e' = Line'[i + 1]
  BY <1>1, <1>3, <1>4
<1>12. ToSet(notified)' = Has(IF pc = "offer" THEN "process_builtin" ELSE "make_prompt", i + 1)'
  BY <1>1, <1>10
<1>13. \A a, b \in DOMAIN notified' : a < b =>
         \E p, q \in DOMAIN esh_plugin_list' :
           p < q /\ notified'[a] = Line'[p] /\ notified'[b] = Line'[q]
  <2>1. ASSUME NEW a \in DOMAIN notified', NEW b \in DOMAIN notified', a < b
        PROVE  \E p, q \in 1..n : p < q /\ notified'[a] = Line[p] /\ notified'[b] = Line[q]
    <3>1. Ahead(n, notified'[a], notified'[b])
      BY <1>10, <2>1 DEF InPlaces
    <3> QED  BY <3>1 DEF Ahead
  <2>2. DOMAIN esh_plugin_list' = 1..n /\ Line' = Line
    BY <1>1, <1>3
  <2> QED  BY <2>1, <2>2
<1> QED  BY <1>11, <1>12, <1>13 DEF WalkInv

LEMMA WalkStep == PluginsInv /\ [Next]_vars => WalkInv'
<1> SUFFICES ASSUME PluginsInv, [Next]_vars  PROVE WalkInv'
  OBVIOUS
<1> USE DEF vars, sort, walk, ghosts, Goto, Constant
<1>1. ASSUME pc' \notin {"init", "fragments", "offer"}  PROVE WalkInv'
  BY <1>1 DEF WalkInv
<1>2. ASSUME esh_plugin_initialize  PROVE WalkInv'
  BY <1>2, WalkBegins DEF esh_plugin_initialize, first_to_init
<1>3. ASSUME init_plugin  PROVE WalkInv'
  <2> DEFINE n == Len(esh_plugin_list)
  <2>1. OnLine(n) /\ pc = "init" /\ pc' = "init"
    BY <1>3, Placed DEF init_plugin
  <2>2. PICK i \in 1..n : /\ e = Line[i] /\ e \in Plugin /\ l.next[e] = Line[i + 1]
                          /\ \A p \in Has("init", i) : inits[p] > 0
    BY <1>3, <2>1, WalkOn DEF init_plugin, n
  <2> HIDE DEF n
  <2>3. Line' = Line /\ Has("init", i + 1)' = Has("init", i + 1)
    BY <1>3, SameList, SameHas DEF init_plugin
  <2>4. inits \in [Plugin -> Nat]
    BY DEF PluginsInv, TypeOK
  <2>5. \A p \in Has("init", i + 1) : inits'[p] > 0
    <3>1. ASSUME NEW p \in Has("init", i + 1)  PROVE inits'[p] > 0
      <4>1. p \in Plugin /\ (p \in Has("init", i) \/ (p = e /\ "init" \in hooks[e]))
        BY <2>1, <2>2, <3>1, HasNext DEF Has
      <4> QED  BY <1>3, <2>2, <2>4, <4>1 DEF init_plugin
    <3> QED  BY <3>1
  <2>6. i + 1 \in DOMAIN Line' /\ e' = Line'[i + 1]
    BY <1>3, <2>1, <2>2, <2>3 DEF OnLine, init_plugin
  <2> QED  BY <2>1, <2>3, <2>5, <2>6 DEF WalkInv
<1>4. ASSUME build_prompt_from_plugins \/ plugin_execute  PROVE WalkInv'
  BY <1>4, WalkBegins DEF build_prompt_from_plugins, plugin_execute, begin_walk, Kept
<1>5. ASSUME make_prompt  PROVE WalkInv'
  <2>1. pc = "fragments" /\ e # tail /\ UNCHANGED <<rank, hooks, l, pc>> /\ e' = l.next[e]
    BY <1>5 DEF make_prompt, Kept
  <2>2. notified' = IF "make_prompt" \in hooks[e] THEN Append(notified, e) ELSE notified
    BY <1>5 DEF make_prompt
  <2> QED  BY <2>1, <2>2, WalkCalls
<1>6. ASSUME NEW takes \in BOOLEAN, process_builtin(takes), pc' = "offer"  PROVE WalkInv'
  <2>1. pc = "offer" /\ e # tail /\ UNCHANGED <<rank, hooks, l, pc>>
    BY <1>6 DEF process_builtin, Kept
  <2>2. "process_builtin" \in hooks[e] /\ notified' = Append(notified, e) /\ e' = l.next[e]
    BY <1>6 DEF process_builtin, next_plugin
  <2> QED  BY <2>1, <2>2, WalkCalls
<1>7. ASSUME UNCHANGED vars  PROVE WalkInv'
  <2>1. Line' = Line /\ esh_plugin_list' = esh_plugin_list /\ \A f, i : Has(f, i)' = Has(f, i)
    BY <1>7, SameList, SameHas
  <2> QED  BY <1>7, <2>1 DEF WalkInv, PluginsInv
<1>8. ASSUME opendir \/ (\E p \in Plugin : load_plugin(p)) \/ closedir
      PROVE  pc' \notin {"init", "fragments", "offer"}
  BY <1>8 DEF opendir, load_plugin, closedir
<1>9. ASSUME Sort  PROVE pc' \notin {"init", "fragments", "offer"}
  BY <1>9 DEF Sort, begin_pass, find_runs, merge_first, merge_second, merge_end, no_more_runs, end_pass
<1>10. ASSUME NextOption \/ EndOfOptions \/ command_done \/ Ended
       PROVE  pc' \notin {"init", "fragments", "offer"}
  BY <1>10 DEF NextOption, EndOfOptions, command_done, Ended
<1>11. ASSUME NEW takes \in BOOLEAN, process_builtin(takes)
       PROVE  pc' = "offer" \/ pc' = "crashed"
  BY <1>11 DEF process_builtin
<1> QED
  BY <1>1, <1>2, <1>3, <1>4, <1>5, <1>6, <1>7, <1>8, <1>9, <1>10, <1>11 DEF Next, MainStep

-----------------------------------------------------------------------------
(***************************************************************************)
(* The invariant, and what follows from it.                                *)
(***************************************************************************)

LEMMA SortStep == PluginsInv /\ [Next]_vars => SortInv'
<1> SUFFICES ASSUME PluginsInv, [Next]_vars  PROVE SortInv'
  OBVIOUS
<1> USE DEF vars, sort, walk, ghosts, Goto, Constant
<1>1. ASSUME opendir \/ (\E p \in Plugin : load_plugin(p)) \/ closedir  PROVE SortInv'
  BY <1>1, LoadSort
<1>2. ASSUME Sort  PROVE SortInv'
  BY <1>2, PassSort, FindSort, MergeSort DEF Sort
<1>3. ASSUME \/ esh_plugin_initialize \/ init_plugin \/ NextOption \/ EndOfOptions
      PROVE  SortInv'
  BY <1>3, SortQuiet DEF esh_plugin_initialize, init_plugin, NextOption, EndOfOptions
<1>4. ASSUME build_prompt_from_plugins \/ plugin_execute \/ command_done \/ make_prompt
      PROVE  SortInv'
  BY <1>4, SortQuiet DEF build_prompt_from_plugins, plugin_execute, command_done, make_prompt,
                         begin_walk, Kept
<1>5. ASSUME NEW takes \in BOOLEAN, process_builtin(takes)  PROVE SortInv'
  BY <1>5, SortQuiet DEF process_builtin, Kept
<1>6. ASSUME UNCHANGED vars  PROVE SortInv'
  <2>1. /\ esh_plugin_list' = esh_plugin_list /\ Line' = Line
        /\ IsList(l, head, tail)' <=> IsList(l, head, tail)
        /\ InOrder(esh_plugin_list)' <=> InOrder(esh_plugin_list)
        /\ Runs(esh_plugin_list)' = Runs(esh_plugin_list)
        /\ \A m, n : Sorted(m, n)' <=> Sorted(m, n)
        /\ \A m, n : Drops(m, n)' = Drops(m, n)
        /\ \A i : Left(i)' = Left(i)
    BY <1>6, SameList
  <2>2. StableInv'
    <3>1. \A p, q : Precedes(p, q)' <=> Precedes(p, q)
      BY <1>6 DEF Precedes
    <3> QED  BY <1>6, <2>1, <3>1 DEF PluginsInv, SortInv, StableInv
  <2>3. RunsInv' /\ MergeInv'
    BY <1>6, <2>1 DEF PluginsInv, SortInv, RunsInv, MergeInv, Done
  <2> QED  BY <1>6, <2>1, <2>2, <2>3 DEF PluginsInv, SortInv, RunsHalve
<1>7. ASSUME Ended  PROVE UNCHANGED vars
  BY <1>7 DEF Ended
<1> QED  BY <1>1, <1>2, <1>3, <1>4, <1>5, <1>6, <1>7 DEF Next, MainStep

LEMMA InitInv == Init => PluginsInv
<1> SUFFICES ASSUME Init  PROVE PluginsInv
  OBVIOUS
<1> USE DEF Init
<1>1. /\ l \in Links /\ l.next[head] = tail /\ l.next[tail] = NULL
      /\ l.prev[head] = NULL /\ l.prev[tail] = head
  BY Nodes DEF list_init, Unlinked, Links
<1>2. Sound(l, head, <<>>, tail)
  <2>1. /\ Len(<<>>) = 0 /\ IsInjective(<<>>) /\ 0..0 = {0}
    BY DEF IsInjective
  <2>2. At(head, <<>>, tail, 0) = head /\ At(head, <<>>, tail, 0 + 1) = tail
    BY <2>1 DEF At
  <2> QED  BY <1>1, <2>1, <2>2 DEF Sound
<1>3. esh_plugin_list = <<>> /\ IsList(l, head, tail)
  <2>1. <<>> \in Seq(Elem) /\ head \in Sentinel /\ tail \in Sentinel /\ head # tail
    BY Nodes
  <2>2. Order(l, head) = <<>> /\ IsList(l, head, tail)
    BY <1>2, <2>1, SoundIsList
  <2> QED  BY <2>2 DEF esh_plugin_list
<1>4. <<>> \in Seq(Plugin) /\ Len(<<>>) = 0 /\ DOMAIN <<>> = {} /\ ~\E p : Contains(<<>>, p)
  BY DEF Contains
<1>5. TypeOK
  <2>1. Cardinality(Plugin) \in Nat
    BY Nodes, FS_CardinalityType
  <2>2. tail \in Node /\ output_run_cnt \in 0..Cardinality(Plugin)
    BY <2>1, Nodes
  <2>3. inits \in [Plugin -> Nat] /\ isPlugin \in BOOLEAN /\ runs \in Nat
    OBVIOUS
  <2> QED  BY <1>1, <1>4, <2>2, <2>3 DEF TypeOK
<1>6. StableInv /\ RunsInv /\ MergeInv /\ RunsHalve /\ WalkInv
  BY <1>3, <1>4 DEF StableInv, RunsInv, MergeInv, RunsHalve, WalkInv
<1>7. InOrder(esh_plugin_list)
  BY <1>3, <1>4 DEF InOrder
<1> QED  BY <1>3, <1>4, <1>5, <1>6, <1>7 DEF PluginsInv, SortInv

LEMMA PluginsStep == PluginsInv /\ [Next]_vars => PluginsInv'
BY TypeStep, SortStep, WalkStep DEF PluginsInv

LEMMA SameElements ==
  ASSUME NEW s \in Seq(Plugin), NEW t \in Seq(Plugin),
         \A p \in Plugin : Contains(s, p) <=> Contains(t, p)
  PROVE  ToSet(s) = ToSet(t)
BY LenProperties, ElementOfSeq DEF Contains, ToSet

\* What the main loop has of the plug-ins, whichever directories it loads and whatever it
\* finds in them: the inductive invariant.
THEOREM PluginsInvariance == Spec => []PluginsInv
<1> QED  BY InitInv, PluginsStep, PTL DEF Spec

\* list_sort works in the only copy of the list: no splice of a merge loses or doubles a plug-in,
\* or leaves a link that points elsewhere.
THEOREM SortKeepsList == Spec => []ListKept
<1>1. PluginsInv => ListKept
  <2> SUFFICES ASSUME PluginsInv, Sorting  PROVE ToSet(esh_plugin_list) = ToSet(before)
    BY DEF PluginsInv, SortInv, ListKept
  <2>1. esh_plugin_list \in Seq(Plugin) /\ before \in Seq(Plugin)
    BY DEF PluginsInv, SortInv, TypeOK
  <2>2. \A p \in Plugin : Contains(esh_plugin_list, p) <=> Contains(before, p)
    BY DEF PluginsInv, SortInv, StableInv, Sorting
  <2> QED  BY <2>1, <2>2, SameElements
<1> QED  BY <1>1, PluginsInvariance, PTL

\* The three assertions of inplace_merge, and those of list_splice and list_sort, never stop the
\* shell, in whichever order the plug-ins come and whatever their ranks.
THEOREM NoAssertionFails == Spec => []AssertionsHold
<1>1. PluginsInv => AssertionsHold
  BY DEF PluginsInv, SortInv, AssertionsHold
<1> QED  BY <1>1, PluginsInvariance, PTL

\* A pass leaves half the runs it found, and counts no fewer than there are: list_sort may
\* stop at a count of one, and makes no more passes than its comment says.
THEOREM PassHalvesRuns == Spec => []RunsHalve
<1>1. PluginsInv => RunsHalve
  BY DEF PluginsInv, SortInv
<1> QED  BY <1>1, PluginsInvariance, PTL

\* After every -p all plug-ins are in the order of their ranks, and those of one rank in the
\* order they were loaded in.
THEOREM SortIsStable == Spec => []SortedStably
<1>1. PluginsInv => SortedStably
  <2> SUFFICES ASSUME PluginsInv, pc \in {"sorted", "init", "options", "prompt"}
               PROVE  SortedStably
    BY DEF SortedStably
  <2> DEFINE n == Len(esh_plugin_list)
  <2>1. OnLine(n) /\ before \in Seq(Plugin)
    BY Placed DEF PluginsInv, TypeOK
  <2>2. ToSet(esh_plugin_list) = ToSet(before)
    <3>1. \A p \in Plugin : Contains(esh_plugin_list, p) <=> Contains(before, p)
      BY DEF PluginsInv, SortInv, StableInv
    <3>2. esh_plugin_list \in Seq(Plugin)
      BY DEF PluginsInv, SortInv
    <3> QED  BY <2>1, <3>1, <3>2, SameElements
  <2>3. Sorted(1, n)
    BY <2>1, OneRun DEF PluginsInv, SortInv
  <2>4. ASSUME NEW a \in DOMAIN esh_plugin_list, NEW b \in DOMAIN esh_plugin_list, a < b
        PROVE  \/ rank[esh_plugin_list[a]] < rank[esh_plugin_list[b]]
               \/ /\ rank[esh_plugin_list[a]] = rank[esh_plugin_list[b]]
                  /\ Precedes(esh_plugin_list[a], esh_plugin_list[b])
    <3>1. /\ a \in 1..n /\ b \in 1..n /\ Line[a] = esh_plugin_list[a] /\ Line[b] = esh_plugin_list[b]
          /\ rank[Line[a]] \in Nat /\ rank[Line[b]] \in Nat
      BY <2>1, <2>4 DEF OnLine
    <3>2. rank[Line[a]] <= rank[Line[b]]
      BY <2>3, <2>4, <3>1 DEF Sorted
    <3>3. rank[Line[a]] = rank[Line[b]] => Precedes(Line[a], Line[b])
      BY <2>4 DEF PluginsInv, SortInv, StableInv
    <3> QED  BY <3>1, <3>2, <3>3
  <2> QED  BY <2>2, <2>4 DEF SortedStably
<1> QED  BY <1>1, PluginsInvariance, PTL

\* A prompt and a command reach the plug-ins that have the function in the order of the ranks,
\* each once and none passed over.
THEOREM CallsInRank == Spec => []NotifiedInRank
<1>1. PluginsInv => NotifiedInRank
  <2> SUFFICES ASSUME PluginsInv, pc \in {"fragments", "offer"}  PROVE NotifiedInRank
    BY DEF NotifiedInRank
  <2> DEFINE n == Len(esh_plugin_list)
             f == IF pc = "offer" THEN "process_builtin" ELSE "make_prompt"
  <2>1. OnLine(n) /\ Sorted(1, n)
    <3>1. OnLine(n) /\ InOrder(esh_plugin_list)
      BY Placed DEF PluginsInv, SortInv
    <3> QED  BY <3>1, OneRun
  <2>2. /\ n \in Nat /\ DOMAIN esh_plugin_list = 1..n /\ DOMAIN Line = 1..(n + 1)
        /\ \A k \in 1..n : Line[k] = esh_plugin_list[k] /\ Line[k] # tail
        /\ \A a, b \in 1..(n + 1) : Line[a] = Line[b] => a = b
        /\ esh_plugin_list \in Seq(Plugin)
    BY <2>1 DEF OnLine
  <2>3. PICK i \in DOMAIN Line : e = Line[i] /\ ToSet(notified) = Has(f, i)
    BY DEF PluginsInv, WalkInv
  <2> HIDE DEF n
  <2>4. ASSUME NEW a \in DOMAIN notified, NEW b \in DOMAIN notified, a < b
        PROVE  notified[a] # notified[b] /\ rank[notified[a]] <= rank[notified[b]]
    <3>1. PICK p \in 1..n, q \in 1..n : p < q /\ notified[a] = Line[p] /\ notified[b] = Line[q]
      BY <2>2, <2>4 DEF PluginsInv, WalkInv
    <3>2. p \in 1..(n + 1) /\ q \in 1..(n + 1) /\ p # q
      BY <2>2, <3>1
    <3> QED  BY <2>1, <2>2, <3>1, <3>2 DEF Sorted
  <2>5. ASSUME e = tail
        PROVE  ToSet(notified) = {p \in ToSet(esh_plugin_list) : f \in hooks[p]}
    <3>1. i = n + 1 /\ (n + 1) - 1 = n
      <4>1. i \in 1..(n + 1) /\ Line[i] = tail /\ n \in Nat
        BY <2>2, <2>3, <2>5
      <4>2. i \notin 1..n
        BY <2>2, <4>1
      <4> QED  BY <4>1, <4>2
    <3>2. \A p : (\E k \in 1..n : Line[k] = p) <=> p \in ToSet(esh_plugin_list)
      BY <2>2 DEF ToSet
    <3>3. ToSet(esh_plugin_list) \subseteq Plugin
      BY <2>2, ElementOfSeq DEF ToSet
    <3> QED  BY <2>3, <3>1, <3>2, <3>3 DEF Has
  <2>6. ASSUME NEW p \in ToSet(notified), NEW q \in ToSet(esh_plugin_list),
               f \in hooks[q], rank[q] < rank[p]
        PROVE  q \in ToSet(notified)
    <3>1. PICK k \in 1..(i - 1) : Line[k] = p
      BY <2>3 DEF Has
    <3>2. PICK m \in 1..n : Line[m] = q
      BY <2>2 DEF ToSet
    <3>3. i \in 1..(n + 1) /\ k \in 1..n
      BY <2>2, <2>3
    <3>4. q \in Plugin /\ p \in Plugin /\ rank[p] \in Nat /\ rank[q] \in Nat
      BY <2>1, <3>1, <3>2, <3>3 DEF OnLine
    <3>5. ~(k < m) \/ rank[p] <= rank[q]
      BY <2>1, <3>1, <3>2, <3>3 DEF Sorted
    <3>6. k # m
      BY <2>6, <3>1, <3>2, <3>4
    <3>7. m \in 1..(i - 1)
      BY <2>6, <3>2, <3>3, <3>4, <3>5, <3>6
    <3> QED  BY <2>3, <2>6, <3>2, <3>4, <3>7 DEF Has
  <2>7. f = IF pc = "fragments" THEN "make_prompt" ELSE "process_builtin"
    OBVIOUS
  <2> HIDE DEF f
  <2> QED  BY <2>4, <2>5, <2>6, <2>7 DEF NotifiedInRank
<1> QED  BY <1>1, PluginsInvariance, PTL

\* No plug-in is initialised before one of a lower rank: esh_plugin_initialize goes over the whole
\* list after every -p.
THEOREM InitFollowsRank == Spec => InitInRank
<1> DEFINE InRank(p) == inits'[p] # inits[p] =>
                          \A q \in ToSet(esh_plugin_list) :
                            rank[q] < rank[p] /\ "init" \in hooks[q] => inits[q] > 0
<1>1. PluginsInv /\ [Next]_vars => [\A p \in Plugin : InRank(p)]_vars
  <2> SUFFICES ASSUME PluginsInv, [Next]_vars, NEW p \in Plugin, inits'[p] # inits[p],
                      NEW q \in ToSet(esh_plugin_list), rank[q] < rank[p], "init" \in hooks[q]
               PROVE  inits[q] > 0
    OBVIOUS
  <2> DEFINE n == Len(esh_plugin_list)
  <2>1. init_plugin
    BY DEF vars, sort, walk, ghosts, Constant, Kept, begin_walk, Next, MainStep, Sort, Ended,
           opendir, load_plugin, closedir, EndOfOptions, NextOption, esh_plugin_initialize,
           begin_pass, find_runs, merge_first, merge_second, merge_end, no_more_runs, end_pass,
           build_prompt_from_plugins, plugin_execute, command_done, make_prompt, process_builtin
  <2>2. OnLine(n) /\ Sorted(1, n)
    <3>1. OnLine(n) /\ InOrder(esh_plugin_list)
      BY <2>1, Placed DEF PluginsInv, SortInv, init_plugin
    <3> QED  BY <3>1, OneRun
  <2>3. PICK i \in 1..n : e = Line[i] /\ e \in Plugin /\ \A x \in Has("init", i) : inits[x] > 0
    BY <2>1, WalkOn DEF init_plugin, n
  <2>4. p = e
    BY <2>1, <2>3 DEF init_plugin, PluginsInv, TypeOK
  <2>5. /\ n \in Nat /\ DOMAIN esh_plugin_list = 1..n
        /\ \A k \in 1..n : /\ Line[k] = esh_plugin_list[k] /\ Line[k] \in Plugin
                           /\ rank[Line[k]] \in Nat
    BY <2>2 DEF OnLine
  <2>6. PICK k \in 1..n : q = Line[k]
    BY <2>5 DEF ToSet
  <2> HIDE DEF n
  <2>7. k \in 1..(i - 1)
    <3>1. ~(i < k)
      BY <2>2, <2>3, <2>4, <2>5, <2>6 DEF Sorted
    <3>2. k # i
      BY <2>3, <2>4, <2>5, <2>6
    <3> QED  BY <2>5, <3>1, <3>2
  <2> QED  BY <2>3, <2>5, <2>6, <2>7 DEF Has
<1> QED  BY <1>1, PluginsInvariance, PTL DEF Spec, InitInRank
=============================================================================
