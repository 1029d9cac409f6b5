--------------------------- MODULE EshList_proofs ---------------------------
(***************************************************************************)
(* Proofs about EshList, for any number of jobs.                           *)
(***************************************************************************)
EXTENDS EshList, List_proofs

LEMMA Nodes ==
  /\ Elem = Job /\ job_head \in Sentinel /\ job_tail \in Sentinel
  /\ pipes_head \in Sentinel /\ pipes_tail \in Sentinel
  /\ job_head # job_tail /\ pipes_head # pipes_tail
  /\ {job_head, job_tail} \cap {pipes_head, pipes_tail} = {}
  /\ Job \cap Sentinel = {} /\ Job \subseteq Node /\ Sentinel \subseteq Node /\ NULL \notin Node
<1>1. /\ Elem = Job /\ Sentinel = {job_head, job_tail, pipes_head, pipes_tail}
      /\ IsInjective(<<job_head, job_tail, pipes_head, pipes_tail>>)
  BY ListAssumption
<1>2. /\ job_head # job_tail /\ job_head # pipes_head /\ job_head # pipes_tail
      /\ job_tail # pipes_head /\ job_tail # pipes_tail /\ pipes_head # pipes_tail
  <2> DEFINE h == <<job_head, job_tail, pipes_head, pipes_tail>>
  <2>1. /\ DOMAIN h = 1..4 /\ h[1] = job_head /\ h[2] = job_tail /\ h[3] = pipes_head
        /\ h[4] = pipes_tail
    OBVIOUS
  <2>2. \A i, j \in 1..4 : h[i] = h[j] => i = j
    BY <1>1, <2>1 DEF IsInjective
  <2> HIDE DEF h
  <2> QED  BY <2>1, <2>2
<1> QED  BY <1>1, <1>2, NodeAssumption DEF Node

-----------------------------------------------------------------------------
(***************************************************************************)
(* The two lists.                                                          *)
(***************************************************************************)

\* In the store m job_list is a, and cline->pipes is b.
Rings(m, a, b) ==
  /\ m \in Links /\ a \in Seq(Job) /\ b \in Seq(Job)
  /\ \A j \in Job : ~(Contains(a, j) /\ Contains(b, j))
  /\ Sound(m, job_head, a, job_tail) /\ Sound(m, pipes_head, b, pipes_tail)

LEMMA RingsNow ==
  ASSUME TypeOK, RingInv, pc # "back"
  PROVE  Rings(l, job_list, pipes)
<1>1. job_list \in Seq(Elem) /\ pipes \in Seq(Elem) /\ l \in Links
  BY Nodes DEF RingInv, TypeOK
<1>2. IsList(l, job_head, job_tail) /\ IsList(l, pipes_head, pipes_tail)
  BY DEF RingInv
<1>3. Sound(l, job_head, job_list, job_tail) /\ Sound(l, pipes_head, pipes, pipes_tail)
  BY <1>1, <1>2, ListIsSound, Nodes DEF job_list, pipes
<1> QED  BY <1>1, <1>3, Nodes DEF Rings, RingInv, Listed, Hanging

LEMMA RingsAre ==
  ASSUME NEW m, NEW a, NEW b, Rings(m, a, b)
  PROVE  /\ Order(m, job_head) = a /\ IsList(m, job_head, job_tail)
         /\ Order(m, pipes_head) = b /\ IsList(m, pipes_head, pipes_tail)
<1>1. a \in Seq(Elem) /\ b \in Seq(Elem)
  BY Nodes DEF Rings
<1> QED  BY <1>1, Nodes, SoundIsList DEF Rings

LEMMA RingsNext ==
  ASSUME NEW a, NEW b, Rings(l', a, b), pc' # "back"
  PROVE  /\ RingInv' /\ job_list' = a /\ pipes' = b
         /\ \A j \in Job : (Listed(j)' <=> Contains(a, j)) /\ (Hanging(j)' <=> Contains(b, j))
<1>1. /\ job_list' = a /\ IsList(l', job_head, job_tail)
      /\ pipes' = b /\ IsList(l', pipes_head, pipes_tail)
  BY RingsAre DEF job_list, pipes
<1>2. \A j \in Job : (Listed(j)' <=> Contains(a, j)) /\ (Hanging(j)' <=> Contains(b, j))
  BY <1>1 DEF Listed, Hanging
<1> QED  BY <1>1, <1>2 DEF RingInv, Rings

LEMMA InRings ==
  ASSUME NEW m, NEW a, NEW b, Rings(m, a, b), NEW y,
         y = job_head \/ y = job_tail \/ Contains(a, y)
  PROVE  y \in Node /\ y # pipes_head /\ y # pipes_tail /\ ~Contains(b, y)
<1>1. Contains(a, y) => y \in Job
  BY DEF Contains, Rings
<1>2. Contains(b, y) => y \in Job
  BY DEF Contains, Rings
<1> QED  BY <1>1, <1>2, Nodes DEF Rings

\* What is stored into the links of one list, or of what is in none, leaves the other alone.
LEMMA JobFrame ==
  ASSUME NEW m, NEW a, NEW b, Rings(m, a, b), NEW m2,
         \A y \in Node : y = job_head \/ y = job_tail \/ Contains(a, y) =>
           m2.next[y] = m.next[y] /\ m2.prev[y] = m.prev[y]
  PROVE  Sound(m2, job_head, a, job_tail)
BY SoundFrame, Nodes DEF Rings

LEMMA PipesFrame ==
  ASSUME NEW m, NEW a, NEW b, Rings(m, a, b), NEW m2,
         \A y \in Node : y = pipes_head \/ y = pipes_tail \/ Contains(b, y) =>
           m2.next[y] = m.next[y] /\ m2.prev[y] = m.prev[y]
  PROVE  Sound(m2, pipes_head, b, pipes_tail)
BY SoundFrame, Nodes DEF Rings

\* Who is next to whom in job_list, and in cline->pipes.
LEMMA JobNeighbours ==
  ASSUME NEW m, NEW a, NEW b, Rings(m, a, b)
  PROVE  /\ m.next[job_head] = job_tail \/ Contains(a, m.next[job_head])
         /\ m.prev[job_tail] = job_head \/ Contains(a, m.prev[job_tail])
         /\ \A j : Contains(a, j) =>
              /\ m.prev[j] = job_head \/ Contains(a, m.prev[j])
              /\ m.next[j] = job_tail \/ Contains(a, m.next[j])
              /\ m.prev[j] # j /\ m.next[j] # j /\ m.next[m.prev[j]] = j
<1>1. /\ a \in Seq(Elem) /\ Sound(m, job_head, a, job_tail)
      /\ job_head \in Sentinel /\ job_tail \in Sentinel /\ job_head # job_tail
  BY Nodes DEF Rings
<1> DEFINE n == Len(a)
<1>2. Around(m, job_head, a, job_tail, n)
  BY <1>1, Neighbours
<1> HIDE DEF n
<1>3. ASSUME NEW j, Contains(a, j)
      PROVE  /\ m.prev[j] = job_head \/ Contains(a, m.prev[j])
             /\ m.next[j] = job_tail \/ Contains(a, m.next[j])
             /\ m.prev[j] # j /\ m.next[j] # j /\ m.next[m.prev[j]] = j
  <2>1. PICK k \in 1..n : a[k] = j
    BY <1>2, <1>3 DEF Around
  <2>2. j # job_head /\ j # job_tail
    BY <1>2, <2>1, Nodes DEF Around
  <2>3. k # 1 => k - 1 \in 1..n /\ k - 1 # k
    BY <1>2 DEF Around
  <2>4. k # n => k + 1 \in 1..n /\ k + 1 # k
    BY <1>2 DEF Around
  <2>5. m.prev[j] = IF k = 1 THEN job_head ELSE a[k - 1]
    BY <1>2, <2>1 DEF Around
  <2>6. m.next[j] = IF k = n THEN job_tail ELSE a[k + 1]
    BY <1>2, <2>1 DEF Around
  <2>7. \A i \in 1..n : Contains(a, a[i]) /\ (a[i] = j => i = k)
    BY <1>2, <2>1 DEF Around, IsInjective
  <2>8. (m.prev[j] = job_head \/ Contains(a, m.prev[j])) /\ m.prev[j] # j
    BY <2>2, <2>3, <2>5, <2>7
  <2>9. (m.next[j] = job_tail \/ Contains(a, m.next[j])) /\ m.next[j] # j
    BY <2>2, <2>4, <2>6, <2>7
  <2>10. m.next[m.prev[j]] = j
    <3>1. n # 0 /\ (k # 1 => k - 1 # n /\ (k - 1) + 1 = k)
      BY <1>2 DEF Around
    <3>2. m.next[job_head] = a[1]
      BY <1>2, <3>1 DEF Around
    <3>3. \A i \in 1..n : i # n => m.next[a[i]] = a[i + 1]
      BY <1>2 DEF Around
    <3> QED  BY <2>1, <2>3, <2>5, <3>1, <3>2, <3>3
  <2> QED  BY <2>8, <2>9, <2>10
<1> QED  BY <1>2, <1>3 DEF Around

LEMMA PipesNeighbours ==
  ASSUME NEW m, NEW a, NEW b, Rings(m, a, b)
  PROVE  /\ m.next[pipes_head] = pipes_tail \/ Contains(b, m.next[pipes_head])
         /\ m.prev[pipes_tail] = pipes_head \/ Contains(b, m.prev[pipes_tail])
         /\ m.next[pipes_head] # pipes_tail =>
              /\ 1 \in DOMAIN b /\ b[1] = m.next[pipes_head]
              /\ m.prev[b[1]] = pipes_head
              /\ m.next[b[1]] = pipes_tail \/ Contains(b, m.next[b[1]])
<1>1. /\ b \in Seq(Elem) /\ Sound(m, pipes_head, b, pipes_tail)
      /\ pipes_head \in Sentinel /\ pipes_tail \in Sentinel /\ pipes_head # pipes_tail
  BY Nodes DEF Rings
<1> DEFINE n == Len(b)
<1>2. Around(m, pipes_head, b, pipes_tail, n)
  BY <1>1, Neighbours
<1> HIDE DEF n
<1>3. 1 # n /\ 1 \in 1..n => 1 + 1 \in 1..n
  BY <1>2 DEF Around
<1> QED  BY <1>2, <1>3 DEF Around

-----------------------------------------------------------------------------
(***************************************************************************)
(* What the actions make of the two lists.                                 *)
(***************************************************************************)

\* Jobs are not nodes that end lists, so that what is in a list is no sentinel.
LEMMA HangRings ==
  ASSUME TypeOK, RingInv, pc # "back", NEW j \in Job, ~Listed(j), ~Hanging(j),
         l' = list_push_back(l, pipes_tail, j)
  PROVE  Rings(l', job_list, Append(pipes, j))
<1>1. Rings(l, job_list, pipes)
  BY RingsNow
<1>2. l.prev[pipes_tail] = pipes_head \/ Contains(pipes, l.prev[pipes_tail])
  BY <1>1, PipesNeighbours
<1>3. ~Contains(job_list, j) /\ ~Contains(pipes, j) /\ j \in Elem /\ j \in Node
  BY Nodes DEF Listed, Hanging
<1>4. l.prev[pipes_tail] \in Node /\ l.prev[pipes_tail] # j
  <2>1. Contains(pipes, l.prev[pipes_tail]) => l.prev[pipes_tail] \in Job
    BY <1>1 DEF Contains, Rings
  <2> QED  BY <1>2, <1>3, <2>1, Nodes
<1>5. /\ l' \in Links
      /\ \A y \in Node :
           /\ l'.next[y] = IF y = l.prev[pipes_tail] THEN j ELSE IF y = j THEN pipes_tail ELSE l.next[y]
           /\ l'.prev[y] = IF y = pipes_tail THEN j ELSE IF y = j THEN l.prev[pipes_tail] ELSE l.prev[y]
  <2>1. l \in Links /\ pipes_tail \in Node /\ pipes_tail # j
    BY <1>1, Nodes DEF Rings
  <2> QED  BY <1>3, <1>4, <2>1, InsertLinks DEF list_push_back
<1>6. Sound(l', pipes_head, Append(pipes, j), pipes_tail)
  <2>1. pipes \in Seq(Elem) /\ Sound(l, pipes_head, pipes, pipes_tail)
    BY <1>1, Nodes DEF Rings
  <2> QED  BY <1>3, <1>5, <2>1, Nodes, PushSound
<1>7. Sound(l', job_head, job_list, job_tail)
  <2>1. ASSUME NEW y \in Node, y = job_head \/ y = job_tail \/ Contains(job_list, y)
        PROVE  l'.next[y] = l.next[y] /\ l'.prev[y] = l.prev[y]
    <3>1. y # pipes_head /\ y # pipes_tail /\ ~Contains(pipes, y)
      BY <1>1, <2>1, InRings
    <3>2. y # j
      BY <1>3, <2>1, Nodes
    <3> QED  BY <1>2, <1>5, <3>1, <3>2
  <2> QED  BY <1>1, <2>1, JobFrame
<1>8. /\ Append(pipes, j) \in Seq(Job)
      /\ \A i : Contains(Append(pipes, j), i) <=> Contains(pipes, i) \/ i = j
  BY <1>1, Appended DEF Rings
<1> QED  BY <1>1, <1>3, <1>5, <1>6, <1>7, <1>8 DEF Rings

LEMMA PopRings ==
  ASSUME TypeOK, RingInv, pc # "back", ~list_empty(l, pipes_head, pipes_tail), pop_pipeline
  PROVE  /\ e' \in Job /\ Hanging(e') /\ 1 \in DOMAIN pipes /\ pipes[1] = e'
         /\ Rings(l', job_list, RemoveAt(pipes, 1))
<1>1. Rings(l, job_list, pipes)
  BY RingsNow
<1>2. /\ e' = l.next[pipes_head] /\ l.next[pipes_head] # pipes_tail
      /\ l' = list_remove(l, l.next[pipes_head])
  BY DEF pop_pipeline, list_empty, list_begin
<1>3. /\ 1 \in DOMAIN pipes /\ pipes[1] = e' /\ l.prev[e'] = pipes_head
      /\ l.next[e'] = pipes_tail \/ Contains(pipes, l.next[e'])
  BY <1>1, <1>2, PipesNeighbours
<1>4. /\ pipes \in Seq(Job) /\ pipes \in Seq(Elem)
      /\ \A y : Contains(pipes, y) => y \in Job
      /\ Contains(pipes, pipes[1]) /\ pipes[1] \in Job
  BY <1>1, <1>3, Nodes, LenProperties, ElementOfSeq DEF Rings, Contains
<1>5. /\ l' \in Links
      /\ \A y \in Node : /\ l'.next[y] = IF y = l.prev[e'] THEN l.next[e'] ELSE l.next[y]
                         /\ l'.prev[y] = IF y = l.next[e'] THEN l.prev[e'] ELSE l.prev[y]
  <2>1. l \in Links /\ e' \in Node /\ l.prev[e'] \in Node /\ l.next[e'] \in Node
    BY <1>1, <1>3, <1>4, Nodes DEF Rings
  <2> QED  BY <1>2, <2>1, RemoveLinks
<1>6. Sound(l', pipes_head, RemoveAt(pipes, 1), pipes_tail)
  BY <1>1, <1>3, <1>4, <1>5, Nodes, RemoveSound DEF Rings
<1>7. Sound(l', job_head, job_list, job_tail)
  <2>1. ASSUME NEW y \in Node, y = job_head \/ y = job_tail \/ Contains(job_list, y)
        PROVE  l'.next[y] = l.next[y] /\ l'.prev[y] = l.prev[y]
    <3>1. y # pipes_head /\ y # pipes_tail /\ ~Contains(pipes, y)
      BY <1>1, <2>1, InRings
    <3> QED  BY <1>3, <1>5, <3>1
  <2> QED  BY <1>1, <2>1, JobFrame
<1>8. /\ RemoveAt(pipes, 1) \in Seq(Job)
      /\ \A y : Contains(RemoveAt(pipes, 1), y) => Contains(pipes, y)
  <2>1. IsInjective(pipes)
    BY <1>1 DEF Rings, Sound
  <2> QED  BY <1>3, <1>4, <2>1, RemoveAtIs, RemoveAtRest
<1> QED  BY <1>1, <1>3, <1>4, <1>5, <1>6, <1>7, <1>8 DEF Rings, Hanging

\* The first two stores write into the new element only.
LEMMA StoreRings ==
  ASSUME TypeOK, RingInv, pc # "back", e \in Job, ~Listed(e), ~Hanging(e),
         l' = store_prev(l, job_tail, e) \/ l' = store_next(l, job_tail, e)
  PROVE  /\ Rings(l', job_list, pipes)
         /\ l'.prev[job_tail] = l.prev[job_tail]
         /\ l' = store_prev(l, job_tail, e) => l'.prev[e] = l.prev[job_tail]
         /\ l' = store_next(l, job_tail, e) => l'.prev[e] = l.prev[e] /\ l'.next[e] = job_tail
<1>1. Rings(l, job_list, pipes)
  BY RingsNow
<1>2. ~Contains(job_list, e) /\ ~Contains(pipes, e) /\ e \in Elem /\ e \in Node
  BY Nodes DEF Listed, Hanging
<1>3. l.prev[job_tail] \in Node
  <2>1. \A y : Contains(job_list, y) => y \in Job
    BY <1>1 DEF Contains, Rings
  <2> QED  BY <1>1, <2>1, JobNeighbours, Nodes
<1>4. /\ l' \in Links
      /\ \A y \in Node : y # e => l'.next[y] = l.next[y] /\ l'.prev[y] = l.prev[y]
      /\ l' = store_prev(l, job_tail, e) => l'.prev[e] = l.prev[job_tail]
      /\ l' = store_next(l, job_tail, e) => l'.prev[e] = l.prev[e] /\ l'.next[e] = job_tail
  <2>1. l \in Links /\ job_tail \in Node
    BY <1>1, Nodes DEF Rings
  <2> QED  BY <1>2, <1>3, <2>1, Stores DEF Same
<1>5. e # job_head /\ e # job_tail /\ e # pipes_head /\ e # pipes_tail /\ job_tail \in Node
  BY Nodes
<1>6. Sound(l', job_head, job_list, job_tail)
  BY <1>1, <1>2, <1>4, <1>5, JobFrame
<1>7. Sound(l', pipes_head, pipes, pipes_tail)
  BY <1>1, <1>2, <1>4, <1>5, PipesFrame
<1> QED  BY <1>1, <1>4, <1>5, <1>6, <1>7 DEF Rings

\* The third store enters the element; the fourth one completes the list.
LEMMA LinkRings ==
  ASSUME TypeOK, RingInv, pc # "back", e \in Job, ~Listed(e), ~Hanging(e),
         l.prev[e] = l.prev[job_tail], l.next[e] = job_tail,
         l' = store_link(l, job_tail, e)
  PROVE  /\ Rings(store_back(l', job_tail, e), Append(job_list, e), pipes)
         /\ l' \in Links
         /\ job_list' = Append(job_list, e) /\ pipes' = pipes
         /\ IsList(l', pipes_head, pipes_tail)
<1> DEFINE m == store_back(l', job_tail, e)
<1>1. Rings(l, job_list, pipes)
  BY RingsNow
<1>2. ~Contains(job_list, e) /\ ~Contains(pipes, e) /\ e \in Elem /\ e \in Node
  BY Nodes DEF Listed, Hanging
<1>3. /\ l.prev[job_tail] = job_head \/ Contains(job_list, l.prev[job_tail])
      /\ l.prev[job_tail] \in Node
  <2>1. \A y : Contains(job_list, y) => y \in Job
    BY <1>1 DEF Contains, Rings
  <2> QED  BY <1>1, <2>1, JobNeighbours, Nodes
<1>4. e # job_head /\ e # job_tail /\ e # pipes_head /\ e # pipes_tail /\ job_tail \in Node
  BY Nodes
<1>5. /\ l' \in Links
      /\ \A y \in Node : /\ l'.next[y] = IF y = l.prev[job_tail] THEN e ELSE l.next[y]
                         /\ l'.prev[y] = l.prev[y]
  <2>1. l \in Links /\ job_tail \in Node
    BY <1>1, Nodes DEF Rings
  <2> QED  BY <1>2, <1>3, <2>1, Stores DEF Same
<1>6. /\ m \in Links
      /\ \A y \in Node : /\ m.next[y] = l'.next[y]
                         /\ m.prev[y] = IF y = job_tail THEN e ELSE l'.prev[y]
  <2>1. l'.prev[job_tail] \in Node
    BY <1>3, <1>4, <1>5
  <2> QED  BY <1>2, <1>4, <1>5, <2>1, Stores DEF Same
<1>7. m.next = l'.next
  BY <1>5 DEF store_back, Links
<1> HIDE DEF m
<1>8. \A y \in Node :
        /\ m.next[y] = IF y = l.prev[job_tail] THEN e ELSE IF y = e THEN job_tail ELSE l.next[y]
        /\ m.prev[y] = IF y = job_tail THEN e ELSE IF y = e THEN l.prev[job_tail] ELSE l.prev[y]
  BY <1>2, <1>3, <1>4, <1>5, <1>6
<1>9. Sound(m, job_head, Append(job_list, e), job_tail)
  <2>1. job_list \in Seq(Elem) /\ Sound(l, job_head, job_list, job_tail)
    BY <1>1, Nodes DEF Rings
  <2> QED  BY <1>2, <1>8, <2>1, Nodes, PushSound
<1>10. ASSUME NEW y \in Node, y = pipes_head \/ y = pipes_tail \/ Contains(pipes, y)
       PROVE  /\ l'.next[y] = l.next[y] /\ l'.prev[y] = l.prev[y]
              /\ m.next[y] = l.next[y] /\ m.prev[y] = l.prev[y]
  <2>1. y # e /\ y # job_tail /\ y # l.prev[job_tail]
    BY <1>1, <1>2, <1>3, <1>4, <1>10, InRings, Nodes
  <2> QED  BY <1>5, <1>6, <2>1
<1>11. Sound(m, pipes_head, pipes, pipes_tail) /\ Sound(l', pipes_head, pipes, pipes_tail)
  BY <1>1, <1>10, PipesFrame
<1>12. Rings(m, Append(job_list, e), pipes)
  <2>1. /\ Append(job_list, e) \in Seq(Job)
        /\ \A y : Contains(Append(job_list, e), y) <=> Contains(job_list, y) \/ y = e
    BY <1>1, Appended DEF Rings
  <2> QED  BY <1>1, <1>2, <1>6, <1>9, <1>11, <2>1 DEF Rings
<1>13. job_list' = Append(job_list, e)
  <2>1. Order(m, job_head) = Append(job_list, e)
    BY <1>12, RingsAre
  <2> QED  BY <1>7, <2>1, OrderByNext DEF job_list
<1>14. pipes' = pipes /\ IsList(l', pipes_head, pipes_tail)
  <2>1. pipes \in Seq(Elem)
    BY <1>1, Nodes DEF Rings
  <2>2. Order(l', pipes_head) = pipes /\ IsList(l', pipes_head, pipes_tail)
    BY <1>11, <2>1, Nodes, SoundIsList
  <2>3. pipes' = Order(l', pipes_head)
    BY DEF pipes
  <2> QED  BY <2>2, <2>3
<1> QED  BY <1>5, <1>12, <1>13, <1>14 DEF m

LEMMA BackRings ==
  ASSUME TypeOK, RingInv, pc = "back", e \in Job, l' = store_back(l, job_tail, e)
  PROVE  Rings(l', job_list, pipes)
<1>1. job_list \in Seq(Elem) /\ pipes \in Seq(Elem) /\ Elem = Job
  BY Nodes DEF RingInv
<1>2. l' \in Links /\ \A y \in Node : l'.next[y] = l.next[y] /\ (y # job_tail => l'.prev[y] = l.prev[y])
  <2>1. l \in Links /\ job_tail \in Node /\ e \in Node
    BY Nodes DEF TypeOK
  <2>2. l.next \in [Node -> Node \cup {NULL}] /\ l.prev \in [Node -> Node \cup {NULL}]
    BY <2>1 DEF Links
  <2> QED  BY <2>1, <2>2 DEF store_back, Links
<1>3. Sound(l', job_head, job_list, job_tail)
  <2>1. Linked(l', Chain(job_head, job_list, job_tail))
    BY DEF RingInv, Chain
  <2> QED  BY <1>1, <2>1, LinkedIsSound, Nodes
<1>4. Sound(l', pipes_head, pipes, pipes_tail)
  <2>1. Sound(l, pipes_head, pipes, pipes_tail)
    BY <1>1, ListIsSound, Nodes DEF RingInv, pipes
  <2>2. \A y : Contains(pipes, y) => y \in Elem
    BY <1>1 DEF Contains
  <2>3. \A y \in Node : y = pipes_head \/ y = pipes_tail \/ Contains(pipes, y) => y # job_tail
    BY <2>2, Nodes
  <2> QED  BY <1>1, <1>2, <2>1, <2>3, Nodes, SoundFrame
<1> QED  BY <1>1, <1>2, <1>3, <1>4 DEF Rings, RingInv, Listed, Hanging

\* The job of a process that has ended is in the list, and is taken out of it.
LEMMA TakenOut ==
  ASSUME TypeOK, RingInv, StateInv, ~Inserting, NEW j \in Job, child_status_change(j)
  PROVE  /\ removable(j)
         /\ \E k \in DOMAIN job_list : job_list[k] = j /\ Rings(l', RemoveAt(job_list, k), pipes)
         /\ Listed(j) /\ \A i : Contains(job_list', i) <=> Contains(job_list, i) /\ i # j
         /\ l.prev[j] \in Node /\ l.next[j] \in Node
         /\ \A y \in Node : /\ l'.next[y] = IF y = l.prev[j] THEN l.next[j] ELSE l.next[y]
                            /\ l'.prev[y] = IF y = l.next[j] THEN l.prev[j] ELSE l.prev[y]
<1>1. Rings(l, job_list, pipes)
  BY RingsNow DEF Inserting
<1>2. state[j] \in {"exited", "killed"} /\ Listed(j) /\ Contains(job_list, j)
  BY DEF child_status_change, StateInv, Inserting, Listed
<1>3. /\ l.prev[j] = job_head \/ Contains(job_list, l.prev[j])
      /\ l.next[j] = job_tail \/ Contains(job_list, l.next[j])
      /\ l.prev[j] # j /\ l.next[j] # j
  BY <1>1, <1>2, JobNeighbours
<1>4. l.prev[j] \in Node /\ l.next[j] \in Node /\ j \in Node /\ l \in Links
  BY <1>1, <1>3, InRings, Nodes DEF Rings
<1> DEFINE m == list_remove(l, j)
<1>5. /\ m \in Links
      /\ \A y \in Node : /\ m.next[y] = IF y = l.prev[j] THEN l.next[j] ELSE l.next[y]
                         /\ m.prev[y] = IF y = l.next[j] THEN l.prev[j] ELSE l.prev[y]
  BY <1>4, RemoveLinks
<1>6. m.prev[j] = l.prev[j] /\ m.next[j] = l.next[j] /\ list_remove(m, j) = m
  BY <1>3, <1>4, RemoveTwice
<1>7. l' = m
  BY <1>2, <1>6 DEF child_status_change
<1>8. removable(j)
  BY <1>2, <1>4, <1>6, Nodes DEF removable, is_interior
<1> HIDE DEF m
<1>9. PICK k \in DOMAIN job_list : job_list[k] = j
  <2>1. DOMAIN job_list = 1..Len(job_list)
    BY <1>1, LenProperties DEF Rings
  <2> QED  BY <1>2, <2>1 DEF Contains
<1>10. job_list \in Seq(Elem) /\ Sound(l, job_head, job_list, job_tail) /\ IsInjective(job_list)
  BY <1>1, Nodes DEF Rings, Sound
<1>11. Sound(m, job_head, RemoveAt(job_list, k), job_tail)
  BY <1>5, <1>9, <1>10, Nodes, RemoveSound
<1>12. Sound(m, pipes_head, pipes, pipes_tail)
  <2>1. ASSUME NEW y \in Node, y = pipes_head \/ y = pipes_tail \/ Contains(pipes, y)
        PROVE  m.next[y] = l.next[y] /\ m.prev[y] = l.prev[y]
    <3>1. y # l.prev[j] /\ y # l.next[j]
      BY <1>1, <1>3, <2>1, InRings
    <3> QED  BY <1>5, <3>1
  <2> QED  BY <1>1, <2>1, PipesFrame
<1>13. /\ RemoveAt(job_list, k) \in Seq(Elem)
       /\ \A y : Contains(RemoveAt(job_list, k), y) <=> Contains(job_list, y) /\ y # j
  BY <1>9, <1>10, RemoveAtIs, RemoveAtRest
<1>14. Rings(m, RemoveAt(job_list, k), pipes)
  BY <1>1, <1>5, <1>11, <1>12, <1>13, Nodes DEF Rings
<1>15. job_list' = RemoveAt(job_list, k)
  BY <1>7, <1>14, RingsAre DEF job_list
<1> QED  BY <1>2, <1>4, <1>5, <1>7, <1>8, <1>9, <1>13, <1>14, <1>15

-----------------------------------------------------------------------------
(***************************************************************************)
(* The invariant, action by action.                                        *)
(***************************************************************************)

Pc == {"prompt", "parse", "loop", "pop", "prev", "next", "link", "back", "post", "wait",
       "test", "advance", "aborted"}

LEMMA InitInv == Init => ListInv
<1> SUFFICES ASSUME Init PROVE ListInv
  OBVIOUS
<1>1. /\ l \in Links
      /\ l.next[job_head] = job_tail /\ l.next[job_tail] = NULL
      /\ l.prev[job_head] = NULL /\ l.prev[job_tail] = job_head
      /\ l.next[pipes_head] = pipes_tail /\ l.next[pipes_tail] = NULL
      /\ l.prev[pipes_head] = NULL /\ l.prev[pipes_tail] = pipes_head
  <2> DEFINE m == list_init(Unlinked, job_head, job_tail)
  <2>1. /\ m \in Links
        /\ m.next[job_head] = job_tail /\ m.next[job_tail] = NULL
        /\ m.prev[job_head] = NULL /\ m.prev[job_tail] = job_head
    BY Nodes DEF list_init, Unlinked, Links
  <2>2. l = list_init(m, pipes_head, pipes_tail)
    BY DEF Init
  <2> HIDE DEF m
  <2>3. /\ job_head \in Node /\ job_tail \in Node /\ pipes_head \in Node /\ pipes_tail \in Node
        /\ pipes_head # pipes_tail
        /\ job_head # pipes_head /\ job_head # pipes_tail
        /\ job_tail # pipes_head /\ job_tail # pipes_tail
    BY Nodes
  <2>4. m.next \in [Node -> Node \cup {NULL}] /\ m.prev \in [Node -> Node \cup {NULL}]
    BY <2>1 DEF Links
  <2> QED  BY <2>1, <2>2, <2>3, <2>4 DEF list_init, Links
<1>2. ASSUME NEW h \in Sentinel, NEW t \in Sentinel, l.next[h] = t, l.next[t] = NULL,
             l.prev[h] = NULL, l.prev[t] = h
      PROVE  Sound(l, h, <<>>, t)
  <2>1. /\ Len(<<>>) = 0 /\ IsInjective(<<>>) /\ 0..0 = {0}
    BY DEF IsInjective
  <2>2. At(h, <<>>, t, 0) = h /\ At(h, <<>>, t, 0 + 1) = t
    BY <2>1 DEF At
  <2> QED  BY <1>2, <2>1, <2>2 DEF Sound
<1>3. Rings(l, <<>>, <<>>)
  <2>1. <<>> \in Seq(Job) /\ \A y : ~Contains(<<>>, y)
    BY DEF Contains
  <2> QED  BY <1>1, <1>2, <2>1, Nodes DEF Rings
<1>4. /\ job_list = <<>> /\ pipes = <<>>
      /\ IsList(l, job_head, job_tail) /\ IsList(l, pipes_head, pipes_tail)
  BY <1>3, RingsAre DEF job_list, pipes
<1>5. \A j : ~Listed(j) /\ ~Hanging(j)
  BY <1>4 DEF Listed, Hanging, Contains
<1>6. pc = "prompt" /\ state = [j \in Job |-> "new"] /\ blocked = FALSE /\ e = job_tail
      /\ visited = <<>> /\ present = <<>>
  BY DEF Init
<1>7. TypeOK
  <2>1. job_tail \in Node /\ <<>> \in Seq(Job)
    BY Nodes
  <2>2. state \in [Job -> {"new", "running", "exited", "killed", "gone"}]
    BY <1>6
  <2> QED  BY <1>1, <1>6, <2>1, <2>2 DEF TypeOK
<1>8. RingInv
  BY <1>4, <1>5, <1>6 DEF RingInv
<1> QED  BY <1>5, <1>6, <1>7, <1>8
    DEF ListInv, StoreInv, StateInv, WayInv, WalkInv, Walking, Inserting

\* A step that leaves the links alone.
LEMMA Still ==
  ASSUME ListInv, l' = l
  PROVE  /\ job_list' = job_list /\ pipes' = pipes
         /\ \A j : (Listed(j)' <=> Listed(j)) /\ (Hanging(j)' <=> Hanging(j))
         /\ pc # "back" /\ pc' # "back" => RingInv'
<1>1. job_list' = job_list /\ pipes' = pipes
  BY DEF job_list, pipes
<1>2. \A j : (Listed(j)' <=> Listed(j)) /\ (Hanging(j)' <=> Hanging(j))
  BY <1>1 DEF Listed, Hanging
<1>3. ASSUME pc # "back", pc' # "back" PROVE RingInv'
  <2>1. Rings(l', job_list, pipes)
    BY <1>3, RingsNow DEF ListInv
  <2> QED  BY <1>3, <2>1, RingsNext
<1> QED  BY <1>1, <1>2, <1>3

LEMMA Elsewhere ==
  ASSUME pc' \notin {"test", "advance"}
  PROVE  WayInv' /\ WalkInv'
BY DEF WayInv, WalkInv, Walking

LEMMA QuietStep ==
  ASSUME ListInv,
         \/ ReadLine \/ esh_parse_command_line \/ EndOfLine \/ pipeline_post_process
         \/ wait_for_job_Other \/ walk_end
  PROVE  ListInv' /\ UNCHANGED <<job_list, state>> /\ pc' # "aborted"
<1>1. /\ l' = l /\ e' = e /\ state' = state /\ visited' = visited /\ present' = present
      /\ pc \in {"prompt", "parse", "loop", "post", "wait", "test"}
      /\ pc' \in {"prompt", "parse", "loop", "wait"}
      /\ blocked' \in BOOLEAN /\ (pc' = "wait" => pc = "post" /\ blocked' = blocked)
  BY DEF ListInv, TypeOK, ReadLine, esh_parse_command_line, EndOfLine, pipeline_post_process,
         wait_for_job_Other, walk_end, Goto, Shell, Ghosts
<1>2. TypeOK'
  BY <1>1 DEF ListInv, TypeOK
<1>3. RingInv' /\ job_list' = job_list
      /\ \A j : (Listed(j)' <=> Listed(j)) /\ (Hanging(j)' <=> Hanging(j))
  BY <1>1, Still
<1>4. StoreInv' /\ WayInv' /\ WalkInv'
  BY <1>1, Elsewhere DEF StoreInv
<1>5. StateInv'
  BY <1>1, <1>3 DEF ListInv, StateInv, Inserting
<1> QED  BY <1>1, <1>2, <1>3, <1>4, <1>5 DEF ListInv

LEMMA HangStep ==
  ASSUME ListInv, NEW j \in Job, cmd_list_pipeline(j)
  PROVE  ListInv' /\ UNCHANGED <<job_list, state>> /\ pc' # "aborted"
<1>1. /\ pc = "parse" /\ pc' = "parse" /\ e' = e /\ state[j] = "new" /\ ~Hanging(j)
      /\ l' = list_push_back(l, pipes_tail, j)
      /\ state' = state /\ blocked' = blocked /\ visited' = visited /\ present' = present
  BY DEF cmd_list_pipeline, Shell, Ghosts, Hanging
<1>2. ~Listed(j)
  BY <1>1 DEF ListInv, StateInv
<1>3. Rings(l', job_list, Append(pipes, j))
  BY <1>1, <1>2, HangRings DEF ListInv
<1>4. /\ RingInv' /\ job_list' = job_list
      /\ \A i \in Job : (Listed(i)' <=> Listed(i)) /\ (Hanging(i)' <=> Hanging(i) \/ i = j)
  <2>1. \A i : Contains(Append(pipes, j), i) <=> Contains(pipes, i) \/ i = j
    BY Appended DEF ListInv, RingInv
  <2> QED  BY <1>1, <1>3, <2>1, RingsNext DEF Listed, Hanging
<1>5. TypeOK'
  BY <1>1, <1>3 DEF ListInv, TypeOK, Rings
<1>6. StoreInv' /\ WayInv' /\ WalkInv'
  BY <1>1, Elsewhere DEF StoreInv
<1>7. StateInv'
  BY <1>1, <1>4 DEF ListInv, StateInv, Inserting
<1> QED  BY <1>1, <1>4, <1>5, <1>6, <1>7 DEF ListInv

LEMMA PopStep ==
  ASSUME ListInv, NextPipeline
  PROVE  ListInv' /\ UNCHANGED <<job_list, state>> /\ pc' # "aborted"
<1>1. /\ pc = "loop" /\ pc' = "pop" /\ pop_pipeline /\ ~list_empty(l, pipes_head, pipes_tail)
      /\ state' = state /\ blocked' = blocked /\ visited' = visited /\ present' = present
  BY DEF NextPipeline, Goto, Shell, Ghosts
<1>2. /\ e' \in Job /\ Hanging(e') /\ 1 \in DOMAIN pipes /\ pipes[1] = e'
      /\ Rings(l', job_list, RemoveAt(pipes, 1))
  BY <1>1, PopRings DEF ListInv
<1>3. /\ RingInv' /\ job_list' = job_list
      /\ \A i \in Job : (Listed(i)' <=> Listed(i)) /\ (Hanging(i)' <=> Hanging(i) /\ i # e')
  <2>1. pipes \in Seq(Job) /\ IsInjective(pipes)
    BY <1>1, RingsNow DEF ListInv, Rings, Sound
  <2>2. \A i : Contains(RemoveAt(pipes, 1), i) <=> Contains(pipes, i) /\ i # e'
    BY <1>2, <2>1, RemoveAtRest
  <2> QED  BY <1>1, <1>2, <2>2, RingsNext DEF Listed, Hanging
<1>4. TypeOK'
  BY <1>1, <1>2, Nodes DEF ListInv, TypeOK, Rings
<1>5. WayInv' /\ WalkInv'
  BY <1>1, Elsewhere
<1>6. StoreInv'
  <2>1. ~Listed(e')
    BY <1>2 DEF ListInv, RingInv
  <2>2. e' \in Job /\ ~Contains(job_list', e') /\ ~Contains(pipes', e')
    BY <1>2, <1>3, <2>1 DEF Listed, Hanging
  <2> QED  BY <1>1, <2>2 DEF StoreInv, Listed, Hanging
<1>7. StateInv'
  <2>1. state[e'] = "new"
    BY <1>2 DEF ListInv, StateInv
  <2> QED  BY <1>1, <1>3, <2>1 DEF ListInv, StateInv, Inserting
<1> QED  BY <1>1, <1>3, <1>4, <1>5, <1>6, <1>7 DEF ListInv

LEMMA LaunchStep ==
  ASSUME ListInv, pipeline_process
  PROVE  /\ ListInv' /\ job_list' = job_list /\ pc' # "aborted"
         /\ e \in Job /\ state[e] = "new" /\ state' = [state EXCEPT ![e] = "running"]
<1>1. /\ pc = "pop" /\ pc' = "prev" /\ blocked' = TRUE /\ state' = [state EXCEPT ![e] = "running"]
      /\ l' = l /\ e' = e /\ visited' = visited /\ present' = present
  BY DEF pipeline_process, esh_signal_block, Goto, Ghosts
<1>2. e \in Job /\ ~Listed(e) /\ ~Hanging(e) /\ state[e] = "new"
  BY <1>1 DEF ListInv, StoreInv, StateInv
<1>3. RingInv' /\ job_list' = job_list
      /\ \A j : (Listed(j)' <=> Listed(j)) /\ (Hanging(j)' <=> Hanging(j))
  BY <1>1, Still
<1>4. TypeOK' /\ \A j \in Job : state'[j] = IF j = e THEN "running" ELSE state[j]
  BY <1>1, <1>2 DEF ListInv, TypeOK
<1>5. WayInv' /\ WalkInv'
  BY <1>1, Elsewhere
<1>6. StoreInv'
  <2>1. ~Contains(job_list', e') /\ ~Contains(pipes', e')
    BY <1>1, <1>2, <1>3 DEF Listed, Hanging
  <2> QED  BY <1>1, <1>2, <2>1 DEF StoreInv, Listed, Hanging
<1>7. StateInv'
  BY <1>1, <1>2, <1>3, <1>4 DEF ListInv, StateInv, Inserting
<1> QED  BY <1>1, <1>2, <1>3, <1>4, <1>5, <1>6, <1>7 DEF ListInv

LEMMA StoreStep ==
  ASSUME ListInv, insert_prev \/ insert_next
  PROVE  ListInv' /\ UNCHANGED <<job_list, state>> /\ pc' # "aborted"
<1>1. /\ \/ pc = "prev" /\ pc' = "next" /\ l' = store_prev(l, job_tail, e)
         \/ pc = "next" /\ pc' = "link" /\ l' = store_next(l, job_tail, e)
      /\ e' = e /\ state' = state /\ blocked' = blocked
      /\ visited' = visited /\ present' = present
  BY DEF insert_prev, insert_next, Store, Goto, Shell, Ghosts
<1>2. /\ e \in Job /\ ~Listed(e) /\ ~Hanging(e)
      /\ pc = "next" => l.prev[e] = l.prev[job_tail]
  BY <1>1 DEF ListInv, StoreInv
<1>3. /\ Rings(l', job_list, pipes)
      /\ l'.prev[job_tail] = l.prev[job_tail]
      /\ l' = store_prev(l, job_tail, e) => l'.prev[e] = l.prev[job_tail]
      /\ l' = store_next(l, job_tail, e) => l'.prev[e] = l.prev[e] /\ l'.next[e] = job_tail
  BY <1>1, <1>2, StoreRings DEF ListInv
<1>4. RingInv' /\ job_list' = job_list
      /\ \A j \in Job : (Listed(j)' <=> Listed(j)) /\ (Hanging(j)' <=> Hanging(j))
  BY <1>1, <1>3, RingsNext DEF Listed, Hanging
<1>5. TypeOK'
  BY <1>1, <1>3 DEF ListInv, TypeOK, Rings
<1>6. WayInv' /\ WalkInv'
  BY <1>1, Elsewhere
<1>7. StoreInv'
  <2>1. ~Contains(job_list', e') /\ ~Contains(pipes', e')
    BY <1>1, <1>2, <1>4 DEF Listed, Hanging
  <2>2. l'.prev[e] = l'.prev[job_tail] /\ (pc' = "link" => l'.next[e] = job_tail)
    BY <1>1, <1>2, <1>3
  <2> QED  BY <1>1, <1>2, <2>1, <2>2 DEF StoreInv, Listed, Hanging
<1>8. StateInv'
  BY <1>1, <1>2, <1>4 DEF ListInv, StateInv, Inserting
<1> QED  BY <1>1, <1>4, <1>5, <1>6, <1>7, <1>8 DEF ListInv

LEMMA LinkStep ==
  ASSUME ListInv, insert_link
  PROVE  /\ ListInv' /\ state' = state /\ pc' # "aborted"
         /\ e \in Job /\ ~Listed(e) /\ state[e] \notin {"new", "gone"}
         /\ job_list' = Append(job_list, e)
<1>1. /\ pc = "link" /\ pc' = "back" /\ l' = store_link(l, job_tail, e)
      /\ e' = e /\ state' = state /\ blocked' = blocked
      /\ visited' = visited /\ present' = present
  BY DEF insert_link, Store, Goto, Shell, Ghosts
<1>2. /\ e \in Job /\ ~Listed(e) /\ ~Hanging(e) /\ state[e] \notin {"new", "gone"}
      /\ l.prev[e] = l.prev[job_tail] /\ l.next[e] = job_tail
  BY <1>1 DEF ListInv, StoreInv, StateInv
<1>3. /\ Rings(store_back(l', job_tail, e), Append(job_list, e), pipes)
      /\ l' \in Links
      /\ job_list' = Append(job_list, e) /\ pipes' = pipes
      /\ IsList(l', pipes_head, pipes_tail)
  BY <1>1, <1>2, LinkRings DEF ListInv
<1>4. \A j \in Job : (Listed(j)' <=> Listed(j) \/ j = e) /\ (Hanging(j)' <=> Hanging(j))
  <2>1. \A j : Contains(Append(job_list, e), j) <=> Contains(job_list, j) \/ j = e
    BY <1>2, Appended DEF ListInv, RingInv
  <2> QED  BY <1>3, <2>1 DEF Listed, Hanging
<1>5. RingInv'
  <2>1. Linked(store_back(l', job_tail, e'), <<job_head>> \o job_list' \o <<job_tail>>)
    <3>1. /\ Append(job_list, e) \in Seq(Elem)
          /\ Sound(store_back(l', job_tail, e), job_head, Append(job_list, e), job_tail)
      BY <1>3, Nodes DEF Rings
    <3> QED  BY <1>1, <1>3, <3>1, LinkedIsSound, Nodes DEF Chain
  <2> QED  BY <1>1, <1>3, <2>1 DEF RingInv, Rings, Listed, Hanging
<1>6. TypeOK'
  BY <1>1, <1>3 DEF ListInv, TypeOK
<1>7. StoreInv' /\ WayInv' /\ WalkInv'
  BY <1>1, <1>2, Elsewhere DEF StoreInv
<1>8. StateInv'
  BY <1>1, <1>2, <1>4 DEF ListInv, StateInv, Inserting
<1> QED  BY <1>1, <1>2, <1>3, <1>5, <1>6, <1>7, <1>8 DEF ListInv

LEMMA BackStep ==
  ASSUME ListInv, insert_back
  PROVE  ListInv' /\ UNCHANGED <<job_list, state>> /\ pc' # "aborted"
<1>1. /\ pc = "back" /\ pc' = "post" /\ l' = store_back(l, job_tail, e)
      /\ e' = e /\ state' = state /\ blocked' = blocked
      /\ visited' = visited /\ present' = present
  BY DEF insert_back, Store, Goto, Shell, Ghosts
<1>2. Rings(l', job_list, pipes)
  BY <1>1, BackRings DEF ListInv, StoreInv
<1>3. RingInv' /\ job_list' = job_list
      /\ \A j \in Job : (Listed(j)' <=> Listed(j)) /\ (Hanging(j)' <=> Hanging(j))
  BY <1>1, <1>2, RingsNext DEF Listed, Hanging
<1>4. TypeOK'
  BY <1>1, <1>2 DEF ListInv, TypeOK, Rings
<1>5. StoreInv' /\ WayInv' /\ WalkInv'
  BY <1>1, Elsewhere DEF StoreInv
<1>6. StateInv'
  BY <1>1, <1>3 DEF ListInv, StateInv, Inserting
<1> QED  BY <1>1, <1>3, <1>4, <1>5, <1>6 DEF ListInv

LEMMA EndStep ==
  ASSUME ListInv, NEW j \in Job, End(j)
  PROVE  /\ ListInv' /\ job_list' = job_list /\ pc' = pc /\ state[j] = "running"
         /\ \E how \in {"exited", "killed"} : state' = [state EXCEPT ![j] = how]
<1>1. /\ pc' = pc /\ l' = l /\ e' = e /\ blocked' = blocked
      /\ visited' = visited /\ present' = present /\ state[j] = "running"
      /\ \E how \in {"exited", "killed"} : state' = [state EXCEPT ![j] = how]
  BY DEF End, Ghosts
<1>2. TypeOK' /\ \A i \in Job : IF i = j THEN state'[i] \in {"exited", "killed"}
                                ELSE state'[i] = state[i]
  BY <1>1 DEF ListInv, TypeOK
<1>3. job_list' = job_list /\ pipes' = pipes
      /\ \A i : (Listed(i)' <=> Listed(i)) /\ (Hanging(i)' <=> Hanging(i))
  BY <1>1, Still
<1>4. RingInv'
  BY <1>1, <1>3 DEF ListInv, RingInv
<1>5. StoreInv'
  BY <1>1, <1>3 DEF ListInv, StoreInv, Listed, Hanging
<1>6. StateInv'
  <2>1. pc \in {"pop", "prev", "next", "link"} => e \in Job
    BY DEF ListInv, StoreInv
  <2> QED  BY <1>1, <1>2, <1>3, <2>1 DEF ListInv, StateInv, Inserting
<1>7. WayInv'
  <2>1. WayInv' <=> WayInv
    BY <1>1, <1>3 DEF WayInv, Walking, Way, Leads, Listed
  <2> QED  BY <2>1 DEF ListInv
<1>8. WalkInv'
  <2>1. WalkInv' <=> WalkInv
    BY <1>1, <1>3 DEF WalkInv, Walking, Way, Behind, Listed
  <2> QED  BY <2>1 DEF ListInv
<1> QED  BY <1>1, <1>2, <1>3, <1>4, <1>5, <1>6, <1>7, <1>8 DEF ListInv

\* Where the way leads.
LEMMA WayFacts ==
  ASSUME present \in Seq(Job)
  PROVE  /\ Len(present) \in Nat /\ DOMAIN present = 1..Len(present)
         /\ DOMAIN Way = 1..(Len(present) + 1) /\ Way[Len(present) + 1] = job_tail
         /\ \A k \in 1..Len(present) : Way[k] = present[k] /\ present[k] \in Job
         /\ \A k \in DOMAIN Way : Way[k] \in Node
<1> DEFINE n == Len(present)
<1>1. present \in Seq(Node) /\ job_tail \in Node
  BY Nodes
<1>2. /\ n \in Nat /\ DOMAIN present = 1..n
      /\ DOMAIN Way = 1..(n + 1) /\ Way[n + 1] = job_tail
      /\ \A k \in 1..n : Way[k] = present[k]
  BY <1>1, Appended DEF Way
<1>3. \A k \in 1..n : present[k] \in Job
  BY <1>2, ElementOfSeq
<1> HIDE DEF n
<1>4. \A k \in 1..(n + 1) : k \in 1..n \/ k = n + 1
  BY <1>2
<1>5. \A k \in DOMAIN Way : Way[k] \in Node
  BY <1>1, <1>2, <1>3, <1>4, Nodes
<1> QED  BY <1>2, <1>3, <1>5 DEF n

\* A removal leaves the traversal on its way: who pointed at the element that is gone points at
\* what that one pointed at, which is further on.
LEMMA RemovalOnTheWay ==
  ASSUME ListInv, ~Inserting, NEW j \in Job, child_status_change(j),
         pc' = pc, e' = e, visited' = visited, present' = present
  PROVE  WayInv' /\ WalkInv'
<1> SUFFICES ASSUME Walking PROVE WayInv' /\ WalkInv'
  BY DEF Walking, WayInv, WalkInv
<1>1. /\ Listed(j) /\ \A i : Contains(job_list', i) <=> Contains(job_list, i) /\ i # j
      /\ l.prev[j] \in Node /\ l.next[j] \in Node
      /\ \A y \in Node : /\ l'.next[y] = IF y = l.prev[j] THEN l.next[j] ELSE l.next[y]
                         /\ l'.prev[y] = IF y = l.next[j] THEN l.prev[j] ELSE l.prev[y]
      /\ l.next[l.prev[j]] = j
  <2>1. Rings(l, job_list, pipes)
    BY RingsNow DEF ListInv, Inserting
  <2>2. /\ Listed(j) /\ \A i : Contains(job_list', i) <=> Contains(job_list, i) /\ i # j
        /\ l.prev[j] \in Node /\ l.next[j] \in Node
        /\ \A y \in Node : /\ l'.next[y] = IF y = l.prev[j] THEN l.next[j] ELSE l.next[y]
                           /\ l'.prev[y] = IF y = l.next[j] THEN l.prev[j] ELSE l.prev[y]
    BY TakenOut DEF ListInv
  <2>3. l.next[l.prev[j]] = j
    BY <2>1, <2>2, JobNeighbours DEF Listed
  <2> QED  BY <2>2, <2>3
<1>2. /\ present \in Seq(Job) /\ IsInjective(present)
      /\ \A i \in Job : Listed(i) => Contains(present, i)
      /\ \A k \in DOMAIN present : l.prev[present[k]] # NULL /\ \E m \in DOMAIN Way : Leads(k, m)
  BY DEF ListInv, WayInv
<1> DEFINE n == Len(present)
<1>3. /\ n \in Nat /\ DOMAIN present = 1..n /\ DOMAIN Way = 1..(n + 1)
      /\ Way[n + 1] = job_tail
      /\ \A k \in 1..n : Way[k] = present[k] /\ present[k] \in Job /\ present[k] \in Node
  BY <1>2, WayFacts, Nodes
<1> HIDE DEF n
<1>4. ASSUME NEW k \in DOMAIN present
      PROVE  l'.prev[present[k]] # NULL
  BY <1>1, <1>2, <1>3, Nodes
<1>5. ASSUME NEW k \in DOMAIN present
      PROVE  \E m \in DOMAIN Way :
               /\ k < m /\ l'.next[Way[k]] = Way[m]
               /\ \A i \in DOMAIN present : k < i /\ i < m => ~Contains(job_list', present[i])
  <2>1. PICK m \in DOMAIN Way : Leads(k, m)
    BY <1>2
  <2>2. /\ k < m /\ l.next[present[k]] = Way[m]
        /\ \A i \in DOMAIN present : k < i /\ i < m => ~Contains(job_list, present[i])
    BY <1>3, <2>1 DEF Leads, Listed
  <2>3. CASE present[k] # l.prev[j]
    BY <1>1, <1>3, <2>2, <2>3
  <2>4. CASE present[k] = l.prev[j]
    <3>1. Way[m] = j
      BY <1>1, <2>2, <2>4
    <3>2. m # n + 1
      BY <1>3, <3>1, Nodes
    <3>3. m \in DOMAIN present /\ present[m] = j
      BY <1>3, <3>1, <3>2
    <3>4. PICK m2 \in DOMAIN Way : Leads(m, m2)
      BY <1>2, <3>3
    <3>5. /\ m < m2 /\ l.next[j] = Way[m2]
          /\ \A i \in DOMAIN present : m < i /\ i < m2 => ~Contains(job_list, present[i])
      BY <3>1, <3>4 DEF Leads, Listed
    <3>6. l'.next[Way[k]] = Way[m2]
      BY <1>1, <1>3, <2>4, <3>5
    <3>7. k < m2
      BY <1>3, <2>2, <3>5
    <3>8. ASSUME NEW i \in DOMAIN present, k < i, i < m2 PROVE ~Contains(job_list', present[i])
      <4>1. i < m \/ i = m \/ m < i
        BY <1>3, <3>8
      <4> QED  BY <1>1, <2>2, <3>3, <3>5, <3>8, <4>1
    <3> QED  BY <3>6, <3>7, <3>8
  <2> QED  BY <2>3, <2>4
<1>6. WayInv'
  <2>1. Way' = Way
    BY DEF Way
  <2>2. \A i \in Job : Contains(job_list', i) => Contains(present, i)
    BY <1>1, <1>2 DEF Listed
  <2> QED  BY <1>2, <1>4, <1>5, <2>1, <2>2 DEF WayInv, Leads, Listed
<1>7. WalkInv'
  <2>1. Way' = Way
    BY DEF Way
  <2>2. \A i : Contains(job_list', i) => Contains(job_list, i)
    BY <1>1
  <2>3. PICK w \in DOMAIN Way :
          /\ e = Way[w] /\ (pc = "advance" => w \in DOMAIN present)
          /\ \A i \in DOMAIN present :
               Behind(i, w) /\ Contains(job_list, present[i]) => Contains(visited, present[i])
          /\ \A a \in DOMAIN visited : \E i \in DOMAIN present : Behind(i, w) /\ visited[a] = present[i]
    BY DEF ListInv, WalkInv, Listed
  <2>4. \A a, b \in DOMAIN visited : a < b =>
          \E i, k \in DOMAIN present : i < k /\ visited[a] = present[i] /\ visited[b] = present[k]
    BY DEF ListInv, WalkInv
  <2>5. \A i : Behind(i, w)' <=> Behind(i, w)
    BY DEF Behind
  <2>6. /\ e' = Way'[w] /\ (pc' = "advance" => w \in DOMAIN present')
        /\ \A i \in DOMAIN present' :
             Behind(i, w)' /\ Contains(job_list', present'[i]) => Contains(visited', present'[i])
        /\ \A a \in DOMAIN visited' :
             \E i \in DOMAIN present' : Behind(i, w)' /\ visited'[a] = present'[i]
    BY <2>1, <2>2, <2>3, <2>5
  <2> QED  BY <2>1, <2>3, <2>4, <2>6 DEF WalkInv, Listed
<1> QED  BY <1>6, <1>7

\* What the SIGCHLD handler and the wait for a job in the foreground have in common.
LEMMA TakenStep ==
  ASSUME ListInv, ~Inserting, NEW j \in Job, child_status_change(j), e' = e,
         visited' = visited, present' = present,
         \/ pc' = pc /\ blocked' = blocked
         \/ pc' = "loop" /\ blocked' = FALSE
  PROVE  /\ ListInv' /\ pc' # "aborted"
         /\ state[j] \in {"exited", "killed"} /\ state' = [state EXCEPT ![j] = "gone"]
         /\ \E k \in DOMAIN job_list : job_list[k] = j /\ job_list' = RemoveAt(job_list, k)
<1>1. PICK k \in DOMAIN job_list : job_list[k] = j /\ Rings(l', RemoveAt(job_list, k), pipes)
  BY TakenOut DEF ListInv
<1>2. state[j] \in {"exited", "killed"} /\ state' = [state EXCEPT ![j] = "gone"]
  BY DEF child_status_change
<1>3. pc' \in Pc /\ pc' \notin {"back", "prev", "next", "link"} /\ pc' # "aborted" /\ blocked' \in BOOLEAN
  BY DEF ListInv, TypeOK, StateInv, Inserting, Pc
<1>4. /\ RingInv' /\ job_list' = RemoveAt(job_list, k)
      /\ \A i \in Job : (Listed(i)' <=> Listed(i) /\ i # j) /\ (Hanging(i)' <=> Hanging(i))
  <2>1. \A i : Contains(job_list', i) <=> Contains(job_list, i) /\ i # j
    BY TakenOut DEF ListInv
  <2> QED  BY <1>1, <1>3, <2>1, RingsNext DEF Listed, Hanging
<1>5. TypeOK' /\ \A i \in Job : state'[i] = IF i = j THEN "gone" ELSE state[i]
  BY <1>1, <1>2, <1>3 DEF ListInv, TypeOK, Rings, Pc
<1>6. WayInv' /\ WalkInv'
  BY RemovalOnTheWay, Elsewhere
<1>7. StoreInv'
  <2>1. pc' = "pop" => pc = "pop" /\ e \in Job /\ ~Listed(e) /\ ~Hanging(e)
    BY DEF ListInv, StoreInv
  <2>2. pc' = "pop" => ~Contains(job_list', e') /\ ~Contains(pipes', e')
    BY <1>4, <2>1 DEF Listed, Hanging
  <2> QED  BY <1>3, <2>1, <2>2 DEF StoreInv, Listed, Hanging
<1>8. StateInv'
  <2>1. pc = "pop" => e \in Job /\ ~Listed(e)
    BY DEF ListInv, StoreInv
  <2>2. Listed(j)
    BY TakenOut DEF ListInv
  <2> QED  BY <1>2, <1>3, <1>4, <1>5, <2>1, <2>2 DEF ListInv, StateInv, Inserting
<1> QED  BY <1>1, <1>2, <1>3, <1>4, <1>5, <1>6, <1>7, <1>8 DEF ListInv

LEMMA SigchldStep ==
  ASSUME ListInv, sigchld_handler \/ wait_for_job
  PROVE  /\ ListInv' /\ pc' # "aborted"
         /\ \E j \in Job :
              /\ state[j] \in {"exited", "killed"} /\ state' = [state EXCEPT ![j] = "gone"]
              /\ \E k \in DOMAIN job_list : job_list[k] = j /\ job_list' = RemoveAt(job_list, k)
<1>1. CASE sigchld_handler
  <2>1. PICK j \in Job : child_status_change(j) /\ pc' = IF removable(j) THEN pc ELSE "aborted"
    BY <1>1 DEF sigchld_handler
  <2>2. /\ ~blocked /\ e' = e /\ blocked' = blocked /\ visited' = visited /\ present' = present
    BY <1>1 DEF sigchld_handler, Ghosts
  <2>3. ~Inserting
    BY <2>2 DEF ListInv, StateInv
  <2>4. pc' = pc
    BY <2>1, <2>3, TakenOut DEF ListInv
  <2> QED  BY <2>1, <2>2, <2>3, <2>4, TakenStep
<1>2. CASE wait_for_job
  <2>1. PICK j \in Job : child_status_change(j) /\ pc' = IF removable(j) THEN "loop" ELSE "aborted"
    BY <1>2 DEF wait_for_job
  <2>2. /\ pc = "wait" /\ e' = e /\ blocked' = FALSE /\ visited' = visited /\ present' = present
    BY <1>2 DEF wait_for_job, Ghosts
  <2>3. ~Inserting
    BY <2>2 DEF Inserting
  <2>4. pc' = "loop"
    BY <2>1, <2>3, TakenOut DEF ListInv
  <2> QED  BY <2>1, <2>2, <2>3, <2>4, TakenStep
<1> QED  BY <1>1, <1>2

LEMMA BeginStep ==
  ASSUME ListInv, jobs_execute
  PROVE  ListInv' /\ UNCHANGED <<job_list, state>> /\ pc' # "aborted"
<1>1. /\ pc = "loop" /\ pc' = "test" /\ l' = l /\ e' = l.next[job_head]
      /\ visited' = <<>> /\ present' = job_list /\ blocked' = blocked /\ state' = state
  BY DEF jobs_execute, list_begin, Goto, Shell
<1>2. Rings(l, job_list, pipes)
  BY <1>1, RingsNow DEF ListInv
<1>3. RingInv' /\ job_list' = job_list
      /\ \A j : (Listed(j)' <=> Listed(j)) /\ (Hanging(j)' <=> Hanging(j))
  BY <1>1, Still
<1> DEFINE n == Len(job_list)
           W == Append(job_list, job_tail)
<1>4. Around(l, job_head, job_list, job_tail, n)
  BY <1>2, Neighbours, Nodes DEF Rings
<1>5. /\ DOMAIN W = 1..(n + 1) /\ W[n + 1] = job_tail /\ \A k \in 1..n : W[k] = job_list[k]
  <2>1. job_list \in Seq(Node) /\ job_tail \in Node
    BY <1>2, Nodes DEF Rings
  <2> QED  BY <2>1, Appended
<1> HIDE DEF n, W
<1>6. n \in Nat /\ DOMAIN job_list = 1..n /\ \A k \in 1..n : job_list[k] \in Job
  BY <1>4, Nodes DEF Around
<1>7. 1 \in DOMAIN W /\ l.next[job_head] = W[1]
  BY <1>4, <1>5, <1>6 DEF Around
<1>8. Way' = W
  BY <1>1 DEF Way, W
<1>9. TypeOK'
  <2>1. W[1] \in Node
    BY <1>5, <1>6, <1>7, Nodes
  <2> QED  BY <1>1, <1>2, <1>7, <2>1 DEF ListInv, TypeOK, Rings
<1>10. StoreInv' /\ StateInv'
  BY <1>1, <1>3 DEF StoreInv, StateInv, ListInv, Inserting
<1>11. ASSUME NEW k \in 1..n
       PROVE  /\ l.prev[job_list[k]] # NULL
              /\ k + 1 \in DOMAIN W /\ l.next[W[k]] = W[k + 1] /\ k < k + 1
              /\ \A i \in 1..n : ~(k < i /\ i < k + 1)
  <2>1. k # 1 => k - 1 \in 1..n
    BY <1>6
  <2>2. l.prev[job_list[k]] # NULL
    BY <1>4, <1>6, <2>1, Nodes DEF Around
  <2>3. k # n => k + 1 \in 1..n
    BY <1>6
  <2>4. k + 1 \in 1..(n + 1) /\ k < k + 1 /\ \A i \in 1..n : ~(k < i /\ i < k + 1)
    BY <1>6
  <2>5. l.next[job_list[k]] = IF k = n THEN job_tail ELSE job_list[k + 1]
    BY <1>4 DEF Around
  <2> QED  BY <1>5, <2>2, <2>3, <2>4, <2>5
<1>12. WayInv'
  <2>1. IsInjective(job_list) /\ job_list \in Seq(Job)
    BY <1>2 DEF Rings, Sound
  <2>2. ASSUME NEW k \in 1..n
        PROVE  \E m \in DOMAIN W : /\ k < m /\ l.next[W[k]] = W[m]
                                   /\ \A i \in 1..n : ~(k < i /\ i < m)
    BY <1>11
  <2>3. \A k \in 1..n : l.prev[job_list[k]] # NULL
    BY <1>11
  <2> QED  BY <1>1, <1>3, <1>6, <1>8, <2>1, <2>2, <2>3 DEF WayInv, Leads, Listed
<1>13. WalkInv'
  <2>1. DOMAIN visited' = {} /\ pc' = "test" /\ DOMAIN present' = 1..n
    BY <1>1, <1>6
  <2>2. \A i \in 1..n : ~(i < 1)
    BY <1>6
  <2> QED  BY <1>1, <1>7, <1>8, <2>1, <2>2 DEF WalkInv, Behind
<1> QED  BY <1>1, <1>3, <1>9, <1>10, <1>12, <1>13 DEF ListInv

\* The cut never bites: what was visited is in present, and in present's order.
LEMMA VisitedOnce ==
  ASSUME ListInv, Walking
  PROVE  /\ visited \in Seq(Job) /\ Len(visited) \in Nat /\ Cardinality(Job) \in Nat
         /\ Len(visited) <= Cardinality(Job)
<1>1. visited \in Seq(Elem) /\ DOMAIN visited = 1..Len(visited) /\ Elem = Job /\ Len(visited) \in Nat
  BY Nodes, LenProperties DEF ListInv, TypeOK
<1>2. /\ present \in Seq(Job) /\ IsInjective(present)
      /\ \A a, b \in DOMAIN visited : a < b =>
           \E i, k \in DOMAIN present : i < k /\ visited[a] = present[i] /\ visited[b] = present[k]
  BY DEF ListInv, WayInv, WalkInv
<1>3. ASSUME NEW a \in DOMAIN visited, NEW b \in DOMAIN visited, a < b PROVE visited[a] # visited[b]
  <2>1. PICK i, k \in DOMAIN present : i < k /\ visited[a] = present[i] /\ visited[b] = present[k]
    BY <1>2, <1>3
  <2>2. i # k
    BY <1>2, <2>1, WayFacts
  <2> QED  BY <1>2, <2>1, <2>2 DEF IsInjective
<1>4. IsInjective(visited)
  <2>1. \A a, b \in DOMAIN visited : a < b \/ b < a \/ a = b
    BY <1>1
  <2> QED  BY <1>3, <2>1 DEF IsInjective
<1> QED  BY <1>1, <1>4, InjectiveLength

LEMMA VisitStep ==
  ASSUME ListInv, walk_visit
  PROVE  ListInv' /\ UNCHANGED <<job_list, state>> /\ pc' # "aborted"
<1>1. /\ pc = "test" /\ pc' = "advance" /\ e # job_tail /\ l' = l /\ e' = e
      /\ present' = present /\ blocked' = blocked /\ state' = state
  BY DEF walk_visit, Goto, Shell
<1>2. visited' = Append(visited, e)
  <2>1. Walking
    BY <1>1 DEF Walking
  <2>2. ~(Len(visited) > Cardinality(Job))
    BY <2>1, VisitedOnce
  <2> QED  BY <2>2 DEF walk_visit
<1>3. RingInv' /\ job_list' = job_list
      /\ \A j : (Listed(j)' <=> Listed(j)) /\ (Hanging(j)' <=> Hanging(j))
  BY <1>1, Still
<1>4. present \in Seq(Job)
  BY <1>1 DEF ListInv, WayInv, Walking
<1> DEFINE n == Len(present)
<1>5. /\ n \in Nat /\ DOMAIN present = 1..n /\ DOMAIN Way = 1..(n + 1) /\ Way[n + 1] = job_tail
      /\ \A k \in 1..n : Way[k] = present[k] /\ present[k] \in Job
  BY <1>4, WayFacts
<1> HIDE DEF n
<1>6. PICK w \in DOMAIN Way :
        /\ e = Way[w]
        /\ \A i \in DOMAIN present : i < w /\ Listed(present[i]) => Contains(visited, present[i])
        /\ \A a \in DOMAIN visited : \E i \in DOMAIN present : i < w /\ visited[a] = present[i]
  BY <1>1 DEF ListInv, WalkInv, Walking, Behind
<1>7. w \in 1..n /\ e = present[w] /\ e \in Job
  BY <1>1, <1>5, <1>6
<1> DEFINE v == Append(visited, e)
           z == Len(visited)
<1>8. /\ v \in Seq(Job) /\ z \in Nat /\ DOMAIN visited = 1..z /\ DOMAIN v = 1..(z + 1)
      /\ v[z + 1] = e /\ \A a \in 1..z : v[a] = visited[a]
      /\ \A j : Contains(v, j) <=> Contains(visited, j) \/ j = e
  <2>1. visited \in Seq(Job)
    BY DEF ListInv, TypeOK
  <2> QED  BY <1>7, <2>1, Appended
<1> HIDE DEF v, z
<1>9. visited' = v
  BY <1>2 DEF v
<1>10. TypeOK'
  BY <1>1, <1>8, <1>9 DEF ListInv, TypeOK
<1>11. StoreInv' /\ StateInv'
  BY <1>1, <1>3 DEF StoreInv, StateInv, ListInv, Inserting
<1>12. WayInv'
  <2>1. WayInv' <=> WayInv
    BY <1>1, <1>3 DEF WayInv, Walking, Way, Leads, Listed
  <2> QED  BY <2>1 DEF ListInv
<1>13. ASSUME NEW i \in 1..n, i <= w, Listed(present[i]) PROVE Contains(v, present[i])
  <2>1. i < w \/ i = w
    BY <1>5, <1>7, <1>13
  <2> QED  BY <1>5, <1>6, <1>7, <1>8, <1>13, <2>1
<1>14. ASSUME NEW a \in 1..(z + 1)
       PROVE  /\ \E i \in 1..n : i <= w /\ v[a] = present[i]
              /\ a # z + 1 => a \in 1..z /\ \E i \in 1..n : i < w /\ v[a] = present[i]
  <2>1. CASE a = z + 1
    <3>1. w <= w
      BY <1>5, <1>7
    <3> QED  BY <1>7, <1>8, <2>1, <3>1
  <2>2. CASE a # z + 1
    <3>1. a \in 1..z
      BY <1>8, <2>2
    <3>2. PICK i \in 1..n : i < w /\ visited[a] = present[i]
      BY <1>5, <1>6, <1>8, <3>1
    <3>3. i <= w
      BY <1>5, <1>7, <3>2
    <3> QED  BY <1>8, <3>1, <3>2, <3>3
  <2> QED  BY <2>1, <2>2
<1>15. ASSUME NEW a \in 1..(z + 1), NEW b \in 1..(z + 1), a < b
       PROVE  \E i, k \in 1..n : i < k /\ v[a] = present[i] /\ v[b] = present[k]
  <2>1. a # z + 1
    BY <1>8, <1>15
  <2>2. CASE b = z + 1
    BY <1>7, <1>8, <1>14, <2>1, <2>2
  <2>3. CASE b # z + 1
    <3>1. a \in 1..z /\ b \in 1..z
      BY <1>14, <2>1, <2>3
    <3>2. \E i, k \in DOMAIN present : i < k /\ visited[a] = present[i] /\ visited[b] = present[k]
      BY <1>1, <1>8, <1>15, <3>1 DEF ListInv, WalkInv, Walking
    <3> QED  BY <1>5, <1>8, <3>1, <3>2
  <2> QED  BY <2>2, <2>3
<1>16. WalkInv'
  <2>1. Way' = Way /\ DOMAIN present' = 1..n /\ DOMAIN visited' = 1..(z + 1) /\ w \in DOMAIN present
    BY <1>1, <1>5, <1>7, <1>8, <1>9 DEF Way
  <2>2. \A i : Behind(i, w)' <=> i <= w
    BY <1>1 DEF Behind
  <2>3. /\ e' = Way'[w] /\ (pc' = "advance" => w \in DOMAIN present')
        /\ \A i \in DOMAIN present' : Behind(i, w)' /\ Listed(present[i]) => Contains(visited', present[i])
        /\ \A a \in DOMAIN visited' : \E i \in DOMAIN present' : Behind(i, w)' /\ visited'[a] = present[i]
    BY <1>1, <1>6, <1>7, <1>9, <1>13, <1>14, <2>1, <2>2
  <2>4. \A a, b \in DOMAIN visited' : a < b =>
          \E i, k \in DOMAIN present' : i < k /\ visited'[a] = present[i] /\ visited'[b] = present[k]
    BY <1>9, <1>15, <2>1
  <2> QED  BY <1>1, <1>3, <1>6, <2>1, <2>3, <2>4 DEF WalkInv, Listed
<1> QED  BY <1>1, <1>3, <1>10, <1>11, <1>12, <1>16 DEF ListInv

LEMMA AdvanceStep ==
  ASSUME ListInv, list_next
  PROVE  ListInv' /\ UNCHANGED <<job_list, state>> /\ pc' # "aborted"
<1>1. /\ pc = "advance" /\ l' = l /\ e' = l.next[e] /\ visited' = visited
      /\ present' = present /\ blocked' = blocked /\ state' = state
      /\ pc' = IF is_head(l, e) \/ is_interior(l, e) THEN "test" ELSE "aborted"
  BY DEF list_next, advance, Shell, Ghosts
<1>2. job_list' = job_list /\ \A j : (Listed(j)' <=> Listed(j)) /\ (Hanging(j)' <=> Hanging(j))
  BY <1>1, Still
<1>3. present \in Seq(Job)
  BY <1>1 DEF ListInv, WayInv, Walking
<1> DEFINE n == Len(present)
<1>4. /\ n \in Nat /\ DOMAIN present = 1..n /\ DOMAIN Way = 1..(n + 1) /\ Way[n + 1] = job_tail
      /\ \A k \in 1..n : Way[k] = present[k] /\ present[k] \in Job
      /\ \A k \in DOMAIN Way : Way[k] \in Node
  BY <1>3, WayFacts
<1> HIDE DEF n
<1>5. PICK w \in DOMAIN present :
        /\ e = Way[w]
        /\ \A i \in DOMAIN present : i <= w /\ Listed(present[i]) => Contains(visited, present[i])
        /\ \A a \in DOMAIN visited : \E i \in DOMAIN present : i <= w /\ visited[a] = present[i]
  BY <1>1 DEF ListInv, WalkInv, Walking, Behind
<1>6. PICK m \in DOMAIN Way : Leads(w, m)
  BY <1>1, <1>5 DEF ListInv, WayInv, Walking
<1>7. /\ w < m /\ e' = Way[m] /\ e' \in Node
      /\ \A i \in DOMAIN present : w < i /\ i < m => ~Listed(present[i])
  BY <1>1, <1>4, <1>5, <1>6 DEF Leads
<1>8. pc' = "test"
  <2>1. e \in Job /\ l.prev[e] # NULL /\ l.next[e] # NULL
    BY <1>1, <1>4, <1>5, <1>7, Nodes DEF ListInv, WayInv, Walking
  <2> QED  BY <1>1, <2>1, Nodes DEF is_interior
<1>9. RingInv'
  BY <1>1, <1>8, Still
<1>10. TypeOK'
  BY <1>1, <1>7, <1>8 DEF ListInv, TypeOK
<1>11. StoreInv' /\ StateInv'
  BY <1>1, <1>2, <1>8 DEF StoreInv, StateInv, ListInv, Inserting
<1>12. WayInv'
  <2>1. Walking /\ Walking'
    BY <1>1, <1>8 DEF Walking
  <2>2. WayInv' <=> WayInv
    BY <1>1, <1>2, <2>1 DEF WayInv, Way, Leads, Listed
  <2> QED  BY <2>2 DEF ListInv
<1>13. WalkInv'
  <2>1. Way' = Way /\ present' = present /\ visited' = visited /\ job_list' = job_list
    BY <1>1, <1>2 DEF Way
  <2>2. \A i : Behind(i, m)' <=> i < m
    BY <1>8 DEF Behind
  <2>3. \A i \in DOMAIN present : i < m /\ Listed(present[i]) => Contains(visited, present[i])
    <3>1. \A i \in DOMAIN present : i <= w \/ w < i
      BY <1>4
    <3> QED  BY <1>5, <1>7, <3>1
  <2>4. \A a \in DOMAIN visited : \E i \in DOMAIN present : i < m /\ visited[a] = present[i]
    <3>1. \A i \in DOMAIN present : i <= w => i < m
      BY <1>4, <1>7
    <3> QED  BY <1>5, <3>1
  <2>5. \A a, b \in DOMAIN visited : a < b =>
          \E i, k \in DOMAIN present : i < k /\ visited[a] = present[i] /\ visited[b] = present[k]
    BY <1>1 DEF ListInv, WalkInv, Walking
  <2> QED  BY <1>7, <1>8, <2>1, <2>2, <2>3, <2>4, <2>5 DEF WalkInv, Listed
<1> QED  BY <1>1, <1>2, <1>8, <1>9, <1>10, <1>11, <1>12, <1>13 DEF ListInv

LEMMA IdleStep ==
  ASSUME ListInv, Idle \/ UNCHANGED vars
  PROVE  ListInv' /\ UNCHANGED <<job_list, state, pc>>
<1>1. UNCHANGED <<l, pc, e, blocked, state, visited, present>>
  BY DEF Idle, vars
<1>2. job_list' = job_list /\ pipes' = pipes
  BY <1>1 DEF job_list, pipes
<1>3. TypeOK' /\ RingInv'
  <2>1. TypeOK' <=> TypeOK
    BY <1>1 DEF TypeOK
  <2>2. RingInv' <=> RingInv
    BY <1>1, <1>2 DEF RingInv, Listed, Hanging
  <2> QED  BY <2>1, <2>2 DEF ListInv
<1>4. StoreInv' /\ StateInv'
  <2>1. StoreInv' <=> StoreInv
    BY <1>1, <1>2 DEF StoreInv, Listed, Hanging
  <2>2. StateInv' <=> StateInv
    BY <1>1, <1>2 DEF StateInv, Listed, Hanging, Inserting
  <2> QED  BY <2>1, <2>2 DEF ListInv
<1>5. WayInv' /\ WalkInv'
  <2>1. WayInv' <=> WayInv
    BY <1>1, <1>2 DEF WayInv, Walking, Way, Leads, Listed
  <2>2. WalkInv' <=> WalkInv
    BY <1>1, <1>2 DEF WalkInv, Walking, Way, Behind, Listed
  <2> QED  BY <2>1, <2>2 DEF ListInv
<1> QED  BY <1>1, <1>2, <1>3, <1>4, <1>5 DEF ListInv

LEMMA ListStep == ListInv /\ [Next]_vars => ListInv'
<1> SUFFICES ASSUME ListInv, [Next]_vars PROVE ListInv'
  OBVIOUS
<1>1. CASE MainStep
  BY <1>1, QuietStep, PopStep, LaunchStep, StoreStep, LinkStep, BackStep, SigchldStep, VisitStep,
     AdvanceStep DEF MainStep
<1>2. CASE ReadLine \/ \E j \in Job : cmd_list_pipeline(j)
  BY <1>2, QuietStep, HangStep
<1>3. CASE jobs_execute \/ wait_for_job_Other \/ sigchld_handler
  BY <1>3, QuietStep, BeginStep, SigchldStep
<1>4. CASE \E j \in Job : End(j)
  BY <1>4, EndStep
<1>5. CASE Idle \/ UNCHANGED vars
  BY <1>5, IdleStep
<1> QED  BY <1>1, <1>2, <1>3, <1>4, <1>5 DEF Next

-----------------------------------------------------------------------------
(***************************************************************************)
(* The theorems.                                                           *)
(***************************************************************************)

\* At every step of main and of the handler both rings are linked, an insertion has written
\* what its place says, and a traversal is on its way to the end of the list.
THEOREM ListInvariance == Spec => []ListInv
BY InitInv, ListStep, PTL DEF Spec

\* Every variable has its type.
THEOREM TypeCorrect == Spec => []TypeOK
<1>1. ListInv => TypeOK
  BY DEF ListInv
<1> QED  BY <1>1, ListInvariance, PTL

\* Wherever the handler breaks in, job_list and cline->pipes are linked from end to end, forward
\* and back, except between the stores of an insertion, and no pipeline hangs in both.
THEOREM RingsIntact == Spec => []RingIntact
<1>1. ASSUME ListInv PROVE RingIntact
  <2>1. ToSet(job_list) \cap ToSet(pipes) = {}
    <3>1. /\ job_list \in Seq(Job) /\ pipes \in Seq(Job)
          /\ \A j \in Job : ~(Contains(job_list, j) /\ Contains(pipes, j))
      BY <1>1 DEF ListInv, RingInv, Listed, Hanging
    <3>2. /\ DOMAIN job_list = 1..Len(job_list) /\ DOMAIN pipes = 1..Len(pipes)
          /\ \A i \in DOMAIN job_list : job_list[i] \in Job
      BY <3>1, LenProperties
    <3> QED  BY <3>1, <3>2 DEF ToSet, Range, Contains
  <2>2. (~Inserting => IsList(l, job_head, job_tail)) /\ IsList(l, pipes_head, pipes_tail)
    BY <1>1 DEF ListInv, RingInv, Inserting
  <2> QED  BY <2>1, <2>2 DEF RingIntact
<1> QED  BY <1>1, ListInvariance, PTL

\* A traversal under which the handler removes what it stands on still comes across every job
\* that remains, once and in order; and no assertion of list_next or list_remove fails.
THEOREM WalkComplete == Spec => []WalkVisitsJobs
<1>1. ASSUME ListInv PROVE WalkVisitsJobs
  <2>1. pc # "aborted"
    BY <1>1 DEF ListInv, StateInv
  <2>2. SUFFICES ASSUME Walking
                 PROVE  /\ \A a, b \in DOMAIN visited : a < b =>
                             \E i, k \in DOMAIN present :
                               i < k /\ visited[a] = present[i] /\ visited[b] = present[k]
                        /\ ToSet(visited) \subseteq ToSet(present)
                        /\ pc = "test" /\ e = job_tail =>
                             \A j \in ToSet(job_list) : Contains(visited, j)
    BY <2>1 DEF WalkVisitsJobs, Walking
  <2>3. /\ present \in Seq(Job) /\ visited \in Seq(Job) /\ job_list \in Seq(Job)
        /\ \A j \in Job : Listed(j) => Contains(present, j)
    BY <1>1, <2>2 DEF ListInv, TypeOK, RingInv, WayInv
  <2> DEFINE n == Len(present)
  <2>4. /\ n \in Nat /\ DOMAIN present = 1..n /\ DOMAIN Way = 1..(n + 1) /\ Way[n + 1] = job_tail
        /\ \A k \in 1..n : Way[k] = present[k] /\ present[k] \in Job
        /\ \A j : Contains(present, j) <=> \E i \in 1..n : present[i] = j
    BY <2>3, WayFacts DEF Contains
  <2>5. /\ DOMAIN job_list = 1..Len(job_list) /\ \A k \in DOMAIN job_list : job_list[k] \in Job
    BY <2>3, LenProperties
  <2> HIDE DEF n
  <2>6. PICK w \in DOMAIN Way :
          /\ e = Way[w]
          /\ \A i \in DOMAIN present : Behind(i, w) /\ Listed(present[i]) => Contains(visited, present[i])
          /\ \A a \in DOMAIN visited : \E i \in DOMAIN present : Behind(i, w) /\ visited[a] = present[i]
    BY <1>1, <2>2 DEF ListInv, WalkInv
  <2>7. ToSet(visited) \subseteq ToSet(present)
    BY <2>6 DEF ToSet, Range
  <2>8. ASSUME pc = "test", e = job_tail, NEW j \in ToSet(job_list) PROVE Contains(visited, j)
    <3>1. j \in Job /\ Listed(j)
      BY <2>5, <2>8 DEF ToSet, Range, Listed, Contains
    <3>2. PICK i \in 1..n : present[i] = j
      BY <2>3, <2>4, <3>1
    <3>3. w = n + 1
      <4>1. w \in 1..n => Way[w] \in Job
        BY <2>4
      <4>2. job_tail \notin Job
        BY Nodes
      <4>3. w \in 1..n \/ w = n + 1
        BY <2>4
      <4> QED  BY <2>6, <2>8, <4>1, <4>2, <4>3
    <3>4. Behind(i, w)
      BY <2>4, <2>8, <3>2, <3>3 DEF Behind
    <3> QED  BY <2>4, <2>6, <3>1, <3>2, <3>4
  <2>9. \A a, b \in DOMAIN visited : a < b =>
          \E i, k \in DOMAIN present : i < k /\ visited[a] = present[i] /\ visited[b] = present[k]
    BY <1>1, <2>2 DEF ListInv, WalkInv
  <2> QED  BY <2>7, <2>8, <2>9
<1> QED  BY <1>1, ListInvariance, PTL

\* Link by link, main and the handler do nothing but what JobTable allows: the third store of an
\* insertion enters a job, every removal takes one out, and nothing else changes the list.
THEOREM KeepsTable == Spec => KeepsJobTable
<1> DEFINE abs == [j \in Job |-> IF state[j] \in {"exited", "killed"} THEN "ended" ELSE state[j]]
<1>1. Init => Table!Init
  <2> SUFFICES ASSUME Init PROVE Table!Init
    OBVIOUS
  <2>1. state = [j \in Job |-> "new"] /\ pc = "prompt"
    BY DEF Init
  <2>2. \A j : ~Listed(j)
    <3>1. ListInv /\ \A j \in Job : state[j] = "new"
      BY <2>1, InitInv
    <3>2. job_list \in Seq(Job) /\ \A j \in Job : ~Contains(job_list, j)
      BY <3>1 DEF ListInv, RingInv, StateInv, Listed
    <3> QED  BY <3>2 DEF Listed, Contains
  <2>3. job_list = <<>>
    <3>1. job_list \in Seq(Job) /\ ~Contains(job_list, job_list[1])
      BY <2>2, InitInv DEF ListInv, RingInv, Listed
    <3>2. Len(job_list) \in Nat /\ (job_list = <<>> <=> Len(job_list) = 0)
      BY <3>1, EmptySeq, LenProperties
    <3>3. 1 \notin 1..Len(job_list)
      BY <3>1 DEF Contains
    <3> QED  BY <3>2, <3>3
  <2>4. abs = [j \in Job |-> "new"]
    BY <2>1
  <2> QED  BY <2>1, <2>3, <2>4 DEF Table!Init
<1>2. ASSUME ListInv, [Next]_vars PROVE [Table!Next]_(Table!vars)
  <2>0. /\ state \in [Job -> {"new", "running", "exited", "killed", "gone"}]
        /\ pc # "aborted"
    BY <1>2 DEF ListInv, TypeOK, StateInv
  <2>1. ASSUME UNCHANGED <<job_list, state>>, pc' # "aborted" PROVE UNCHANGED Table!vars
    BY <2>0, <2>1 DEF Table!vars
  <2>2. ASSUME NEW j \in Job, NEW s, state' = [state EXCEPT ![j] = s]
        PROVE  abs' = [abs EXCEPT ![j] = IF s \in {"exited", "killed"} THEN "ended" ELSE s]
    BY <2>0, <2>2
  <2>3. CASE pipeline_process
    <3>1. /\ job_list' = job_list /\ pc' # "aborted" /\ e \in Job /\ state[e] = "new"
          /\ state' = [state EXCEPT ![e] = "running"]
      BY <1>2, <2>3, LaunchStep
    <3>2. PICK j \in Job : j = e
      BY <3>1
    <3>3. abs' = [abs EXCEPT ![j] = "running"] /\ abs[j] = "new"
      BY <2>2, <3>1, <3>2
    <3>4. Table!Start(j)
      BY <2>0, <3>1, <3>3 DEF Table!Start, Table!Change
    <3> QED  BY <3>4 DEF Table!Next
  <2>4. CASE insert_link
    <3>1. /\ state' = state /\ pc' # "aborted" /\ e \in Job /\ ~Listed(e)
          /\ state[e] \notin {"new", "gone"} /\ job_list' = Append(job_list, e)
      BY <1>2, <2>4, LinkStep
    <3>2. PICK j \in Job : j = e
      BY <3>1
    <3>3. abs' = abs /\ abs[j] \in {"running", "ended"}
      BY <2>0, <3>1, <3>2
    <3>4. ~Contains(job_list, j) /\ job_list' = Append(job_list, j)
      BY <3>1, <3>2 DEF Listed
    <3>5. Table!Enter(j)
      BY <2>0, <3>1, <3>3, <3>4 DEF Table!Enter, Table!Contains, Contains
    <3> QED  BY <3>5 DEF Table!Next
  <2>5. CASE sigchld_handler \/ wait_for_job
    <3>1. PICK j \in Job :
            /\ state[j] \in {"exited", "killed"} /\ state' = [state EXCEPT ![j] = "gone"]
            /\ \E k \in DOMAIN job_list : job_list[k] = j /\ job_list' = RemoveAt(job_list, k)
      BY <1>2, <2>5, SigchldStep
    <3>2. pc' # "aborted"
      BY <1>2, <2>5, SigchldStep
    <3>3. abs' = [abs EXCEPT ![j] = "gone"] /\ abs[j] = "ended"
      BY <2>2, <2>0, <3>1
    <3>4. (pc # "aborted") /\ (pc' # "aborted") = (pc # "aborted")
      BY <2>0, <3>2
    <3>5. \E i \in DOMAIN job_list : job_list[i] = j /\ job_list' = RemoveAt(job_list, i)
      BY <3>1
    <3>6. Table!Leave(j)
      BY <3>3, <3>4, <3>5 DEF Table!Leave, Table!Change, Table!RemoveAt, RemoveAt
    <3> QED  BY <3>6 DEF Table!Next
  <2>6. CASE \E j \in Job : End(j)
    <3>1. PICK j \in Job : End(j)
      BY <2>6
    <3>2. /\ job_list' = job_list /\ pc' = pc /\ state[j] = "running"
          /\ \E how \in {"exited", "killed"} : state' = [state EXCEPT ![j] = how]
      BY <1>2, <3>1, EndStep
    <3>3. abs' = [abs EXCEPT ![j] = "ended"] /\ abs[j] = "running"
      BY <2>2, <3>2
    <3>4. Table!End(j)
      BY <2>0, <3>2, <3>3 DEF Table!End, Table!Change
    <3> QED  BY <3>4 DEF Table!Next
  <2>7. CASE Idle \/ UNCHANGED vars
    BY <1>2, <2>0, <2>1, <2>7, IdleStep
  <2>8. CASE \/ ReadLine \/ esh_parse_command_line \/ EndOfLine \/ pipeline_post_process
             \/ wait_for_job_Other \/ walk_end \/ (\E j \in Job : cmd_list_pipeline(j))
             \/ NextPipeline \/ insert_prev \/ insert_next \/ insert_back
             \/ jobs_execute \/ walk_visit \/ list_next
    <3>1. UNCHANGED <<job_list, state>> /\ pc' # "aborted"
      BY <1>2, <2>8, QuietStep, HangStep, PopStep, StoreStep, BackStep, BeginStep, VisitStep,
         AdvanceStep
    <3> QED  BY <2>1, <3>1
  <2> QED
    BY <1>2, <2>3, <2>4, <2>5, <2>6, <2>7, <2>8 DEF Next, MainStep
<1>3. [][Table!Next]_(Table!vars) /\ Table!Init => KeepsJobTable
  BY DEF KeepsJobTable, Table!Safety
<1> QED  BY <1>1, <1>2, <1>3, ListInvariance, PTL DEF Spec
=============================================================================
