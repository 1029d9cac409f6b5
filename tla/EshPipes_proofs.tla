--------------------------- MODULE EshPipes_proofs ---------------------------
(***************************************************************************)
(* Proofs about EshPipes, for every set of pipelines of any length, with   *)
(* built-ins and redirections anywhere, and every number of descriptors    *)
(* that a theorem does not exclude.                                        *)
(***************************************************************************)
EXTENDS EshPipes, FiniteSetTheorems, TLAPS

-----------------------------------------------------------------------------
(***************************************************************************)
(* The lowest free descriptor.                                             *)
(***************************************************************************)

LEMMA LeastElement ==
  ASSUME NEW S \in SUBSET Nat, S # {}
  PROVE  \E x \in S : \A y \in S : x <= y
<1>1. PICK x \in S : \A y \in S : <<y, x>> \notin OpToRel(<, Nat)
  BY NatLessThanWellFounded, WFMin
<1>2. \A y \in S : ~(y < x)
  BY <1>1 DEF OpToRel
<1> QED  BY <1>2

LEMMA MinOfSet ==
  ASSUME NEW S \in SUBSET Nat, S # {}
  PROVE  Min(S) \in S /\ \A y \in S : Min(S) <= y
BY LeastElement DEF Min

LEMMA MinIs ==
  ASSUME NEW S \in SUBSET Nat, NEW x \in S, \A y \in S : x <= y
  PROVE  Min(S) = x
<1>1. Min(S) \in S /\ Min(S) <= x /\ x <= Min(S)
  BY MinOfSet
<1>2. Min(S) \in Nat /\ x \in Nat
  BY <1>1
<1> QED  BY <1>1, <1>2

LEMMA FdNat == Fd \in SUBSET Nat /\ 0..3 \subseteq Fd /\ \A d \in Fd : d \in Nat /\ d < OpenMax
BY DescriptorAssumption DEF Fd

LEMMA FreeFinite ==
  ASSUME NEW t
  PROVE  IsFiniteSet(Free(t)) /\ Cardinality(Free(t)) \in Nat
<1>1. IsFiniteSet(Fd)
  BY FS_Interval, DescriptorAssumption DEF Fd
<1>2. Free(t) \in SUBSET Fd
  BY DEF Free
<1> QED  BY <1>1, <1>2, FS_Subset, FS_CardinalityType

LEMMA TwoFree ==
  ASSUME NEW t
  PROVE  Cardinality(Free(t)) >= 2 <=> \E a, b \in Free(t) : a # b
<1>1. ASSUME Cardinality(Free(t)) >= 2
      PROVE  \E a, b \in Free(t) : a # b
  <2>1. PICK a : a \in Free(t)
    BY <1>1, FreeFinite, FS_EmptySet
  <2>2. Free(t) # {a}
    BY <1>1, FS_Singleton
  <2> QED  BY <2>1, <2>2
<1>2. ASSUME NEW a \in Free(t), NEW b \in Free(t), a # b
      PROVE  Cardinality(Free(t)) >= 2
  <2>1. Cardinality({a}) = 1 /\ IsFiniteSet({a})
    BY FS_Singleton
  <2>2. Cardinality({a} \cup {b}) = 2
    BY <1>2, <2>1, FS_AddElement
  <2>3. {a} \cup {b} \in SUBSET Free(t)
    OBVIOUS
  <2>4. Cardinality({a} \cup {b}) <= Cardinality(Free(t))
    BY <2>3, FreeFinite, FS_Subset
  <2> QED  BY <2>2, <2>4, FreeFinite
<1> QED  BY <1>1, <1>2

-----------------------------------------------------------------------------
(***************************************************************************)
(* Slots.                                                                  *)
(***************************************************************************)

LEMMA SlotFacts ==
  ASSUME NEW s \in Slot
  PROVE  /\ s \in Fd \X Fd /\ s = <<s[1], s[2]>>
         /\ s[1] \in Nat /\ s[1] > 3 /\ s[2] = s[1] + 1
         /\ \E k \in Nat : s[1] = 2 * k
BY DescriptorAssumption DEF Slot, Fd

LEMMA SlotsApart ==
  ASSUME NEW s \in Slot, NEW r \in Slot, s # r
  PROVE  s[1] # r[1] /\ s[1] # r[2] /\ s[2] # r[1] /\ s[2] # r[2]
BY SlotFacts

LEMMA SlotOf ==
  ASSUME NEW d \in Fd, d > 3, d # OpenMax - 1
  PROVE  \E s \in Slot : d \in {s[1], s[2]}
<1>1. PICK k \in Nat : d = 2 * k \/ d = 2 * k + 1
  <2>1. (d \div 2) \in Nat /\ (d = 2 * (d \div 2) \/ d = 2 * (d \div 2) + 1)
    BY FdNat
  <2> QED  BY <2>1
<1>2. k \in 2..((OpenMax \div 2) - 1)
  BY <1>1, FdNat, DescriptorAssumption
<1>3. <<2 * k, 2 * k + 1>> \in Slot
  BY <1>2 DEF Slot
<1> QED  BY <1>1, <1>3

-----------------------------------------------------------------------------
(***************************************************************************)
(* What the calls do to a table.                                           *)
(***************************************************************************)

LEMMA EndsDiffer ==
  /\ \A q, r : /\ ReadEnd(q) # WriteEnd(r)
               /\ ReadEnd(q) = ReadEnd(r) => q = r
               /\ WriteEnd(q) = WriteEnd(r) => q = r
  /\ \A q : /\ ReadEnd(q) \notin {Closed, Terminal, File}
            /\ WriteEnd(q) \notin {Closed, Terminal, File}
  /\ Closed # Terminal /\ Closed # File /\ Terminal # File
BY DEF ReadEnd, WriteEnd, Closed, Terminal, File

LEMMA TableFacts ==
  /\ NoTable \in Table /\ ShellTable \in Table
  /\ \A t \in Table : \A ds : close(t, ds) \in Table
  /\ \A t \in Table : \A x, y \in Fd : dup2(t, x, y) \in Table
  /\ \A t \in Table : \A v \in Open \cup {Closed} : \A x : [t EXCEPT ![x] = v] \in Table
  /\ File \in Open /\ \A q \in Pipe : ReadEnd(q) \in Open /\ WriteEnd(q) \in Open
BY DEF NoTable, ShellTable, Table, close, dup2, Open, PipeEnd

LEMMA LowestFree ==
  ASSUME NEW t, Free(t) # {}
  PROVE  /\ lowest(t) \in Fd /\ t[lowest(t)] = Closed
         /\ \A d \in Free(t) : lowest(t) <= d
<1>1. Free(t) \in SUBSET Nat
  BY FdNat DEF Free
<1>2. lowest(t) \in Free(t) /\ \A d \in Free(t) : lowest(t) <= d
  BY <1>1, MinOfSet DEF lowest
<1> QED  BY <1>2 DEF Free

LEMMA PairOfFds ==
  ASSUME NEW t, Cardinality(Free(t)) >= 2
  PROVE  /\ pipe_fds(t) \in Free(t) \X Free(t)
         /\ pipe_fds(t)[1] < pipe_fds(t)[2]
         /\ \A d \in Free(t) : d >= pipe_fds(t)[1]
         /\ \A d \in Free(t) : d = pipe_fds(t)[1] \/ d >= pipe_fds(t)[2]
<1> DEFINE low == lowest(t)
           rest == Free(t) \ {low}
<1>1. Free(t) # {} /\ rest # {} /\ Free(t) \in SUBSET Nat
  <2>1. PICK x, y \in Free(t) : x # y
    BY TwoFree
  <2>2. x \in rest \/ y \in rest
    BY <2>1
  <2> QED  BY <2>2, FdNat DEF Free
<1>2. low \in Free(t) /\ \A d \in Free(t) : low <= d
  BY <1>1, LowestFree DEF Free
<1>3. Min(rest) \in rest /\ \A d \in rest : Min(rest) <= d
  BY <1>1, MinOfSet
<1>4. pipe_fds(t) = <<low, Min(rest)>>
  BY DEF pipe_fds
<1> HIDE DEF low, rest
<1>5. low \in Nat /\ Min(rest) \in Nat /\ low # Min(rest) /\ Min(rest) \in Free(t)
  BY <1>1, <1>2, <1>3 DEF rest
<1>6. \A d \in Free(t) : d = low \/ d >= Min(rest)
  BY <1>1, <1>3, <1>5 DEF rest
<1> QED  BY <1>1, <1>2, <1>4, <1>5, <1>6

\* In a tidy table that is a slot.
LEMMA LowestPair ==
  ASSUME NEW t \in Table, Tidy(t), Cardinality(Free(t)) >= 2
  PROVE  /\ pipe_fds(t) \in Slot
         /\ IsClosed(t, pipe_fds(t))
         /\ LowestFrom(t, pipe_fds(t))
<1> DEFINE a == pipe_fds(t)[1]
           b == pipe_fds(t)[2]
<1>1. /\ pipe_fds(t) = <<a, b>> /\ a \in Fd /\ b \in Fd /\ a \in Nat /\ b \in Nat /\ a < b
      /\ t[a] = Closed /\ t[b] = Closed
      /\ \A d \in Free(t) : d >= a /\ (d = a \/ d >= b)
  BY PairOfFds, FdNat DEF Free
<1>2. a > 3 /\ a # OpenMax - 1
  BY <1>1, EndsDiffer, FdNat, DescriptorAssumption DEF Tidy
<1> HIDE DEF a, b
<1>3. PICK s \in Slot : a \in {s[1], s[2]}
  BY <1>1, <1>2, SlotOf
<1>4. IsClosed(t, s)
  BY <1>1, <1>3, EndsDiffer DEF Tidy, Holds
<1>5. s[1] \in Free(t) /\ s[2] \in Free(t)
  BY <1>4, SlotFacts DEF Free, IsClosed
<1>6. s[1] = a /\ s[2] = b
  BY <1>1, <1>3, <1>5, SlotFacts
<1>7. pipe_fds(t) = s
  BY <1>1, <1>6, SlotFacts
<1> QED  BY <1>1, <1>3, <1>4, <1>6, <1>7 DEF LowestFrom

\* A closed slot with nothing free below it is what pipe returns next.
LEMMA LowestSlot ==
  ASSUME NEW t, NEW s \in Slot, IsClosed(t, s), LowestFrom(t, s)
  PROVE  pipe_fds(t) = s /\ Cardinality(Free(t)) >= 2
<1>1. s[1] \in Free(t) /\ s[2] \in Free(t) /\ s[1] # s[2]
  BY SlotFacts DEF Free, IsClosed
<1>2. Cardinality(Free(t)) >= 2
  BY <1>1, TwoFree
<1> DEFINE a == pipe_fds(t)[1]
           b == pipe_fds(t)[2]
<1>3. /\ pipe_fds(t) = <<a, b>> /\ a \in Free(t) /\ b \in Free(t) /\ a < b
      /\ \A d \in Free(t) : d >= a /\ (d = a \/ d >= b)
  BY <1>2, PairOfFds
<1>4. a \in Nat /\ b \in Nat
  BY <1>3, FdNat DEF Free
<1> HIDE DEF a, b
<1>5. a = s[1] /\ b = s[2]
  BY <1>1, <1>3, <1>4, SlotFacts DEF LowestFrom
<1> QED  BY <1>2, <1>3, <1>5, SlotFacts

\* pipe, in a tidy table.
LEMMA PipeTidy ==
  ASSUME NEW t \in Table, Tidy(t), Cardinality(Free(t)) >= 2, NEW q \in Pipe,
         NEW s, s = pipe_fds(t)
  PROVE  /\ pipe(t, q) \in Table /\ Tidy(pipe(t, q))
         /\ s \in Slot /\ IsClosed(t, s) /\ LowestFrom(t, s)
         /\ Holds(pipe(t, q), s, q) /\ LowestFrom(pipe(t, q), s)
         /\ \A r \in Slot \ {s} : /\ pipe(t, q)[r[1]] = t[r[1]]
                                  /\ pipe(t, q)[r[2]] = t[r[2]]
         /\ \A d \in Fd : pipe(t, q)[d] \in {t[d], ReadEnd(q), WriteEnd(q)}
<1> DEFINE u == pipe(t, q)
<1>1. s \in Slot /\ IsClosed(t, s) /\ LowestFrom(t, s)
  BY LowestPair
<1>2. s[1] \in Fd /\ s[2] \in Fd /\ s[1] # s[2] /\ s[1] > 3 /\ s[2] > 3 /\ DOMAIN t = Fd
  BY <1>1, SlotFacts DEF Table
<1>3. u = [t EXCEPT ![s[1]] = ReadEnd(q), ![s[2]] = WriteEnd(q)]
  BY DEF pipe
<1>4. /\ u[s[1]] = ReadEnd(q) /\ u[s[2]] = WriteEnd(q)
      /\ \A d \in Fd \ {s[1], s[2]} : u[d] = t[d]
  BY <1>2, <1>3
<1>5. u \in Table
  <2>1. [t EXCEPT ![s[1]] = ReadEnd(q)] \in Table
    BY TableFacts
  <2>2. ASSUME NEW v \in Table PROVE [v EXCEPT ![s[2]] = WriteEnd(q)] \in Table
    BY TableFacts
  <2>3. u = [[t EXCEPT ![s[1]] = ReadEnd(q)] EXCEPT ![s[2]] = WriteEnd(q)]
    BY <1>3
  <2> QED  BY <2>1, <2>2, <2>3
<1> HIDE DEF u
<1>6. \A r \in Slot \ {s} : u[r[1]] = t[r[1]] /\ u[r[2]] = t[r[2]]
  BY <1>1, <1>4, SlotsApart, SlotFacts
<1>7. Holds(u, s, q)
  BY <1>4 DEF Holds
<1>8. LowestFrom(u, s)
  BY <1>1, <1>4, EndsDiffer DEF LowestFrom, Free
<1>9. Tidy(u)
  <2>1. \A d \in 0..3 : u[d] = Terminal
    BY <1>2, <1>4, FdNat DEF Tidy
  <2>2. ASSUME NEW r \in Slot PROVE IsClosed(u, r) \/ \E o \in Pipe : Holds(u, r, o)
    <3>1. CASE r = s  BY <3>1, <1>7
    <3>2. CASE r # s  BY <3>2, <1>6 DEF Tidy, IsClosed, Holds
    <3> QED  BY <3>1, <3>2
  <2>3. ASSUME NEW d \in Fd, d > 3 PROVE u[d] = Closed \/ \E r \in Slot : d \in {r[1], r[2]}
    BY <2>3, <1>1, <1>4 DEF Tidy
  <2> QED  BY <2>1, <2>2, <2>3 DEF Tidy
<1> QED  BY <1>1, <1>4, <1>5, <1>6, <1>7, <1>8, <1>9 DEF u

\* close, of the slots in R, in a tidy table.
Both(R) == UNION {{r[1], r[2]} : r \in R}
LEMMA CloseTidy ==
  ASSUME NEW t \in Table, Tidy(t), NEW R \in SUBSET Slot
  PROVE  /\ close(t, Both(R)) \in Table /\ Tidy(close(t, Both(R)))
         /\ \A r \in R : IsClosed(close(t, Both(R)), r)
         /\ \A r \in Slot \ R : /\ close(t, Both(R))[r[1]] = t[r[1]]
                                /\ close(t, Both(R))[r[2]] = t[r[2]]
         /\ \A d \in Fd : close(t, Both(R))[d] \in {t[d], Closed}
<1> DEFINE u == close(t, Both(R))
<1>1. u \in Table /\ \A d \in Fd : u[d] = IF d \in Both(R) THEN Closed ELSE t[d]
  BY TableFacts DEF close
<1>2. \A d : d \in Both(R) <=> \E r \in R : d \in {r[1], r[2]}
  BY DEF Both
<1> HIDE DEF u
<1>3. \A r \in R : IsClosed(u, r)
  BY <1>1, <1>2, SlotFacts DEF IsClosed
<1>4. ASSUME NEW r \in Slot \ R PROVE u[r[1]] = t[r[1]] /\ u[r[2]] = t[r[2]]
  <2>1. r[1] \in Fd /\ r[2] \in Fd
    BY SlotFacts
  <2>2. r[1] \notin Both(R) /\ r[2] \notin Both(R)
    BY <1>2, SlotsApart
  <2> QED  BY <1>1, <2>1, <2>2
<1>5. Tidy(u)
  <2>1. ASSUME NEW d \in 0..3 PROVE u[d] = Terminal
    <3>1. d \notin Both(R) /\ d \in Fd
      BY <1>2, SlotFacts, FdNat
    <3> QED  BY <1>1, <3>1 DEF Tidy
  <2>2. ASSUME NEW r \in Slot PROVE IsClosed(u, r) \/ \E o \in Pipe : Holds(u, r, o)
    <3>1. CASE r \in R  BY <3>1, <1>3
    <3>2. CASE r \notin R  BY <3>2, <1>4 DEF Tidy, IsClosed, Holds
    <3> QED  BY <3>1, <3>2
  <2>3. ASSUME NEW d \in Fd, d > 3 PROVE u[d] = Closed \/ \E r \in Slot : d \in {r[1], r[2]}
    BY <2>3, <1>1 DEF Tidy
  <2> QED  BY <2>1, <2>2, <2>3 DEF Tidy
<1> QED  BY <1>1, <1>3, <1>4, <1>5 DEF u

\* A redirection replaces a descriptor that is open, and leaves the rest as it was.
LEMMA OntoReplaces ==
  ASSUME NEW t \in Table, Free(t) # {}, NEW x \in Fd
  PROVE  /\ onto(t, x) \in Table
         /\ Free(onto(t, x)) # {}
         /\ t[x] # Closed => onto(t, x) = [t EXCEPT ![x] = File]
<1> DEFINE low == lowest(t)
<1>1. low \in Fd /\ t[low] = Closed
  BY LowestFree
<1> DEFINE o == open(t, File)
           u == dup2(o, low, x)
<1>2. /\ o = [t EXCEPT ![low] = File] /\ u = [o EXCEPT ![x] = o[low]]
      /\ onto(t, x) = close(u, {low})
  BY DEF open, dup2, onto
<1> HIDE DEF low, o, u
<1>3. o \in Table /\ u \in Table /\ onto(t, x) \in Table
  <2>1. o \in Table
    BY <1>2, TableFacts
  <2>2. u \in Table
    BY <1>1, <1>2, <2>1, TableFacts DEF dup2
  <2> QED  BY <1>2, <2>2, TableFacts
<1>4. onto(t, x) = [d \in Fd |-> IF d = low THEN Closed ELSE IF d = x THEN File ELSE t[d]]
  BY <1>1, <1>2, <1>3 DEF close, Table
<1>5. low \in Free(onto(t, x))
  BY <1>1, <1>4 DEF Free
<1>6. ASSUME t[x] # Closed PROVE onto(t, x) = [t EXCEPT ![x] = File]
  <2>1. \A d \in Fd : onto(t, x)[d] = IF d = x THEN File ELSE t[d]
    BY <1>1, <1>4, <1>6
  <2> QED  BY <2>1, <1>3 DEF Table
<1> QED  BY <1>3, <1>5, <1>6

-----------------------------------------------------------------------------
(***************************************************************************)
(* Type correctness, with where main is in the pipeline it launches.       *)
(***************************************************************************)

LEMMA JobFacts ==
  /\ \A j \in Job : /\ Len(Cmds[j]) \in Nat /\ 1 <= Len(Cmds[j]) /\ Len(Cmds[j]) <= MaxCmds
                    /\ <<j, 1>> \in Proc
  /\ \A p : p \in Proc <=> /\ p = <<p[1], p[2]>> /\ p[1] \in Job
                           /\ p[2] \in 1..Len(Cmds[p[1]])
                           /\ Cmds[p[1]][p[2]] = "program"
  /\ Pipe = Proc /\ Shell \in Owner /\ Proc \subseteq Owner /\ Shell \notin Proc
  /\ NoJob \notin Job /\ MaxCmds \in Nat
<1>1. \A j \in Job : Len(Cmds[j]) \in 1..MaxCmds /\ Cmds[j][1] = "program"
  BY PipesAssumption
<1>2. MaxCmds \in Nat
  BY PipesAssumption
<1>3. \A j \in Job : Len(Cmds[j]) \in Nat /\ 1 <= Len(Cmds[j]) /\ Len(Cmds[j]) <= MaxCmds
  BY <1>1, <1>2
<1>4. ASSUME NEW p
      PROVE  p \in Proc <=> /\ p = <<p[1], p[2]>> /\ p[1] \in Job
                            /\ p[2] \in 1..Len(Cmds[p[1]])
                            /\ Cmds[p[1]][p[2]] = "program"
  <2>1. p \in Job \X (1..MaxCmds) <=> p = <<p[1], p[2]>> /\ p[1] \in Job /\ p[2] \in 1..MaxCmds
    OBVIOUS
  <2> QED  BY <1>2, <1>3, <2>1 DEF Proc
<1>5. \A j \in Job : <<j, 1>> \in Proc
  BY <1>1, <1>3, <1>4
<1> QED  BY <1>2, <1>3, <1>4, <1>5, PipesAssumption DEF Owner

LEMMA CurrentIn ==
  ASSUME TypeOK, LaunchInv,
         pc = "parent" \/ (pc = "cmd" /\ n <= Len(Cmds[pipeline]) /\ Cmds[pipeline][n] = "program")
  PROVE  /\ pipeline \in Job /\ n \in 1..Len(Cmds[pipeline]) /\ n \in Nat
         /\ Current \in Proc /\ Current[1] = pipeline /\ Current[2] = n
         /\ Current # Shell
<1>1. pipeline \in Job /\ n \in 1..(Len(Cmds[pipeline]) + 1) /\ n <= Len(Cmds[pipeline])
  BY DEF LaunchInv, AtWork
<1>2. n \in 1..Len(Cmds[pipeline]) /\ n \in Nat
  BY <1>1, JobFacts
<1>3. Cmds[pipeline][n] = "program"
  BY <1>2 DEF LaunchInv, AtWork, Forked
<1> QED  BY <1>1, <1>2, <1>3, JobFacts DEF Current

LEMMA AtCurrent ==
  ASSUME pipeline \in Job, n \in 1..Len(Cmds[pipeline])
  PROVE  /\ Last(Current) <=> n = Len(Cmds[pipeline])
         /\ First(Current) <=> n = 1
         /\ hasPipe(pipeline) /\ First(Current) => ~Last(Current)
         /\ ~hasPipe(pipeline) => n = 1 /\ Last(Current)
<1>1. Len(Cmds[pipeline]) \in Nat /\ n \in Nat /\ 1 <= n /\ n <= Len(Cmds[pipeline])
  BY JobFacts
<1>2. /\ Last(Current) <=> n = Len(Cmds[pipeline])
      /\ First(Current) <=> n = 1
  BY DEF Last, First, Current
<1> DEFINE len == Len(Cmds[pipeline])
<1>3. hasPipe(pipeline) <=> len >= 2
  BY DEF hasPipe
<1> HIDE DEF len
<1>4. hasPipe(pipeline) <=> len # 1
  <2>1. len \in Nat /\ 1 <= len
    BY <1>1 DEF len
  <2> QED  BY <1>3, <2>1
<1>5. len = 1 => n = 1
  BY <1>1 DEF len
<1> QED  BY <1>2, <1>4, <1>5 DEF len

\* The tables that the children make of theirs are tables.
LEMMA ChildTable ==
  ASSUME TypeOK, NEW p \in Proc, can_execute(p)
  PROVE  (LET t == io_redirection(p)
          IN  IF hasPipe(p[1]) THEN write_first(p, read_second(p, t)) ELSE t) \in Table
<1>1. fd[p] \in Table /\ p \in Owner /\ 0 \in Fd /\ 1 \in Fd
  BY JobFacts, FdNat DEF TypeOK
<1>2. iored(p) # {} => Free(fd[p]) # {}
  BY DEF can_execute
<1> DEFINE t0 == IF "<" \in iored(p) THEN onto(fd[p], 0) ELSE fd[p]
<1>3. t0 \in Table /\ (iored(p) # {} => Free(t0) # {})
  BY <1>1, <1>2, OntoReplaces
<1>4. io_redirection(p) \in Table
  BY <1>1, <1>3, OntoReplaces DEF io_redirection
<1>5. firstPipe[p] \in Fd \X Fd /\ secondPipe[p] \in Fd \X Fd
  BY <1>1 DEF TypeOK
<1>6. \A t \in Table : read_second(p, t) \in Table /\ write_first(p, t) \in Table
  BY <1>1, <1>5, TableFacts DEF read_second, write_first
<1> QED  BY <1>4, <1>6

LEMMA TypeStep ==
  ASSUME TypeOK, LaunchInv, [Next]_vars
  PROVE  TypeOK'
<1> USE DEF TypeOK
<1>1. ASSUME NEW j \in Job, pipeline_pre_process(j) PROVE TypeOK'
  BY <1>1, JobFacts DEF pipeline_pre_process, copies
<1>2. CASE pipeline_process
  <2>1. Current \in Proc /\ Current \in Owner /\ Shell \in Owner
    BY <1>2, CurrentIn, JobFacts DEF pipeline_process
  <2>2. PICK table, first :
          /\ table \in Table /\ first \in Fd \X Fd
          /\ fd' = [fd EXCEPT ![Shell] = table, ![Current] = table]
          /\ firstPipe' = [firstPipe EXCEPT ![Shell] = first, ![Current] = first]
    <3> DEFINE piped == hasPipe(pipeline) /\ ~Last(Current) /\ Cardinality(Free(fd[Shell])) >= 2
               table == IF piped THEN pipe(fd[Shell], Current) ELSE fd[Shell]
               first == IF piped THEN pipe_fds(fd[Shell]) ELSE firstPipe[Shell]
    <3>1. fd[Shell] \in Table /\ firstPipe[Shell] \in Fd \X Fd /\ Current \in Pipe
      BY <2>1, JobFacts
    <3>2. first \in Fd \X Fd
      BY <3>1, PairOfFds DEF Free
    <3>3. pipe(fd[Shell], Current) \in Table
      <4> DEFINE u == [fd[Shell] EXCEPT ![pipe_fds(fd[Shell])[1]] = ReadEnd(Current)]
      <4>1. u \in Table
        BY <3>1, TableFacts
      <4>2. ASSUME NEW v \in Table, NEW x PROVE [v EXCEPT ![x] = WriteEnd(Current)] \in Table
        BY <3>1, TableFacts
      <4>3. pipe(fd[Shell], Current) = [u EXCEPT ![pipe_fds(fd[Shell])[2]] = WriteEnd(Current)]
        BY DEF pipe
      <4> QED  BY <4>1, <4>2, <4>3
    <3>4. table \in Table
      BY <3>1, <3>3
    <3>5. /\ fd' = [fd EXCEPT ![Shell] = table, ![Current] = table]
          /\ firstPipe' = [firstPipe EXCEPT ![Shell] = first, ![Current] = first]
      BY <1>2 DEF pipeline_process
    <3> HIDE DEF table, first
    <3> QED  BY <3>2, <3>4, <3>5
  <2>3. fd' \in [Owner -> Table] /\ firstPipe' \in [Owner -> Fd \X Fd]
    BY <2>1, <2>2
  <2>4. secondPipe' \in [Owner -> Fd \X Fd]
    BY <1>2, <2>1 DEF pipeline_process
  <2>5. phase' \in [Proc -> Phase] /\ pc' = "parent" /\ UNCHANGED <<pipeline, n>>
    BY <1>2, <2>1 DEF pipeline_process, Phase
  <2> QED  BY <2>3, <2>4, <2>5
<1>3. CASE pipeline_process_Parent
  <2>1. n \in Nat /\ n <= MaxCmds /\ MaxCmds \in Nat
    <3>1. pipeline \in Job /\ n \in 1..Len(Cmds[pipeline]) /\ n \in Nat
      BY <1>3, CurrentIn DEF pipeline_process_Parent
    <3>2. Len(Cmds[pipeline]) \in Nat /\ Len(Cmds[pipeline]) <= MaxCmds /\ MaxCmds \in Nat
      BY <3>1, JobFacts
    <3> QED  BY <3>1, <3>2
  <2>2. n' \in 0..(MaxCmds + 1) /\ pc' = "cmd" /\ UNCHANGED <<pipeline, phase, firstPipe>>
    BY <1>3, <2>1 DEF pipeline_process_Parent, list_next
  <2>3. fd' \in [Owner -> Table] /\ secondPipe' \in [Owner -> Fd \X Fd]
    <3>1. fd[Shell] \in Table /\ firstPipe[Shell] \in Fd \X Fd /\ secondPipe[Shell] \in Fd \X Fd
      BY JobFacts
    <3>2. close(fd[Shell], parent_closes) \in Table
      BY <3>1, TableFacts
    <3>3. CASE hasPipe(pipeline)
      <4> DEFINE s == IF Last(Current) THEN secondPipe[Shell] ELSE firstPipe[Shell]
      <4>1. s \in Fd \X Fd
        BY <3>1
      <4>2. /\ fd' = [fd EXCEPT ![Shell] = close(fd[Shell], parent_closes)]
            /\ secondPipe' = [secondPipe EXCEPT ![Shell] = s]
        BY <1>3, <3>3 DEF pipeline_process_Parent
      <4> HIDE DEF s
      <4> QED  BY <3>2, <4>1, <4>2
    <3>4. CASE ~hasPipe(pipeline)
      BY <1>3, <3>4 DEF pipeline_process_Parent
    <3> QED  BY <3>3, <3>4
  <2> QED  BY <2>2, <2>3
<1>4. CASE builtin_execute \/ pipeline_post_process
  BY <1>4, JobFacts DEF builtin_execute, pipeline_post_process, Finish, copies
<1>5. CASE shell_ends
  BY <1>5, TableFacts DEF shell_ends, copies
<1>6. ASSUME NEW p \in Proc, execvp(p) PROVE TypeOK'
  <2> DEFINE t == io_redirection(p)
             u == IF hasPipe(p[1]) THEN write_first(p, read_second(p, t)) ELSE t
  <2>1. fd' = [fd EXCEPT ![p] = u] /\ can_execute(p)
    BY <1>6 DEF execvp
  <2>2. u \in Table
    BY <2>1, ChildTable
  <2> HIDE DEF u
  <2>3. fd' \in [Owner -> Table]
    BY <2>1, <2>2
  <2>4. /\ UNCHANGED <<pc, pipeline, n, firstPipe, secondPipe>>
        /\ phase' \in [Proc -> Phase]
    BY <1>6 DEF execvp, main, copies, Phase
  <2> QED  BY <2>3, <2>4
<1>7. ASSUME NEW p \in Proc, die(p) PROVE TypeOK'
  BY <1>7, TableFacts DEF die, main, copies, Phase
<1>8. CASE UNCHANGED vars
  BY <1>8 DEF vars, main, copies
<1> QED
  BY <1>1, <1>2, <1>3, <1>4, <1>5, <1>6, <1>7, <1>8
  DEF Next, Main, Child, esh_sys_fatal_error, Idle

LEMMA LaunchStep ==
  ASSUME TypeOK, LaunchInv, [Next]_vars
  PROVE  LaunchInv'
<1>1. ASSUME NEW j \in Job, pipeline_pre_process(j) PROVE LaunchInv'
  <2>1. /\ pc' = "cmd" /\ pipeline' = j /\ n' = 1 /\ phase' = phase
        /\ phase[<<j, 1>>] = "none"
    BY <1>1 DEF pipeline_pre_process
  <2>2. \A p \in Proc : p[1] = j => phase[p] = "none" /\ ~(p[2] < 1)
    BY <2>1, JobFacts DEF LaunchInv
  <2>3. 1 \in 1..(Len(Cmds[j]) + 1) /\ \A k \in 1..Len(Cmds[j]) : ~(k < 1)
    BY JobFacts
  <2> QED  BY <2>1, <2>2, <2>3 DEF LaunchInv, AtWork, Forked
<1>2. CASE pipeline_process
  <2>1. /\ pipeline \in Job /\ n \in 1..Len(Cmds[pipeline]) /\ n \in Nat
        /\ Current \in Proc /\ Current[1] = pipeline /\ Current[2] = n
        /\ Cmds[pipeline][n] = "program" /\ pc = "cmd"
    BY <1>2, CurrentIn DEF pipeline_process
  <2>2. /\ pc' = "parent" /\ pipeline' = pipeline /\ n' = n
        /\ phase' = [phase EXCEPT ![Current] = "forked"]
    BY <1>2 DEF pipeline_process
  <2>3. \A p \in Proc : phase'[p] = IF p = Current THEN "forked" ELSE phase[p]
    BY <2>1, <2>2 DEF TypeOK
  <2>4. \A p \in Proc : p = Current <=> p[1] = pipeline /\ p[2] = n
    BY <2>1, JobFacts DEF Current
  <2>5. \A k \in 1..Len(Cmds[pipeline]) : Forked(k)' => Cmds[pipeline][k] = "program"
    BY <2>1, <2>2 DEF LaunchInv, Forked, AtWork
  <2>6. \A p \in Proc : p[1] = pipeline => (phase'[p] # "none" <=> Forked(p[2])')
    BY <2>1, <2>2, <2>3, <2>4 DEF LaunchInv, Forked, AtWork
  <2>7. ASSUME NEW p \in Proc, phase'[p] # "none" PROVE phase'[<<p[1], 1>>] # "none"
    <3>1. <<p[1], 1>> \in Proc
      BY JobFacts
    <3>2. CASE p # Current
      BY <3>1, <3>2, <2>3, <2>7 DEF LaunchInv
    <3>3. CASE p = Current /\ n = 1
      BY <3>1, <3>3, <2>1, <2>3 DEF Current
    <3>4. CASE p = Current /\ n # 1
      <4>1. <<p[1], 1>>[1] = pipeline /\ <<p[1], 1>>[2] = 1 /\ 1 < n
        BY <2>1, <3>4
      <4>2. phase[<<p[1], 1>>] # "none"
        BY <2>1, <3>1, <4>1 DEF LaunchInv, AtWork, Forked
      <4> QED  BY <2>3, <3>1, <4>2
    <3> QED  BY <3>2, <3>3, <3>4
  <2> QED  BY <2>1, <2>2, <2>5, <2>6, <2>7, JobFacts DEF LaunchInv, AtWork
<1>3. CASE pipeline_process_Parent
  <2>1. /\ pipeline \in Job /\ n \in 1..Len(Cmds[pipeline]) /\ n \in Nat /\ pc = "parent"
    BY <1>3, CurrentIn DEF pipeline_process_Parent
  <2>2. pc' = "cmd" /\ pipeline' = pipeline /\ n' = n + 1 /\ phase' = phase
    BY <1>3 DEF pipeline_process_Parent, list_next
  <2>3. \A k \in 1..Len(Cmds[pipeline]) : Forked(k)' <=> Forked(k)
    BY <2>1, <2>2, JobFacts DEF Forked
  <2>4. \A p \in Proc : p[1] = pipeline => p[2] \in 1..Len(Cmds[pipeline])
    BY JobFacts
  <2>5. n' \in 1..(Len(Cmds[pipeline]) + 1)
    BY <2>1, <2>2, JobFacts
  <2> QED  BY <2>1, <2>2, <2>3, <2>4, <2>5 DEF LaunchInv, AtWork
<1>4. CASE builtin_execute \/ pipeline_post_process \/ shell_ends
  BY <1>4 DEF builtin_execute, pipeline_post_process, shell_ends, Finish, LaunchInv, AtWork
<1>5. ASSUME NEW p \in Proc, execvp(p) \/ die(p) PROVE LaunchInv'
  <2>1. /\ UNCHANGED <<pc, pipeline, n>>
        /\ \A q \in Proc : phase'[q] = "none" <=> phase[q] = "none"
    BY <1>5 DEF execvp, die, main, TypeOK
  <2>2. \A q \in Proc : <<q[1], 1>> \in Proc
    BY JobFacts
  <2>3. \A k : Forked(k)' <=> Forked(k)
    BY <2>1 DEF Forked
  <2> QED  BY <2>1, <2>2, <2>3 DEF LaunchInv, AtWork
<1>6. CASE UNCHANGED vars
  BY <1>6 DEF vars, main, LaunchInv, AtWork, Forked
<1> QED
  BY <1>1, <1>2, <1>3, <1>4, <1>5, <1>6
  DEF Next, Main, Child, esh_sys_fatal_error, Idle

LEMMA InitType == Init => TypeOK /\ LaunchInv
<1>1. ASSUME Init PROVE TypeOK /\ LaunchInv
  <2>1. 0 \in Fd /\ 0 \in 0..(MaxCmds + 1)
    BY FdNat, JobFacts
  <2>2. TypeOK
    BY <1>1, <2>1, TableFacts DEF Init, TypeOK, Phase
  <2> QED  BY <1>1, <2>2 DEF Init, LaunchInv, AtWork
<1> QED  BY <1>1

\* Every variable keeps its type: what pipe, dup2 and close are given is a descriptor.
THEOREM TypeCorrect == Spec => []TypeOK
<1>1. TypeOK /\ LaunchInv /\ [Next]_vars => (TypeOK /\ LaunchInv)'
  BY TypeStep, LaunchStep
<1> QED  BY <1>1, InitType, PTL DEF Spec

-----------------------------------------------------------------------------
(***************************************************************************)
(* The steps of main, seen from the descriptors.                           *)
(***************************************************************************)

\* pipe was called and succeeded.
Piped == hasPipe(pipeline) /\ ~Last(Current) /\ Cardinality(Free(fd[Shell])) >= 2

LEMMA Forks ==
  ASSUME TypeOK, LaunchInv, Tidy(fd[Shell]), pipeline_process
  PROVE  /\ pc = "cmd" /\ pc' = "parent" /\ pipeline' = pipeline /\ n' = n
         /\ pipeline \in Job /\ n \in 1..Len(Cmds[pipeline]) /\ n \in Nat
         /\ Current \in Proc /\ Current[1] = pipeline /\ Current[2] = n /\ Current # Shell
         /\ phase[Current] = "none"
         /\ \A p \in Proc : phase'[p] = IF p = Current THEN "forked" ELSE phase[p]
         /\ fd'[Shell] = fd'[Current] /\ firstPipe'[Shell] = firstPipe'[Current]
         /\ secondPipe'[Shell] = secondPipe[Shell] /\ secondPipe'[Current] = secondPipe[Shell]
         /\ \A p \in Proc \ {Current} : /\ fd'[p] = fd[p] /\ firstPipe'[p] = firstPipe[p]
                                        /\ secondPipe'[p] = secondPipe[p]
         /\ Piped => /\ firstPipe'[Shell] = pipe_fds(fd[Shell])
                     /\ fd'[Shell] = pipe(fd[Shell], Current)
         /\ ~Piped => firstPipe'[Shell] = firstPipe[Shell] /\ fd'[Shell] = fd[Shell]
<1>1. /\ pipeline \in Job /\ n \in 1..Len(Cmds[pipeline]) /\ n \in Nat
      /\ Current \in Proc /\ Current[1] = pipeline /\ Current[2] = n /\ Current # Shell
      /\ Current \in Owner /\ Shell \in Owner
  BY CurrentIn, JobFacts DEF pipeline_process
<1>2. /\ pc = "cmd" /\ pc' = "parent" /\ pipeline' = pipeline /\ n' = n
      /\ phase' = [phase EXCEPT ![Current] = "forked"]
      /\ secondPipe' = [secondPipe EXCEPT ![Current] = secondPipe[Shell]]
  BY DEF pipeline_process
<1>3. phase[Current] = "none"
  BY <1>1, <1>2 DEF LaunchInv, AtWork, Forked
<1>4. \A p \in Proc : phase'[p] = IF p = Current THEN "forked" ELSE phase[p]
  BY <1>1, <1>2 DEF TypeOK
<1> DEFINE table == IF Piped THEN pipe(fd[Shell], Current) ELSE fd[Shell]
           first == IF Piped THEN pipe_fds(fd[Shell]) ELSE firstPipe[Shell]
<1>5. /\ fd' = [fd EXCEPT ![Shell] = table, ![Current] = table]
      /\ firstPipe' = [firstPipe EXCEPT ![Shell] = first, ![Current] = first]
  BY DEF pipeline_process, Piped
<1>6. /\ Piped => first = pipe_fds(fd[Shell]) /\ table = pipe(fd[Shell], Current)
      /\ ~Piped => first = firstPipe[Shell] /\ table = fd[Shell]
  OBVIOUS
<1> HIDE DEF table, first
<1>7. /\ fd'[Shell] = table /\ fd'[Current] = table
      /\ firstPipe'[Shell] = first /\ firstPipe'[Current] = first
      /\ secondPipe'[Shell] = secondPipe[Shell] /\ secondPipe'[Current] = secondPipe[Shell]
      /\ \A p \in Proc \ {Current} : /\ fd'[p] = fd[p] /\ firstPipe'[p] = firstPipe[p]
                                     /\ secondPipe'[p] = secondPipe[p]
  BY <1>1, <1>2, <1>5, JobFacts DEF TypeOK
<1> QED  BY <1>1, <1>2, <1>3, <1>4, <1>6, <1>7

\* What the parent closes: whole slots.
ClosedSlots == (IF First(Current) THEN {} ELSE {secondPipe[Shell]})
                 \cup (IF Last(Current) THEN {secondPipe[Shell], firstPipe[Shell]} ELSE {})

LEMMA Parent ==
  ASSUME TypeOK, LaunchInv, pipeline_process_Parent, ShellInv
  PROVE  /\ pc = "parent" /\ pc' = "cmd" /\ pipeline' = pipeline /\ n' = n + 1
         /\ pipeline \in Job /\ n \in 1..Len(Cmds[pipeline]) /\ n \in Nat
         /\ Len(Cmds[pipeline]) \in Nat
         /\ Current \in Proc /\ Current[1] = pipeline /\ Current[2] = n
         /\ firstPipe' = firstPipe /\ phase' = phase
         /\ \A p \in Proc : fd'[p] = fd[p] /\ secondPipe'[p] = secondPipe[p]
         /\ hasPipe(pipeline) =>
              /\ fd'[Shell] = close(fd[Shell], Both(ClosedSlots))
              /\ ClosedSlots \in SUBSET Slot
              /\ secondPipe'[Shell] = firstPipe[Shell]
         /\ ~hasPipe(pipeline) => fd'[Shell] = fd[Shell] /\ n = Len(Cmds[pipeline])
<1>1. /\ pipeline \in Job /\ n \in 1..Len(Cmds[pipeline]) /\ n \in Nat /\ pc = "parent"
      /\ Current \in Proc /\ Current[1] = pipeline /\ Current[2] = n
      /\ Len(Cmds[pipeline]) \in Nat
  BY CurrentIn, JobFacts DEF pipeline_process_Parent
<1>2. /\ pc = "parent" /\ pc' = "cmd" /\ pipeline' = pipeline /\ n' = n + 1
      /\ firstPipe' = firstPipe /\ phase' = phase
  BY DEF pipeline_process_Parent, list_next
<1>3. CASE hasPipe(pipeline)
  <2> DEFINE c == close(fd[Shell], parent_closes)
             s == IF Last(Current) THEN secondPipe[Shell] ELSE firstPipe[Shell]
  <2>1. fd' = [fd EXCEPT ![Shell] = c] /\ secondPipe' = [secondPipe EXCEPT ![Shell] = s]
    BY <1>3 DEF pipeline_process_Parent
  <2>2. /\ firstPipe[Shell] \in Slot
        /\ n > 1 => /\ secondPipe[Shell] \in Slot
                    /\ Last(Current) => secondPipe[Shell] = firstPipe[Shell]
    BY <1>1, <1>3 DEF ShellInv, Piping, AtWork, Last
  <2>3. Last(Current) => ~First(Current)
    BY <1>1, <1>3, AtCurrent
  <2>4. ~First(Current) <=> n > 1
    BY <1>1 DEF First
  <2>5. ClosedSlots \in SUBSET Slot
    BY <2>2, <2>3, <2>4 DEF ClosedSlots
  <2>6. s = firstPipe[Shell]
    BY <2>2, <2>3, <2>4
  <2>7. parent_closes = Both(ClosedSlots)
    <3>1. CASE First(Current)
      <4>1. ClosedSlots = {} /\ parent_closes = {}
        BY <2>3, <3>1 DEF ClosedSlots, parent_closes
      <4> QED  BY <4>1 DEF Both
    <3>2. CASE ~First(Current) /\ ~Last(Current)
      <4>1. ClosedSlots = {secondPipe[Shell]} /\ parent_closes = Ends(secondPipe[Shell])
        BY <3>2 DEF ClosedSlots, parent_closes
      <4> QED  BY <4>1 DEF Both, Ends
    <3>3. CASE ~First(Current) /\ Last(Current)
      <4>1. /\ ClosedSlots = {secondPipe[Shell], firstPipe[Shell]}
            /\ parent_closes = Ends(secondPipe[Shell]) \cup Ends(firstPipe[Shell])
        BY <3>3 DEF ClosedSlots, parent_closes
      <4> QED  BY <4>1 DEF Both, Ends
    <3> QED  BY <3>1, <3>2, <3>3
  <2> HIDE DEF c, s
  <2>8. fd'[Shell] = c /\ secondPipe'[Shell] = s
        /\ \A p \in Proc : fd'[p] = fd[p] /\ secondPipe'[p] = secondPipe[p]
    BY <2>1, JobFacts DEF TypeOK
  <2> QED  BY <1>1, <1>2, <1>3, <2>5, <2>6, <2>7, <2>8 DEF c
<1>4. CASE ~hasPipe(pipeline)
  <2>1. fd' = fd /\ secondPipe' = secondPipe
    BY <1>4 DEF pipeline_process_Parent
  <2>2. n = Len(Cmds[pipeline])
    BY <1>1, <1>4 DEF hasPipe
  <2> QED  BY <1>1, <1>2, <1>4, <2>1, <2>2
<1> QED  BY <1>3, <1>4

\* The children's steps, seen from the shell.
LEMMA ChildSteps ==
  ASSUME TypeOK, NEW p \in Proc, execvp(p) \/ die(p)
  PROVE  /\ UNCHANGED <<pc, pipeline, n, firstPipe, secondPipe>>
         /\ fd'[Shell] = fd[Shell]
         /\ \A q \in Proc : phase'[q] = "none" <=> phase[q] = "none"
         /\ \A q \in Proc \ {p} : phase'[q] = phase[q] /\ fd'[q] = fd[q]
         /\ execvp(p) => phase[p] = "forked" /\ phase'[p] = "execed"
         /\ die(p) => phase'[p] = "gone" /\ phase[p] \in {"forked", "execed"} /\ fd'[p] = NoTable
BY JobFacts DEF execvp, die, main, copies, TypeOK

-----------------------------------------------------------------------------
(***************************************************************************)
(* The shell's descriptors.                                                *)
(***************************************************************************)

\* The first pipe of a pipeline that nobody has leaked descriptors before succeeds.
LEMMA FirstPipe ==
  ASSUME OpenMax >= 6
  PROVE  Cardinality(Free(ShellTable)) >= 2
<1>1. 4 \in Free(ShellTable) /\ 5 \in Free(ShellTable) /\ 4 # 5
  BY DescriptorAssumption, EndsDiffer DEF Free, ShellTable, Fd
<1> QED  BY <1>1, TwoFree

LEMMA HoldsOne ==
  ASSUME NEW t, NEW s, NEW q, NEW o, Holds(t, s, q), Holds(t, s, o)
  PROVE  q = o
BY EndsDiffer DEF Holds

LEMMA HoldsSame ==
  ASSUME NEW t, NEW u, NEW s, t[s[1]] = u[s[1]], t[s[2]] = u[s[2]]
  PROVE  (\A q : Holds(t, s, q) <=> Holds(u, s, q)) /\ (IsClosed(t, s) <=> IsClosed(u, s))
BY DEF Holds, IsClosed

LEMMA ClosedHoldsNone ==
  ASSUME NEW t, NEW s, IsClosed(t, s), NEW q
  PROVE  ~Holds(t, s, q)
BY EndsDiffer DEF Holds, IsClosed

LEMMA InitBase == OpenMax >= 6 /\ Init => BaseInv
<1>1. ASSUME OpenMax >= 6, Init PROVE BaseInv
  <2>1. fd[Shell] = ShellTable /\ firstPipe[Shell] = <<0, 0>> /\ pc = "loop"
    BY <1>1, JobFacts DEF Init
  <2>2. \A s \in Slot : IsClosed(ShellTable, s)
    BY SlotFacts DEF ShellTable, IsClosed
  <2>3. Tidy(ShellTable)
    BY <2>2, FdNat DEF Tidy, ShellTable
  <2>4. \A s \in Slot, q \in Pipe : ~Holds(ShellTable, s, q)
    BY <2>2, ClosedHoldsNone
  <2>5. ShellInv /\ UniqueInv
    BY <2>1, <2>3, <2>4 DEF ShellInv, UniqueInv, Piping, AtWork
  <2> QED  BY <1>1, <2>5, InitType DEF BaseInv
<1> QED  BY <1>1

LEMMA ForkKeepsBase ==
  ASSUME OpenMax >= 6, BaseInv, pipeline_process
  PROVE  ShellInv' /\ UniqueInv'
<1> USE DEF BaseInv
<1> DEFINE t == fd[Shell]
           u == fd'[Shell]
           x == firstPipe'[Shell]
<1>1. t \in Table /\ Tidy(t) /\ pc = "cmd"
  BY JobFacts DEF pipeline_process, TypeOK, ShellInv
<1>2. /\ pc' = "parent" /\ pipeline' = pipeline /\ n' = n
      /\ pipeline \in Job /\ n \in 1..Len(Cmds[pipeline]) /\ n \in Nat
      /\ Current \in Pipe /\ Current[1] = pipeline /\ Current[2] = n
      /\ phase[Current] = "none" /\ phase'[Current] # "none"
      /\ \A q \in Pipe \ {Current} : phase'[q] = phase[q]
      /\ secondPipe'[Shell] = secondPipe[Shell]
  BY <1>1, Forks, JobFacts
<1>3. Current' = Current /\ AtWork /\ AtWork' /\ Len(Cmds[pipeline]) \in Nat
  BY <1>1, <1>2, JobFacts DEF Current, AtWork
<1>4. CASE Piped
  <2>1. x = pipe_fds(t) /\ u = pipe(t, Current) /\ n < Len(Cmds[pipeline])
    BY <1>1, <1>2, <1>3, <1>4, Forks DEF Piped, Last
  <2>2. /\ Tidy(u) /\ x \in Slot /\ IsClosed(t, x) /\ Holds(u, x, Current)
        /\ \A r \in Slot \ {x} : u[r[1]] = t[r[1]] /\ u[r[2]] = t[r[2]]
    BY <1>1, <1>2, <1>4, <2>1, PipeTidy DEF Piped
  <2> HIDE DEF t, u, x
  <2>3. \A r \in Slot, q \in Pipe : Holds(u, r, q) =>
          \/ r = x /\ q = Current
          \/ r # x /\ Holds(t, r, q)
    BY <1>2, <2>2, HoldsOne, HoldsSame
  <2>4. \A r \in Slot : ~Holds(t, r, Current)
    BY <1>2 DEF UniqueInv, t
  <2>5. UniqueInv'
    BY <1>2, <2>2, <2>3, <2>4 DEF UniqueInv, t, u
  <2>6. \A r \in Slot, q \in Pipe : Holds(u, r, q) =>
         \/ Leaky(q) /\ q[1] # pipeline
         \/ n <= Len(Cmds[pipeline]) /\ q = <<pipeline, n - 1>> /\ r = secondPipe[Shell]
         \/ n < Len(Cmds[pipeline]) /\ q = Current /\ r = x
    BY <1>1, <1>3, <2>1, <2>3 DEF ShellInv, t
  <2>7. Piping /\ n > 1 => secondPipe[Shell] \in Slot
    BY <1>1 DEF ShellInv
  <2>8. Piping' <=> Piping
    BY <1>2, <1>3 DEF Piping
  <2> QED  BY <1>2, <1>3, <2>1, <2>2, <2>5, <2>6, <2>7, <2>8 DEF ShellInv, u, x
<1>5. CASE ~Piped
  <2>1. x = firstPipe[Shell] /\ u = t
    BY <1>1, <1>5, Forks
  <2>2. Piping' <=> Piping
    BY <1>2, <1>3 DEF Piping
  <2>3. Piping => firstPipe[Shell] \in Slot
    <3>1. CASE n > 1
      BY <1>1, <3>1 DEF ShellInv
    <3>2. CASE n = 1 /\ Piping
      <4>1. Cardinality(Free(t)) < 2
        <5>1. ~Last(Current) /\ hasPipe(pipeline)
          BY <1>2, <1>3, <3>2, AtCurrent DEF Piping
        <5> QED  BY <1>5, <5>1, FreeFinite DEF Piped
      <4>2. t # ShellTable
        BY <4>1, FirstPipe, FreeFinite
      <4> QED  BY <1>1, <4>2 DEF ShellInv
    <3> QED  BY <1>2, <3>1, <3>2
  <2>4. UniqueInv'
    BY <1>2, <2>1 DEF UniqueInv
  <2>5. n = Len(Cmds[pipeline]) /\ Piping /\ n > 1 => secondPipe[Shell] = firstPipe[Shell]
    BY <1>1 DEF ShellInv
  <2> QED  BY <1>1, <1>2, <1>3, <2>1, <2>2, <2>3, <2>4, <2>5 DEF ShellInv
<1> QED  BY <1>4, <1>5

LEMMA ParentKeepsBase ==
  ASSUME BaseInv, pipeline_process_Parent
  PROVE  ShellInv' /\ UniqueInv'
<1> USE DEF BaseInv
<1> DEFINE t == fd[Shell]
           u == fd'[Shell]
<1>1. /\ pc = "parent" /\ pc' = "cmd" /\ pipeline' = pipeline /\ n' = n + 1
      /\ pipeline \in Job /\ n \in 1..Len(Cmds[pipeline]) /\ n \in Nat
      /\ Len(Cmds[pipeline]) \in Nat
      /\ firstPipe' = firstPipe /\ phase' = phase /\ AtWork /\ AtWork'
  BY Parent DEF AtWork
<1>2. t \in Table /\ Tidy(t)
  BY <1>1, JobFacts DEF TypeOK, ShellInv
<1>3. CASE hasPipe(pipeline)
  <2>1. /\ u = close(t, Both(ClosedSlots)) /\ ClosedSlots \in SUBSET Slot
        /\ secondPipe'[Shell] = firstPipe[Shell]
    BY <1>3, Parent
  <2>2. /\ Tidy(u) /\ \A r \in ClosedSlots : IsClosed(u, r)
        /\ \A r \in Slot \ ClosedSlots : u[r[1]] = t[r[1]] /\ u[r[2]] = t[r[2]]
    BY <1>2, <2>1, CloseTidy
  <2> HIDE DEF t, u
  <2>3. \A r \in Slot, q \in Pipe : Holds(u, r, q) => r \notin ClosedSlots /\ Holds(t, r, q)
    BY <2>2, ClosedHoldsNone, HoldsSame
  <2>4. n > 1 => secondPipe[Shell] \in ClosedSlots
    BY DEF ClosedSlots, First, Current
  <2>5. \A q \in Pipe : q[2] # 0
    BY JobFacts
  <2>6. \A r \in Slot, q \in Pipe : Holds(u, r, q) =>
          \/ Leaky(q) /\ q[1] # pipeline
          \/ n < Len(Cmds[pipeline]) /\ q = Current /\ r = firstPipe[Shell]
    BY <1>1, <2>3, <2>4, <2>5 DEF ShellInv, t
  <2>7. Current = <<pipeline', n' - 1>>
    BY <1>1 DEF Current
  <2>8. firstPipe[Shell] \in Slot
    BY <1>1, <1>3 DEF ShellInv, Piping
  <2>9. UniqueInv'
    BY <1>1, <2>3 DEF UniqueInv, t, u
  <2> QED  BY <1>1, <2>1, <2>2, <2>6, <2>7, <2>8, <2>9 DEF ShellInv, u
<1>4. CASE ~hasPipe(pipeline)
  <2>1. u = t /\ n = Len(Cmds[pipeline])
    BY <1>4, Parent
  <2>2. UniqueInv'
    BY <1>1, <2>1 DEF UniqueInv
  <2>3. ~Piping'
    BY <1>1, <1>4 DEF Piping, hasPipe
  <2>4. \A q \in Pipe : q[2] # 0
    BY JobFacts
  <2>5. n = 1
    BY <1>1, <1>4, <2>1, AtCurrent
  <2>6. \A r \in Slot, q \in Pipe : Holds(t, r, q) => Leaky(q) /\ q[1] # pipeline
    BY <1>1, <2>1, <2>4, <2>5 DEF ShellInv
  <2> QED  BY <1>1, <1>2, <2>1, <2>2, <2>3, <2>6 DEF ShellInv
<1> QED  BY <1>3, <1>4

LEMMA BaseStep ==
  ASSUME OpenMax >= 6, BaseInv, [Next]_vars
  PROVE  BaseInv'
<1> USE DEF BaseInv
<1>1. TypeOK' /\ LaunchInv'
  BY TypeStep, LaunchStep
<1>2. ASSUME NEW j \in Job, pipeline_pre_process(j) PROVE ShellInv' /\ UniqueInv'
  <2>1. /\ pc = "loop" /\ pc' = "cmd" /\ pipeline' = j /\ n' = 1
        /\ UNCHANGED <<fd, firstPipe, secondPipe, phase>> /\ phase[<<j, 1>>] = "none"
    BY <1>2 DEF pipeline_pre_process, copies
  <2>2. \A s \in Slot, q \in Pipe : Holds(fd[Shell], s, q) => Leaky(q) /\ q[1] # j
    BY <2>1, JobFacts DEF ShellInv, UniqueInv, LaunchInv, AtWork
  <2> QED  BY <2>1, <2>2 DEF ShellInv, UniqueInv, AtWork, Piping
<1>3. CASE pipeline_process
  BY <1>1, <1>3, ForkKeepsBase
<1>4. CASE pipeline_process_Parent
  BY <1>1, <1>4, ParentKeepsBase
<1>5. CASE builtin_execute
  <2>1. /\ pc = "cmd" /\ pc' = "loop" /\ n <= Len(Cmds[pipeline]) /\ n \in Nat
        /\ UNCHANGED <<fd, firstPipe, secondPipe, phase>> /\ Cmds[pipeline][n] = "builtin"
        /\ pipeline \in Job /\ Len(Cmds[pipeline]) \in Nat
    BY <1>5, JobFacts DEF builtin_execute, copies, Finish, LaunchInv, AtWork
  <2>2. <<pipeline, n - 1>> \in Pipe => Leaky(<<pipeline, n - 1>>)
    BY <2>1 DEF Leaky, Last
  <2>3. \A s \in Slot, q \in Pipe : Holds(fd[Shell], s, q) => Leaky(q)
    BY <2>1, <2>2 DEF ShellInv
  <2> QED  BY <1>1, <2>1, <2>3 DEF ShellInv, UniqueInv, AtWork, Piping
<1>6. CASE pipeline_post_process
  <2>1. /\ pc = "cmd" /\ pc' = "loop" /\ n > Len(Cmds[pipeline])
        /\ UNCHANGED <<fd, firstPipe, secondPipe, phase>>
        /\ pipeline \in Job /\ Len(Cmds[pipeline]) \in Nat /\ n \in Nat
    BY <1>6, JobFacts DEF pipeline_post_process, copies, Finish, LaunchInv, AtWork
  <2>2. \A s \in Slot, q \in Pipe : Holds(fd[Shell], s, q) => Leaky(q)
    BY <2>1 DEF ShellInv
  <2> QED  BY <1>1, <2>1, <2>2 DEF ShellInv, UniqueInv, AtWork, Piping
<1>7. CASE shell_ends
  <2>1. pc' = "ended" /\ fd'[Shell] = NoTable
    BY <1>7, JobFacts DEF shell_ends, TypeOK
  <2>2. \A s \in Slot : IsClosed(NoTable, s)
    BY SlotFacts DEF NoTable, IsClosed
  <2> QED  BY <1>1, <2>1, <2>2, ClosedHoldsNone DEF ShellInv, UniqueInv
<1>8. ASSUME NEW p \in Proc, execvp(p) \/ die(p) PROVE ShellInv' /\ UniqueInv'
  <2>1. /\ UNCHANGED <<pc, pipeline, n, firstPipe, secondPipe>> /\ fd'[Shell] = fd[Shell]
        /\ \A q \in Pipe : phase'[q] = "none" <=> phase[q] = "none"
    BY <1>8, ChildSteps, JobFacts
  <2>2. ShellInv'
    BY <2>1 DEF ShellInv, AtWork, Piping, Current
  <2>3. UniqueInv'
    BY <2>1 DEF UniqueInv
  <2> QED  BY <2>2, <2>3
<1>9. CASE UNCHANGED vars
  BY <1>1, <1>9 DEF vars, main, copies, ShellInv, UniqueInv, AtWork, Piping, Current
<1> QED
  BY <1>1, <1>2, <1>3, <1>4, <1>5, <1>6, <1>7, <1>8, <1>9
  DEF Next, Main, Child, esh_sys_fatal_error, Idle

\* Between two pipelines the shell has the descriptors it began with, and those of
\* pipes in front of built-ins.
LEMMA BaseKeeps == BaseInv => ShellKeeps
<1>1. ASSUME BaseInv, pc = "loop", NEW d \in Fd, d \notin 0..3
      PROVE  fd[Shell][d] \in {Closed} \cup UNION {{ReadEnd(q), WriteEnd(q)} : q \in
                           {q \in Pipe : ~Last(q) /\ Cmds[q[1]][q[2] + 1] = "builtin"}}
  <2>1. Tidy(fd[Shell])
    BY <1>1 DEF BaseInv, ShellInv
  <2>2. d > 3
    BY <1>1, FdNat
  <2>3. CASE fd[Shell][d] = Closed  BY <2>3
  <2>4. CASE fd[Shell][d] # Closed
    <3>1. PICK s \in Slot : d \in {s[1], s[2]}
      BY <2>1, <2>2, <2>4 DEF Tidy
    <3>2. PICK q \in Pipe : Holds(fd[Shell], s, q)
      BY <2>1, <2>4, <3>1 DEF Tidy, IsClosed
    <3>3. Leaky(q)
      BY <1>1, <3>2 DEF BaseInv, ShellInv, AtWork
    <3> QED  BY <3>1, <3>2, <3>3 DEF Holds, Leaky
  <2> QED  BY <2>3, <2>4
<1>2. ASSUME BaseInv, pc = "loop", NEW d \in 0..3 PROVE fd[Shell][d] = Terminal
  BY <1>2 DEF BaseInv, ShellInv, Tidy
<1> QED  BY <1>1, <1>2 DEF ShellKeeps

\* Between two pipelines the shell has its own descriptors and no end of a pipe but those of
\* abandoned launches, also where pipe fails. With fewer than six descriptors no pipe ever
\* succeeds, and the parent closes descriptor 0 in place of it.
THEOREM ShellKeepsItsOwn ==
  ASSUME OpenMax >= 6
  PROVE  Spec => []ShellKeeps
<1>1. Init => BaseInv
  BY InitBase
<1>2. BaseInv /\ [Next]_vars => BaseInv'
  BY BaseStep
<1> QED  BY <1>1, <1>2, BaseKeeps, PTL DEF Spec

-----------------------------------------------------------------------------
(***************************************************************************)
(* What a child makes of its table before it executes its program.         *)
(***************************************************************************)

\* What is open in the table of a forked child.
LEMMA ForkedHolds ==
  ASSUME TypeOK, ForkedInv, NEW p \in Proc, phase[p] = "forked",
         NEW d \in Fd, NEW q \in Pipe, fd[p][d] \in {ReadEnd(q), WriteEnd(q)}
  PROVE  \E s \in Slot : /\ d \in {s[1], s[2]} /\ Holds(fd[p], s, q)
                         /\ \/ Leaky(q) /\ q[1] # p[1]
                            \/ q = p /\ s = firstPipe[p]
                            \/ q = Before(p) /\ s = secondPipe[p]
<1>1. Tidy(fd[p])
  BY DEF ForkedInv
<1>2. d > 3 /\ fd[p][d] # Closed
  BY <1>1, FdNat, EndsDiffer DEF Tidy
<1>3. PICK s \in Slot : d \in {s[1], s[2]}
  BY <1>1, <1>2 DEF Tidy
<1>4. PICK o \in Pipe : Holds(fd[p], s, o)
  BY <1>1, <1>2, <1>3 DEF Tidy, IsClosed
<1>5. o = q
  BY <1>3, <1>4, EndsDiffer DEF Holds
<1> QED  BY <1>3, <1>4, <1>5 DEF ForkedInv

LEMMA Redirected ==
  ASSUME TypeOK, NEW p \in Proc, Tidy(fd[p]), can_execute(p)
  PROVE  /\ io_redirection(p) \in Table
         /\ io_redirection(p)[0] = IF First(p) /\ "<" \in Redirs[p[1]] THEN File ELSE Terminal
         /\ io_redirection(p)[1] = IF Last(p) /\ ">" \in Redirs[p[1]] THEN File ELSE Terminal
         /\ \A d \in Fd \ {0, 1} : io_redirection(p)[d] = fd[p][d]
<1> DEFINE t == fd[p]
           t0 == IF "<" \in iored(p) THEN onto(t, 0) ELSE t
           t1 == IF ">" \in iored(p) THEN onto(t0, 1) ELSE t0
<1>1. t \in Table /\ 0 \in Fd /\ 1 \in Fd /\ t[0] = Terminal /\ t[1] = Terminal
  BY JobFacts, FdNat DEF TypeOK, Tidy
<1>2. /\ "<" \in iored(p) <=> First(p) /\ "<" \in Redirs[p[1]]
      /\ ">" \in iored(p) <=> Last(p) /\ ">" \in Redirs[p[1]]
  BY DEF iored
<1>3. iored(p) # {} => Free(t) # {}
  BY DEF can_execute
<1>4. /\ t0 \in Table /\ (iored(p) # {} => Free(t0) # {})
      /\ t0[0] = (IF "<" \in iored(p) THEN File ELSE Terminal)
      /\ \A d \in Fd \ {0} : t0[d] = t[d]
  <2>1. CASE "<" \in iored(p)
    <3>1. t0 = onto(t, 0)
      BY <2>1
    <3>2. onto(t, 0) = [t EXCEPT ![0] = File]
      BY <1>1, <1>3, <2>1, OntoReplaces, EndsDiffer
    <3>3. onto(t, 0) \in Table /\ Free(onto(t, 0)) # {}
      BY <1>1, <1>3, <2>1, OntoReplaces
    <3> QED  BY <1>1, <2>1, <3>1, <3>2, <3>3 DEF Table
  <2>2. CASE "<" \notin iored(p)
    BY <1>1, <1>3, <2>2
  <2> QED  BY <2>1, <2>2
<1> HIDE DEF t, t0
<1>5. /\ t1 \in Table
      /\ t1[1] = (IF ">" \in iored(p) THEN File ELSE Terminal)
      /\ \A d \in Fd \ {1} : t1[d] = t0[d]
  <2>1. CASE ">" \in iored(p)
    <3>1. t1 = onto(t0, 1)
      BY <2>1
    <3>2. t0[1] # Closed /\ Free(t0) # {}
      BY <1>1, <1>4, <2>1, EndsDiffer
    <3>3. onto(t0, 1) = [t0 EXCEPT ![1] = File] /\ onto(t0, 1) \in Table
      BY <1>1, <1>4, <3>2, OntoReplaces
    <3> QED  BY <1>1, <1>4, <2>1, <3>1, <3>3 DEF Table
  <2>2. CASE ">" \notin iored(p)
    BY <1>1, <1>4, <2>2
  <2> QED  BY <2>1, <2>2
<1>6. io_redirection(p) = t1
  BY DEF io_redirection, t, t0
<1> HIDE DEF t1
<1> QED  BY <1>1, <1>2, <1>4, <1>5, <1>6 DEF t

LEMMA SecondRead ==
  ASSUME TypeOK, NEW p \in Proc, NEW t \in Table, ~First(p)
  PROVE  /\ read_second(p, t) \in Table
         /\ \A d \in Fd : read_second(p, t)[d] =
              IF d \in Ends(secondPipe[p]) THEN Closed
              ELSE IF d = 0 THEN t[secondPipe[p][1]] ELSE t[d]
<1>1. secondPipe[p][1] \in Fd /\ 0 \in Fd
  BY JobFacts, FdNat DEF TypeOK
<1>2. dup2(t, secondPipe[p][1], 0) \in Table
  BY <1>1, TableFacts
<1>3. \A d \in Fd : dup2(t, secondPipe[p][1], 0)[d] = IF d = 0 THEN t[secondPipe[p][1]] ELSE t[d]
  BY <1>1 DEF dup2, Table
<1>4. read_second(p, t) = close(dup2(t, secondPipe[p][1], 0), Ends(secondPipe[p]))
  BY DEF read_second
<1>5. read_second(p, t) \in Table
  BY <1>2, <1>4, TableFacts
<1> DEFINE u == dup2(t, secondPipe[p][1], 0)
<1> HIDE DEF u
<1>6. \A d \in Fd : close(u, Ends(secondPipe[p]))[d] = IF d \in Ends(secondPipe[p]) THEN Closed ELSE u[d]
  BY DEF close
<1> QED  BY <1>3, <1>4, <1>5, <1>6 DEF u

LEMMA FirstWritten ==
  ASSUME TypeOK, NEW p \in Proc, NEW t \in Table, ~Last(p)
  PROVE  /\ write_first(p, t) \in Table
         /\ \A d \in Fd : write_first(p, t)[d] =
              IF d \in Ends(firstPipe[p]) THEN Closed
              ELSE IF d = 1 THEN t[firstPipe[p][2]] ELSE t[d]
<1>1. firstPipe[p][2] \in Fd /\ 1 \in Fd
  BY JobFacts, FdNat DEF TypeOK
<1>2. dup2(t, firstPipe[p][2], 1) \in Table
  BY <1>1, TableFacts
<1>3. \A d \in Fd : dup2(t, firstPipe[p][2], 1)[d] = IF d = 1 THEN t[firstPipe[p][2]] ELSE t[d]
  BY <1>1 DEF dup2, Table
<1>4. write_first(p, t) = close(dup2(t, firstPipe[p][2], 1), Ends(firstPipe[p]))
  BY DEF write_first
<1>5. write_first(p, t) \in Table
  BY <1>2, <1>4, TableFacts
<1> DEFINE u == dup2(t, firstPipe[p][2], 1)
<1> HIDE DEF u
<1>6. \A d \in Fd : close(u, Ends(firstPipe[p]))[d] = IF d \in Ends(firstPipe[p]) THEN Closed ELSE u[d]
  BY DEF close
<1> QED  BY <1>3, <1>4, <1>5, <1>6 DEF u

LEMMA Neighbours ==
  ASSUME NEW p \in Proc
  PROVE  /\ p[2] \in Nat /\ Before(p)[1] = p[1] /\ Before(p)[2] = p[2] - 1 /\ Before(p) # p
         /\ First(p) => Before(p) \notin Pipe
         /\ ~hasPipe(p[1]) => First(p) /\ Last(p)
         /\ ~First(p) \/ ~Last(p) => hasPipe(p[1])
<1>1. /\ p[2] \in Nat /\ p[2] \in 1..Len(Cmds[p[1]]) /\ Len(Cmds[p[1]]) \in Nat
      /\ \A q \in Pipe : q[2] # 0
  BY JobFacts
<1>2. Before(p)[1] = p[1] /\ Before(p)[2] = p[2] - 1 /\ Before(p)[2] # p[2]
  BY <1>1 DEF Before
<1> DEFINE len == Len(Cmds[p[1]])
<1>3. hasPipe(p[1]) <=> len >= 2
  BY DEF hasPipe
<1>4. (First(p) <=> p[2] = 1) /\ (Last(p) <=> p[2] = len)
  BY DEF First, Last
<1>5. len \in Nat /\ 1 <= p[2] /\ p[2] <= len
  BY <1>1
<1> HIDE DEF len
<1>6. ~(len >= 2) => p[2] = 1 /\ p[2] = len
  BY <1>1, <1>5
<1> QED  BY <1>1, <1>2, <1>3, <1>4, <1>6

\* The child is not one whose pipe has failed, and its program gets the descriptors
\* that the line says.
LEMMA ExecTable ==
  ASSUME TypeOK, ForkedInv, EndsInv, NEW p \in Proc, execvp(p)
  PROVE  /\ fd'[p][0] = StdIn(p) /\ fd'[p][1] = StdOut(p) /\ fd'[p][2] = Terminal
         /\ \A d \in Fd \ {0, 1} : fd'[p][d] \in {fd[p][d], Closed}
         /\ \A d \in Fd \ {0, 1} : fd'[p][d] \notin PipesOf(p[1])
         /\ ~First(p) => fd[p][secondPipe[p][1]] = ReadEnd(Before(p))
         /\ ~Last(p)  => fd[p][firstPipe[p][2]] = WriteEnd(p)
<1> DEFINE s == secondPipe[p]
           f == firstPipe[p]
           io == io_redirection(p)
           r == read_second(p, io)
<1>1. /\ phase[p] = "forked" /\ can_execute(p) /\ p \in Owner /\ p \in Pipe
      /\ fd'[p] = IF hasPipe(p[1]) THEN write_first(p, r) ELSE io
  BY JobFacts DEF execvp, TypeOK
<1>2. /\ fd[p] \in Table /\ Tidy(fd[p]) /\ 0 \in Fd /\ 1 \in Fd /\ 2 \in Fd
      /\ ~First(p) => s \in Slot
      /\ ~Last(p) => f \in Slot
  BY <1>1, FdNat DEF TypeOK, ForkedInv
<1>3. /\ io \in Table
      /\ io[0] = IF First(p) /\ "<" \in Redirs[p[1]] THEN File ELSE Terminal
      /\ io[1] = IF Last(p) /\ ">" \in Redirs[p[1]] THEN File ELSE Terminal
      /\ \A d \in Fd \ {0, 1} : io[d] = fd[p][d]
  BY <1>1, <1>2, Redirected
<1>4. /\ ~First(p) => /\ s[1] \in Fd /\ s[2] \in Fd /\ s[1] > 3 /\ s[2] > 3
      /\ ~Last(p)  => /\ f[1] \in Fd /\ f[2] \in Fd /\ f[1] > 3 /\ f[2] > 3
  BY <1>2, SlotFacts
<1> HIDE DEF s, f, io
<1>5. /\ r \in Table
      /\ First(p) => r = io
      /\ ~First(p) => \A d \in Fd : r[d] = IF d \in Ends(s) THEN Closed
                                           ELSE IF d = 0 THEN io[s[1]] ELSE io[d]
  <2>1. CASE First(p)
    BY <1>3, <2>1 DEF read_second
  <2>2. CASE ~First(p)
    BY <1>3, <2>2, SecondRead DEF s
  <2> QED  BY <2>1, <2>2
<1>6. ~Stuck(p)
  <2>1. ASSUME ~First(p) PROVE fd[p][s[1]] # Closed
    BY <1>1, <2>1, Neighbours DEF can_execute, s
  <2>2. ASSUME ~First(p), ~Last(p) PROVE f # s
    <3>1. read_second(p, fd[p])[f[2]] # Closed
      BY <1>1, <2>2, Neighbours DEF can_execute, f
    <3>2. f[2] \notin Ends(s)
      BY <1>2, <1>4, <2>2, <3>1, SecondRead DEF s
    <3> QED  BY <3>2 DEF Ends
  <2> QED  BY <2>1, <2>2 DEF Stuck, s, f
<1>7. /\ ~First(p) => Holds(fd[p], s, Before(p))
      /\ ~Last(p)  => Holds(fd[p], f, p)
  BY <1>1, <1>6 DEF ForkedInv, s, f
<1>8. ~First(p) /\ ~Last(p) => f[1] \notin Ends(s) /\ f[2] \notin Ends(s)
  <2>1. ~First(p) /\ ~Last(p) => f # s
    BY <1>7, HoldsOne, Neighbours
  <2> QED  BY <1>2, <2>1, SlotsApart DEF Ends
<1> DEFINE w == fd'[p]
<1>9. /\ w \in Table
      /\ Last(p) => w = r
      /\ ~Last(p) => \A d \in Fd : w[d] = IF d \in Ends(f) THEN Closed
                                          ELSE IF d = 1 THEN r[f[2]] ELSE r[d]
  <2>1. CASE Last(p)
    <3>1. ~hasPipe(p[1]) => r = io
      BY <1>5, Neighbours
    <3> QED  BY <1>1, <1>5, <2>1, <3>1 DEF write_first
  <2>2. CASE ~Last(p)
    <3>1. w = write_first(p, r)
      BY <1>1, <2>2, Neighbours
    <3> QED  BY <1>5, <2>2, <3>1, FirstWritten DEF f
  <2> QED  BY <2>1, <2>2
<1> HIDE DEF r, w
<1>10. w[0] = StdIn(p)
  <2>1. r[0] = StdIn(p)
    <3>1. CASE First(p)
      BY <1>3, <1>5, <3>1 DEF StdIn
    <3>2. CASE ~First(p)
      <4>1. r[0] = io[s[1]] /\ io[s[1]] = fd[p][s[1]]
        BY <1>2, <1>3, <1>4, <1>5, <3>2 DEF Ends
      <4> QED  BY <1>7, <3>2, <4>1 DEF StdIn, Before, Holds
    <3> QED  BY <3>1, <3>2
  <2> QED  BY <1>2, <1>4, <1>9, <2>1 DEF Ends
<1>11. w[1] = StdOut(p)
  <2>1. CASE Last(p)
    <3>1. r[1] = io[1]
      BY <1>2, <1>4, <1>5 DEF Ends
    <3> QED  BY <1>3, <1>9, <2>1, <3>1 DEF StdOut
  <2>2. CASE ~Last(p)
    <3>1. w[1] = r[f[2]]
      BY <1>2, <1>4, <1>9, <2>2 DEF Ends
    <3>2. r[f[2]] = io[f[2]]
      BY <1>4, <1>5, <1>8, <2>2
    <3>3. io[f[2]] = fd[p][f[2]]
      BY <1>3, <1>4, <2>2
    <3> QED  BY <1>7, <2>2, <3>1, <3>2, <3>3 DEF StdOut, Holds
  <2> QED  BY <2>1, <2>2
<1>12. ASSUME NEW d \in Fd \ {0, 1}
       PROVE  /\ w[d] \in {fd[p][d], Closed}
              /\ ~First(p) /\ d \in Ends(s) => w[d] = Closed
              /\ ~Last(p) /\ d \in Ends(f) => w[d] = Closed
  <2>1. r[d] \in {fd[p][d], Closed} /\ (~First(p) /\ d \in Ends(s) => r[d] = Closed)
    BY <1>3, <1>5
  <2> QED  BY <1>9, <2>1
<1>13. w[2] = Terminal
  <2>1. fd[p][2] = Terminal
    BY <1>2 DEF Tidy
  <2>2. r[2] = Terminal
    BY <1>2, <1>3, <1>4, <1>5, <2>1 DEF Ends
  <2> QED  BY <1>2, <1>4, <1>9, <2>2 DEF Ends
<1>14. ASSUME NEW d \in Fd \ {0, 1}, w[d] \in PipesOf(p[1]) PROVE FALSE
  <2>1. PICK q \in Pipe : q[1] = p[1] /\ w[d] \in {ReadEnd(q), WriteEnd(q)}
    BY <1>14 DEF PipesOf
  <2>2. fd[p][d] = w[d] /\ w[d] # Closed
    BY <1>12, <2>1, EndsDiffer
  <2>3. PICK x \in Slot : /\ d \in {x[1], x[2]} /\ Holds(fd[p], x, q)
                          /\ \/ Leaky(q) /\ q[1] # p[1]
                             \/ q = p /\ x = f
                             \/ q = Before(p) /\ x = s
    BY <1>1, <2>1, <2>2, ForkedHolds DEF f, s
  <2>4. CASE q = p /\ x = f
    <3>1. ~Last(p)
      BY <1>1, <2>1, <2>2, <2>4 DEF EndsInv
    <3> QED  BY <1>12, <2>2, <2>3, <2>4, <3>1 DEF Ends
  <2>5. CASE q = Before(p) /\ x = s
    <3>1. ~First(p)
      BY <2>5, Neighbours
    <3> QED  BY <1>12, <2>2, <2>3, <2>5, <3>1 DEF Ends
  <2> QED  BY <2>1, <2>3, <2>4, <2>5
<1> QED  BY <1>7, <1>10, <1>11, <1>12, <1>13, <1>14 DEF w, s, f, Holds

-----------------------------------------------------------------------------
(***************************************************************************)
(* The invariant of the wiring, as long as the first pipe succeeds.        *)
(***************************************************************************)

LEMMA CloseFree ==
  ASSUME NEW t \in Table, NEW ds
  PROVE  Free(close(t, ds)) = Free(t) \cup (ds \cap Fd)
BY DEF Free, close

\* What main's steps other than pipeline_process and pipeline_process_Parent, and the
\* children's, leave alone.
LEMMA Aside ==
  ASSUME PipesInv, \/ \E j \in Job : pipeline_pre_process(j)
                   \/ builtin_execute \/ pipeline_post_process \/ shell_ends
                   \/ UNCHANGED vars
  PROVE  /\ UNCHANGED <<firstPipe, secondPipe, phase>>
         /\ \A p \in Proc : fd'[p] = fd[p]
         /\ fd'[Shell] = fd[Shell] \/ (fd'[Shell] = NoTable /\ shell_ends)
         /\ AtWork' => n' = 1 \/ UNCHANGED <<pc, pipeline, n, fd>>
BY JobFacts DEF pipeline_pre_process, builtin_execute, pipeline_post_process, shell_ends,
     Finish, vars, main, copies, AtWork, PipesInv, BaseInv, TypeOK

LEMMA ReadSlotStep ==
  ASSUME OpenMax >= 6, Room, BaseInv, BaseInv', ReadSlotInv, [Next]_vars, PipesInv
  PROVE  ReadSlotInv'
<1> USE DEF BaseInv
<1> DEFINE t == fd[Shell]
           u == fd'[Shell]
<1>1. CASE pipeline_process
  <2> DEFINE x == firstPipe'[Shell]
             s == secondPipe[Shell]
  <2>1. /\ pc = "cmd" /\ pc' = "parent" /\ pipeline' = pipeline /\ n' = n
        /\ pipeline \in Job /\ n \in 1..Len(Cmds[pipeline]) /\ n \in Nat
        /\ Current \in Pipe /\ secondPipe'[Shell] = s
        /\ Current' = Current /\ AtWork /\ AtWork' /\ t \in Table /\ Tidy(t)
    BY <1>1, Forks, JobFacts DEF pipeline_process, ShellInv, AtWork, Current, TypeOK
  <2>2. ASSUME Piping, n < Len(Cmds[pipeline])
        PROVE  IF n = 1 \/ x # s
               THEN Holds(u, x, Current) /\ (n = 1 => LowestFrom(u, x))
               ELSE LowestFrom(u, s)
    <3>1. ~Last(Current) /\ hasPipe(pipeline)
      <4>1. n # Len(Cmds[pipeline])
        BY <2>1, <2>2, JobFacts
      <4> QED  BY <2>1, <2>2, <4>1, AtCurrent DEF Piping
    <3>2. CASE Piped
      <4>1. x = pipe_fds(t) /\ u = pipe(t, Current)
        BY <1>1, <2>1, <3>2, Forks
      <4>2. Holds(u, x, Current) /\ LowestFrom(u, x)
        BY <2>1, <3>2, <4>1, PipeTidy DEF Piped
      <4> HIDE DEF u, x, s
      <4> QED  BY <4>2
    <3>3. CASE ~Piped
      <4>1. x = firstPipe[Shell] /\ u = t
        BY <1>1, <2>1, <3>3, Forks
      <4>2. ~(Cardinality(Free(t)) >= 2)
        BY <3>1, <3>3 DEF Piped
      <4>3. n # 1
        BY <2>1, <3>1, <4>2 DEF Room
      <4>4. x = s /\ s \in Slot
        BY <2>1, <2>2, <4>1, <4>3 DEF ShellInv
      <4>5. LowestFrom(t, s)
        BY <2>1, <2>2, <4>2, <4>3 DEF ReadSlotInv
      <4> QED  BY <4>1, <4>3, <4>4, <4>5
    <3> QED  BY <3>2, <3>3
  <2>3. Piping' <=> Piping
    BY <2>1 DEF Piping
  <2> HIDE DEF t, u, x, s
  <2> QED  BY <2>1, <2>2, <2>3 DEF ReadSlotInv, u, x, s
<1>2. CASE pipeline_process_Parent
  <2> DEFINE f == firstPipe[Shell]
             s == secondPipe[Shell]
  <2>1. /\ pc = "parent" /\ pc' = "cmd" /\ pipeline' = pipeline /\ n' = n + 1
        /\ pipeline \in Job /\ n \in 1..Len(Cmds[pipeline]) /\ n \in Nat
        /\ Len(Cmds[pipeline]) \in Nat
        /\ t \in Table /\ Tidy(t) /\ AtWork /\ AtWork'
    BY <1>2, Parent, JobFacts DEF ShellInv, TypeOK, AtWork
  <2>2. CASE Piping /\ n < Len(Cmds[pipeline])
    <3>1. /\ u = close(t, Both(ClosedSlots)) /\ ClosedSlots \in SUBSET Slot
          /\ secondPipe'[Shell] = f
      BY <1>2, <2>2, Parent DEF Piping
    <3>2. ~Last(Current) /\ (First(Current) <=> n = 1)
      BY <2>1, <2>2, AtCurrent
    <3>3. ClosedSlots = IF n = 1 THEN {} ELSE {s}
      BY <3>2 DEF ClosedSlots
    <3>4. f \in Slot /\ (n # 1 => s \in Slot)
      BY <2>1, <2>2 DEF ShellInv
    <3>5. Current = <<pipeline', n' - 1>>
      BY <2>1 DEF Current
    <3>6. IF n = 1 \/ f # s
          THEN Holds(t, f, Current) /\ (n = 1 => LowestFrom(t, f))
          ELSE LowestFrom(t, s)
      BY <2>1, <2>2 DEF ReadSlotInv
    <3> HIDE DEF u, t, f, s
    <3>7. /\ \A r \in ClosedSlots : IsClosed(u, r)
          /\ \A r \in Slot \ ClosedSlots : u[r[1]] = t[r[1]] /\ u[r[2]] = t[r[2]]
      BY <2>1, <3>1, CloseTidy
    <3>8. CASE n = 1
      <4>1. Both(ClosedSlots) = {}
        BY <3>3, <3>8 DEF Both
      <4>2. Free(u) = Free(t)
        BY <2>1, <3>1, <4>1, CloseFree
      <4>3. Holds(u, f, Current) /\ LowestFrom(u, f)
        BY <3>3, <3>4, <3>6, <3>7, <3>8, <4>2, HoldsSame DEF LowestFrom
      <4> QED  BY <2>1, <3>1, <3>5, <4>3 DEF ReadSlotInv, u
    <3>9. CASE n # 1 /\ f # s
      <4>1. Holds(u, f, Current)
        BY <3>3, <3>4, <3>6, <3>7, <3>9, HoldsSame
      <4>2. IsClosed(u, s)
        BY <3>3, <3>7, <3>9
      <4>3. Cardinality(Free(u)) >= 2
        <5>1. s[1] \in Free(u) /\ s[2] \in Free(u) /\ s[1] # s[2]
          BY <3>4, <3>9, <4>2, SlotFacts DEF IsClosed, Free
        <5> QED  BY <5>1, TwoFree
      <4> QED  BY <2>1, <3>1, <3>5, <4>1, <4>3 DEF ReadSlotInv, u
    <3>10. CASE n # 1 /\ f = s
      <4>1. IsClosed(u, s)
        BY <3>3, <3>7, <3>10
      <4>2. Both(ClosedSlots) = {s[1], s[2]}
        BY <3>3, <3>10 DEF Both
      <4>3. Free(u) = Free(t) \cup ({s[1], s[2]} \cap Fd)
        BY <2>1, <3>1, <4>2, CloseFree
      <4>4. LowestFrom(t, s)
        BY <3>6, <3>10
      <4>5. LowestFrom(u, s)
        BY <3>4, <3>10, <4>3, <4>4, SlotFacts DEF LowestFrom
      <4> QED  BY <2>1, <3>1, <3>5, <3>10, <4>1, <4>5 DEF ReadSlotInv, u
    <3> QED  BY <3>8, <3>9, <3>10
  <2>3. CASE ~(Piping /\ n < Len(Cmds[pipeline]))
    <3>1. ~(Piping' /\ n' <= Len(Cmds[pipeline]))
      BY <2>1, <2>3 DEF Piping
    <3> QED  BY <2>1, <3>1 DEF ReadSlotInv
  <2> QED  BY <2>2, <2>3
<1>3. CASE \/ \E j \in Job : pipeline_pre_process(j)
           \/ builtin_execute \/ pipeline_post_process \/ shell_ends
           \/ UNCHANGED vars
  <2>1. /\ UNCHANGED <<firstPipe, secondPipe>>
        /\ AtWork' => n' = 1 \/ UNCHANGED <<pc, pipeline, n, fd>>
    BY <1>3, Aside
  <2>2. AtWork' /\ n' = 1 => pc' = "cmd" \/ UNCHANGED <<pc, pipeline, n, fd>>
    BY <1>3 DEF pipeline_pre_process, builtin_execute, pipeline_post_process, shell_ends,
         Finish, vars, main, AtWork
  <2>3. CASE ~Piping'
    BY <2>3 DEF ReadSlotInv
  <2>4. CASE Piping' /\ n' = 1 /\ pc' = "cmd"
    BY <2>4 DEF ReadSlotInv
  <2>5. CASE UNCHANGED <<pc, pipeline, n, fd>>
    BY <2>1, <2>5 DEF ReadSlotInv, Piping, AtWork, Current
  <2> QED  BY <2>1, <2>2, <2>3, <2>4, <2>5 DEF Piping
<1>4. ASSUME NEW p \in Proc, execvp(p) \/ die(p) PROVE ReadSlotInv'
  <2>1. UNCHANGED <<pc, pipeline, n, firstPipe, secondPipe>> /\ fd'[Shell] = fd[Shell]
    BY <1>4, ChildSteps
  <2> QED  BY <2>1 DEF ReadSlotInv, Piping, AtWork, Current
<1> QED
  BY <1>1, <1>2, <1>3, <1>4 DEF Next, Main, Child, esh_sys_fatal_error, Idle

LEMMA ForkKeepsForked ==
  ASSUME OpenMax >= 6, Room, PipesInv, BaseInv', pipeline_process
  PROVE  ForkedInv'
<1> USE DEF PipesInv, BaseInv
<1> DEFINE t == fd[Shell]
           u == fd'[Shell]
           x == firstPipe'[Shell]
           s == secondPipe[Shell]
           c == Current
<1>1. /\ pc = "cmd" /\ pc' = "parent" /\ pipeline' = pipeline /\ n' = n
      /\ pipeline \in Job /\ n \in 1..Len(Cmds[pipeline]) /\ n \in Nat
      /\ c \in Proc /\ c \in Pipe /\ c[1] = pipeline /\ c[2] = n
      /\ phase[c] = "none" /\ Current' = Current /\ AtWork /\ AtWork'
      /\ t \in Table /\ Tidy(t)
  BY Forks, JobFacts DEF pipeline_process, ShellInv, AtWork, Current, TypeOK
<1>2. /\ fd'[c] = u /\ firstPipe'[c] = x /\ secondPipe'[c] = s /\ secondPipe'[Shell] = s
      /\ \A p \in Proc \ {c} : /\ fd'[p] = fd[p] /\ firstPipe'[p] = firstPipe[p]
                               /\ secondPipe'[p] = secondPipe[p] /\ phase'[p] = phase[p]
  BY <1>1, Forks
<1>3. /\ First(c) <=> n = 1
      /\ Last(c) <=> n = Len(Cmds[pipeline])
      /\ ~First(c) \/ ~Last(c) => Piping /\ Piping'
  BY <1>1, AtCurrent DEF Piping
<1>4. Before(c) = <<pipeline, n - 1>>
  BY <1>1 DEF Before
<1>5. Tidy(u)
  BY <1>1 DEF ShellInv
<1>6. (~First(c) => s \in Slot) /\ (~Last(c) => x \in Slot)
  BY <1>1, <1>2, <1>3 DEF ShellInv
<1>7. \A r \in Slot, q \in Pipe : Holds(u, r, q) =>
        \/ Leaky(q) /\ q[1] # c[1]
        \/ q = c /\ r = x
        \/ q = Before(c) /\ r = s
  BY <1>1, <1>2, <1>4 DEF ShellInv
<1> HIDE DEF t, u, x, s, c
<1>8. (\/ ~First(c) /\ \/ u[s[1]] = Closed
                       \/ ~Last(c) /\ x = s)
      \/ /\ ~First(c) => Holds(u, s, Before(c))
         /\ ~Last(c)  => Holds(u, x, c)
  <2>1. Piped => Holds(u, x, c) /\ x = pipe_fds(t) /\ IsClosed(t, x) /\ x \in Slot
                 /\ \A r \in Slot \ {x} : u[r[1]] = t[r[1]] /\ u[r[2]] = t[r[2]]
    BY <1>1, Forks, PipeTidy DEF Piped, t, u, x, c
  <2>2. ~Piped => u = t /\ x = firstPipe[Shell]
    BY <1>1, Forks DEF t, u, x
  <2>3. Last(c) => ~Piped
    BY DEF Piped, c
  <2>4. CASE First(c)
    <3>1. ~Last(c) => Piped
      BY <1>1, <1>3, <2>4, AtCurrent DEF Room, Piping, Piped, c
    <3> QED  BY <2>1, <2>4, <3>1
  <2>5. CASE ~First(c)
    <3>1. n \in Nat /\ 1 < n /\ n <= Len(Cmds[pipeline]) /\ s \in Slot
      BY <1>1, <1>3, <1>6, <2>5, JobFacts
    <3>2. firstPipe[Shell] = s
      BY <1>1, <1>3, <2>5, <3>1 DEF ShellInv, s
    <3>3. CASE Holds(t, s, Before(c))
      <4>1. Piped => x # s
        BY <2>1, <3>3, ClosedHoldsNone
      <4>2. Piped => Holds(u, s, Before(c))
        BY <2>1, <3>1, <3>3, <4>1, HoldsSame
      <4>3. CASE Piped
        BY <2>1, <4>2, <4>3
      <4>4. CASE ~Piped
        BY <2>2, <2>5, <3>2, <3>3, <4>4
      <4> QED  BY <4>3, <4>4
    <3>4. CASE IsClosed(t, s) /\ LowestFrom(t, s)
      <4>1. pipe_fds(t) = s /\ Cardinality(Free(t)) >= 2
        BY <3>1, <3>4, LowestSlot
      <4>2. CASE Piped
        BY <2>1, <2>3, <2>5, <4>1, <4>2
      <4>3. CASE ~Piped
        BY <2>2, <2>5, <3>4, <4>3 DEF IsClosed
      <4> QED  BY <4>2, <4>3
    <3> QED  BY <1>1, <1>3, <1>4, <2>5, <3>1, <3>3, <3>4 DEF ReadSlotInv, t, s
  <2> QED  BY <2>4, <2>5
<1>9. ASSUME NEW p \in Proc, phase'[p] = "forked"
      PROVE  /\ Tidy(fd'[p])
             /\ ~First(p) => secondPipe'[p] \in Slot
             /\ ~Last(p)  => firstPipe'[p] \in Slot
             /\ Stuck(p)' \/ /\ ~First(p) => Holds(fd'[p], secondPipe'[p], Before(p))
                             /\ ~Last(p)  => Holds(fd'[p], firstPipe'[p], p)
             /\ \A r \in Slot, q \in Pipe : Holds(fd'[p], r, q) =>
                  \/ Leaky(q) /\ q[1] # p[1]
                  \/ q = p /\ r = firstPipe'[p]
                  \/ q = Before(p) /\ r = secondPipe'[p]
  <2>1. CASE p = c
    <3>1. fd'[p] = u /\ firstPipe'[p] = x /\ secondPipe'[p] = s
      BY <1>2, <2>1
    <3>2. Stuck(p)' \/ /\ ~First(p) => Holds(u, s, Before(p))
                       /\ ~Last(p)  => Holds(u, x, p)
      BY <1>8, <2>1, <3>1 DEF Stuck
    <3> QED  BY <1>5, <1>6, <1>7, <2>1, <3>1, <3>2
  <2>2. CASE p # c
    <3>1. Stuck(p)' <=> Stuck(p)
      BY <1>2, <2>2 DEF Stuck
    <3>2. phase[p] = "forked" /\ fd'[p] = fd[p] /\ firstPipe'[p] = firstPipe[p]
          /\ secondPipe'[p] = secondPipe[p]
      BY <1>2, <1>9, <2>2
    <3> QED  BY <3>1, <3>2 DEF ForkedInv
  <2> QED  BY <2>1, <2>2
<1> QED  BY <1>9 DEF ForkedInv

\* The processes that a step leaves alone.
LEMMA SameForked ==
  ASSUME ForkedInv, UNCHANGED <<firstPipe, secondPipe>>,
         \A p \in Proc : phase'[p] = "forked" => phase[p] = "forked" /\ fd'[p] = fd[p]
  PROVE  ForkedInv'
BY DEF ForkedInv, Stuck

LEMMA SameOrChild ==
  ASSUME PipesInv, [Next]_vars, ~pipeline_process
  PROVE  \/ /\ phase' = phase /\ firstPipe' = firstPipe
            /\ \A p \in Proc : fd'[p] = fd[p] /\ secondPipe'[p] = secondPipe[p]
            /\ \A d \in Fd : fd'[Shell][d] \in {fd[Shell][d], Closed}
         \/ \E p \in Proc : execvp(p) \/ die(p)
<1> USE DEF PipesInv, BaseInv
<1>1. CASE pipeline_process_Parent
  <2>1. /\ phase' = phase /\ firstPipe' = firstPipe
        /\ \A p \in Proc : fd'[p] = fd[p] /\ secondPipe'[p] = secondPipe[p]
        /\ hasPipe(pipeline) => fd'[Shell] = close(fd[Shell], Both(ClosedSlots))
        /\ ~hasPipe(pipeline) => fd'[Shell] = fd[Shell]
    BY <1>1, Parent
  <2> QED  BY <2>1 DEF close
<1>2. CASE \/ \E j \in Job : pipeline_pre_process(j)
           \/ builtin_execute \/ pipeline_post_process \/ shell_ends
           \/ UNCHANGED vars
  BY <1>2, Aside DEF NoTable
<1>3. CASE \E p \in Proc : execvp(p) \/ die(p)
  BY <1>3
<1> QED
  BY <1>1, <1>2, <1>3 DEF Next, Main, Child, esh_sys_fatal_error, Idle

LEMMA ForkedStep ==
  ASSUME OpenMax >= 6, Room, PipesInv, BaseInv', [Next]_vars
  PROVE  ForkedInv'
<1>1. CASE pipeline_process
  BY <1>1, ForkKeepsForked
<1>2. ASSUME NEW p \in Proc, execvp(p) \/ die(p) PROVE ForkedInv'
  <2>1. UNCHANGED <<firstPipe, secondPipe>>
        /\ \A q \in Proc : phase'[q] = "forked" => phase[q] = "forked" /\ fd'[q] = fd[q]
    BY <1>2, ChildSteps DEF PipesInv, BaseInv
  <2> QED  BY <2>1, SameForked DEF PipesInv
<1>3. CASE ~pipeline_process /\ ~\E p \in Proc : execvp(p) \/ die(p)
  <2>1. /\ phase' = phase /\ firstPipe' = firstPipe
        /\ \A p \in Proc : fd'[p] = fd[p] /\ secondPipe'[p] = secondPipe[p]
    BY <1>3, SameOrChild
  <2> QED  BY <2>1 DEF ForkedInv, Stuck, PipesInv
<1> QED  BY <1>1, <1>2, <1>3

LEMMA TableStep ==
  ASSUME PipesInv, [Next]_vars
  PROVE  TableInv'
<1> USE DEF PipesInv, BaseInv
<1>1. CASE pipeline_process
  <2>1. Tidy(fd[Shell])
    BY <1>1 DEF pipeline_process, ShellInv
  <2>2. \A p \in Proc : phase'[p] \in {"none", "gone"} => phase'[p] = phase[p] /\ fd'[p] = fd[p]
    BY <1>1, <2>1, Forks
  <2> QED  BY <2>2 DEF TableInv
<1>2. ASSUME NEW p \in Proc, execvp(p) \/ die(p) PROVE TableInv'
  BY <1>2, ChildSteps DEF TableInv
<1>3. CASE ~pipeline_process /\ ~\E p \in Proc : execvp(p) \/ die(p)
  BY <1>3, SameOrChild DEF TableInv
<1> QED  BY <1>1, <1>2, <1>3

LEMMA WiredStep ==
  ASSUME PipesInv, [Next]_vars
  PROVE  WiredAsTyped'
<1> USE DEF PipesInv, BaseInv
<1>1. CASE pipeline_process
  <2>1. Tidy(fd[Shell])
    BY <1>1 DEF pipeline_process, ShellInv
  <2>2. \A p \in Proc : phase'[p] = "execed" => phase[p] = "execed" /\ fd'[p] = fd[p]
    BY <1>1, <2>1, Forks
  <2> QED  BY <2>2 DEF WiredAsTyped
<1>2. ASSUME NEW p \in Proc, execvp(p) \/ die(p) PROVE WiredAsTyped'
  <2>1. \A o \in Proc \ {p} : phase'[o] = phase[o] /\ fd'[o] = fd[o]
    BY <1>2, ChildSteps
  <2>2. die(p) => phase'[p] # "execed"
    BY ChildSteps
  <2>3. execvp(p) => /\ fd'[p][0] = StdIn(p) /\ fd'[p][1] = StdOut(p) /\ fd'[p][2] = Terminal
                     /\ \A d \in Fd \ {0, 1} : fd'[p][d] \notin PipesOf(p[1])
    BY ExecTable
  <2> QED  BY <1>2, <2>1, <2>2, <2>3 DEF WiredAsTyped
<1>3. CASE ~pipeline_process /\ ~\E p \in Proc : execvp(p) \/ die(p)
  <2>1. phase' = phase /\ \A p \in Proc : fd'[p] = fd[p]
    BY <1>3, SameOrChild
  <2> QED  BY <2>1 DEF WiredAsTyped
<1> QED  BY <1>1, <1>2, <1>3

\* Nobody holds an end of a pipe whose writer is there and does not hold the other.
LEMMA EndsStep ==
  ASSUME PipesInv, [Next]_vars
  PROVE  EndsInv'
<1> USE DEF PipesInv, BaseInv
<1> DEFINE EndOf(v, q) == v = ReadEnd(q) \/ v = WriteEnd(q)
<1> DEFINE Fine(o, q) == /\ ~Last(q) /\ phase'[q] # "none"
                         /\ phase'[q] # "gone" => \E b \in Fd : fd'[q][b] = WriteEnd(q)
                         /\ o # Shell /\ phase'[o] = "execed" => Leaky(q) \/ q \in {o, Before(o)}
<1> SUFFICES ASSUME NEW o \in Owner, NEW d \in Fd, NEW q \in Pipe, EndOf(fd'[o][d], q)
             PROVE  Fine(o, q)
  BY DEF EndsInv
<1>1. q \in Proc /\ q # Shell /\ q \in Owner
  BY JobFacts
<1>2. ASSUME EndOf(fd[o][d], q)
      PROVE  /\ ~Last(q) /\ phase[q] # "none"
             /\ phase[q] # "gone" => \E b \in Fd : fd[q][b] = WriteEnd(q)
             /\ o # Shell /\ phase[o] = "execed" => Leaky(q) \/ q \in {o, Before(o)}
  BY <1>2 DEF EndsInv
<1>3. CASE pipeline_process
  <2> DEFINE t == fd[Shell]
             u == fd'[Shell]
             x == firstPipe'[Shell]
  <2>1. t \in Table /\ Tidy(t)
    BY <1>3, JobFacts DEF pipeline_process, ShellInv, TypeOK
  <2>2. /\ Current \in Proc /\ Current \in Pipe /\ phase[Current] = "none" /\ Current # Shell
        /\ phase'[Current] = "forked" /\ fd'[Current] = u
        /\ \A p \in Proc \ {Current} : phase'[p] = phase[p] /\ fd'[p] = fd[p]
    BY <1>3, <2>1, Forks, JobFacts
  <2>3. ASSUME Piped
        PROVE  /\ ~Last(Current) /\ x[2] \in Fd /\ u[x[2]] = WriteEnd(Current)
               /\ \A b \in Fd : u[b] \in {t[b], ReadEnd(Current), WriteEnd(Current)}
    <3>1. x = pipe_fds(t) /\ u = pipe(t, Current)
      BY <1>3, <2>1, <2>3, Forks
    <3>2. /\ x \in Slot /\ Holds(u, x, Current) /\ Cardinality(Free(t)) >= 2
          /\ \A b \in Fd : u[b] \in {t[b], ReadEnd(Current), WriteEnd(Current)}
      BY <2>1, <2>2, <2>3, <3>1, PipeTidy DEF Piped
    <3> QED  BY <2>3, <3>2, SlotFacts DEF Piped, Holds
  <2>4. ~Piped => u = t
    BY <1>3, <2>1, Forks
  <2> HIDE DEF t, u, x
  <2>5. CASE q # Current
    <3>1. EndOf(fd[o][d], q) \/ (o = Current /\ EndOf(t[d], q))
      <4>1. CASE o = Shell \/ o = Current
        BY <2>2, <2>3, <2>4, <2>5, <4>1, EndsDiffer DEF t, u
      <4>2. CASE o # Shell /\ o # Current
        BY <2>2, <4>2 DEF Owner
      <4> QED  BY <4>1, <4>2
    <3>2. /\ ~Last(q) /\ phase[q] # "none"
          /\ phase[q] # "gone" => \E b \in Fd : fd[q][b] = WriteEnd(q)
      BY <1>2, <3>1, JobFacts DEF EndsInv, t
    <3>3. phase'[q] = phase[q] /\ fd'[q] = fd[q]
      BY <1>1, <2>2, <2>5
    <3>4. o # Shell /\ phase'[o] = "execed" => Leaky(q) \/ q \in {o, Before(o)}
      BY <1>2, <2>2, <3>1 DEF Owner
    <3> QED  BY <3>2, <3>3, <3>4
  <2>6. CASE q = Current
    <3>1. ~EndOf(fd[o][d], q) /\ ~EndOf(t[d], q)
      BY <2>2, <2>6, JobFacts DEF EndsInv, t
    <3>2. o = Shell \/ o = Current
      BY <2>2, <3>1 DEF Owner
    <3>3. Piped
      BY <2>2, <2>4, <3>1, <3>2 DEF u, t
    <3> QED  BY <2>2, <2>3, <2>6, <3>2, <3>3
  <2> QED  BY <2>5, <2>6
<1>4. ASSUME NEW p \in Proc, die(p) PROVE Fine(o, q)
  <2>1. /\ fd'[p] = NoTable /\ phase'[p] = "gone" /\ fd'[Shell] = fd[Shell]
        /\ \A r \in Proc : phase'[r] = "none" <=> phase[r] = "none"
        /\ \A r \in Proc \ {p} : phase'[r] = phase[r] /\ fd'[r] = fd[r]
    BY <1>4, ChildSteps
  <2>2. o # p
    BY <2>1, EndsDiffer DEF NoTable
  <2>3. EndOf(fd[o][d], q)
    BY <2>1, <2>2 DEF Owner
  <2>4. o # Shell => phase'[o] = phase[o]
    BY <2>1, <2>2 DEF Owner
  <2>5. phase'[q] # "gone" => q # p
    BY <2>1
  <2> QED  BY <1>1, <1>2, <2>1, <2>3, <2>4, <2>5
<1>5. ASSUME NEW p \in Proc, execvp(p) PROVE Fine(o, q)
  <2>1. /\ phase[p] = "forked" /\ phase'[p] = "execed" /\ fd'[Shell] = fd[Shell]
        /\ \A r \in Proc : phase'[r] = "none" <=> phase[r] = "none"
        /\ \A r \in Proc \ {p} : phase'[r] = phase[r] /\ fd'[r] = fd[r]
    BY <1>5, ChildSteps
  <2>2. /\ fd'[p][0] = StdIn(p) /\ fd'[p][1] = StdOut(p)
        /\ \A b \in Fd \ {0, 1} : fd'[p][b] \in {fd[p][b], Closed}
        /\ \A b \in Fd \ {0, 1} : fd'[p][b] \notin PipesOf(p[1])
        /\ ~First(p) => fd[p][secondPipe[p][1]] = ReadEnd(Before(p)) /\ secondPipe[p][1] \in Fd
        /\ ~Last(p) => fd[p][firstPipe[p][2]] = WriteEnd(p) /\ firstPipe[p][2] \in Fd
    BY <1>5, ExecTable, JobFacts DEF TypeOK
  <2>3. /\ ~Last(q) /\ phase[q] # "none"
        /\ phase[q] # "gone" => \E b \in Fd : fd[q][b] = WriteEnd(q)
        /\ o = p => Leaky(q) \/ q \in {p, Before(p)}
        /\ o # p => EndOf(fd[o][d], q)
    <3>1. CASE o # p
      <4>1. EndOf(fd[o][d], q)
        BY <2>1, <3>1 DEF Owner
      <4> QED  BY <1>2, <3>1, <4>1
    <3>2. CASE o = p /\ d = 0
      <4>1. ~First(p) /\ q = Before(p)
        BY <2>2, <3>2, EndsDiffer DEF StdIn, Before
      <4>2. EndOf(fd[p][secondPipe[p][1]], q)
        BY <2>2, <4>1
      <4> QED  BY <2>2, <3>2, <4>1, <4>2, JobFacts DEF EndsInv
    <3>3. CASE o = p /\ d = 1
      <4>1. ~Last(p) /\ q = p
        BY <2>2, <3>3, EndsDiffer DEF StdOut
      <4>2. fd[p][firstPipe[p][2]] = WriteEnd(p) /\ firstPipe[p][2] \in Fd
        BY <2>2, <4>1
      <4> QED  BY <2>1, <3>3, <4>1, <4>2
    <3>4. CASE o = p /\ d \notin {0, 1}
      <4>1. EndOf(fd[p][d], q) /\ fd'[p][d] \notin PipesOf(p[1])
        BY <2>2, <3>4, EndsDiffer
      <4>2. q[1] # p[1]
        BY <3>4, <4>1 DEF PipesOf
      <4>3. PICK s \in Slot : \/ Leaky(q) /\ q[1] # p[1]
                              \/ q = p /\ s = firstPipe[p]
                              \/ q = Before(p) /\ s = secondPipe[p]
        BY <2>1, <4>1, ForkedHolds
      <4>4. Leaky(q)
        BY <4>2, <4>3, Neighbours
      <4> QED  BY <1>2, <3>4, <4>1, <4>4
    <3> QED  BY <3>1, <3>2, <3>3, <3>4
  <2>4. o # Shell /\ phase'[o] = "execed" => Leaky(q) \/ q \in {o, Before(o)}
    BY <1>2, <2>1, <2>3 DEF Owner
  <2>5. phase'[q] # "gone" => \E b \in Fd : fd'[q][b] = WriteEnd(q)
    <3>1. CASE q = p
      BY <2>2, <2>3, <3>1, FdNat DEF StdOut
    <3>2. CASE q # p
      BY <1>1, <2>1, <2>3, <3>2
    <3> QED  BY <3>1, <3>2
  <2>6. phase'[q] # "none"
    BY <1>1, <2>1, <2>3
  <2> QED  BY <2>3, <2>4, <2>5, <2>6
<1>6. CASE ~pipeline_process /\ ~\E p \in Proc : execvp(p) \/ die(p)
  <2>1. /\ phase' = phase /\ \A p \in Proc : fd'[p] = fd[p]
        /\ \A b \in Fd : fd'[Shell][b] \in {fd[Shell][b], Closed}
    BY <1>6, SameOrChild
  <2>2. EndOf(fd[o][d], q)
    BY <2>1, EndsDiffer DEF Owner
  <2> QED  BY <1>1, <1>2, <2>1, <2>2
<1> QED  BY <1>3, <1>4, <1>5, <1>6

LEMMA InitPipes == OpenMax >= 6 /\ Init => PipesInv
<1>1. ASSUME OpenMax >= 6, Init PROVE PipesInv
  <2>1. BaseInv
    BY <1>1, InitBase
  <2>2. /\ pc = "loop" /\ \A p \in Proc : phase[p] = "none" /\ fd[p] = NoTable
        /\ fd[Shell] = ShellTable
    BY <1>1, JobFacts DEF Init
  <2>3. ReadSlotInv /\ ForkedInv /\ TableInv /\ WiredAsTyped
    BY <2>2 DEF ReadSlotInv, Piping, AtWork, ForkedInv, TableInv, WiredAsTyped
  <2>4. \A o \in Owner, d \in Fd : fd[o][d] \in {Closed, Terminal}
    BY <2>2 DEF Owner, NoTable, ShellTable
  <2>5. EndsInv
    BY <2>4, EndsDiffer DEF EndsInv
  <2> QED  BY <2>1, <2>3, <2>5 DEF PipesInv
<1> QED  BY <1>1

LEMMA PipesStep ==
  ASSUME OpenMax >= 6, Room, PipesInv, [Next]_vars
  PROVE  PipesInv'
<1>1. BaseInv /\ ReadSlotInv
  BY DEF PipesInv
<1>2. BaseInv'
  BY <1>1, BaseStep
<1> QED  BY <1>1, <1>2, ReadSlotStep, ForkedStep, TableStep, WiredStep, EndsStep DEF PipesInv

LEMMA PipesKept ==
  ASSUME OpenMax >= 6
  PROVE  Spec /\ []Room => []PipesInv
<1>1. Init => PipesInv
  BY InitPipes
<1>2. PipesInv /\ Room /\ [Next]_vars => PipesInv'
  BY PipesStep
<1> QED  BY <1>1, <1>2, PTL DEF Spec

LEMMA ReadersOfWired == PipesInv => ReadsPredecessor
<1> SUFFICES ASSUME PipesInv, NEW p \in Proc, NEW o \in Proc, phase[p] = "execed", ~First(p),
                    phase[o] = "execed", NEW q \in Pipe, fd[p][0] = ReadEnd(q),
                    fd[o][1] = WriteEnd(q)
             PROVE  o = <<p[1], p[2] - 1>>
  BY DEF ReadsPredecessor
<1>1. fd[p][0] = StdIn(p) /\ fd[o][1] = StdOut(o)
  BY DEF PipesInv, WiredAsTyped
<1>2. q = <<p[1], p[2] - 1>>
  BY <1>1, EndsDiffer DEF StdIn
<1>3. q = o
  BY <1>1, EndsDiffer DEF StdOut
<1> QED  BY <1>2, <1>3

-----------------------------------------------------------------------------
(***************************************************************************)
(* When pipe succeeds: two descriptors for every pipe in front of a        *)
(* built-in, which is never closed, beside the shell's four and those of   *)
(* the launch: two for its first pipe, and two more for its others.        *)
(***************************************************************************)

LeakyPipe == {q \in Pipe : Leaky(q)}
EnoughDescriptors ==
  IsFiniteSet(LeakyPipe) /\ OpenMax >= 6 + 2 * Cardinality(LeakyPipe)

EnoughForAll == IsFiniteSet(LeakyPipe) /\ OpenMax >= 8 + 2 * Cardinality(LeakyPipe)

LEMMA EnoughIsSix == EnoughDescriptors => OpenMax >= 6 /\ Cardinality(LeakyPipe) \in Nat
BY FS_CardinalityType, DescriptorAssumption DEF EnoughDescriptors

\* If the shell, which holds no pipes but those of S, had no slot left, each slot would hold
\* one of S, two of them the same one.
LEMMA SlotLeft ==
  ASSUME BaseInv, pc # "ended", NEW S, IsFiniteSet(S), OpenMax >= 6 + 2 * Cardinality(S),
         \A s \in Slot, q \in Pipe : Holds(fd[Shell], s, q) => q \in S
  PROVE  Cardinality(Free(fd[Shell])) >= 2
<1> SUFFICES ASSUME ~(Cardinality(Free(fd[Shell])) >= 2)
             PROVE  FALSE
  OBVIOUS
<1> DEFINE t == fd[Shell]
           m == Cardinality(S)
           K == 2..(m + 2)
           slot(k) == <<2 * k, 2 * k + 1>>
<1>1. m \in Nat /\ OpenMax >= 6 + 2 * m /\ OpenMax \in Nat
  BY FS_CardinalityType, DescriptorAssumption
<1>2. IsFiniteSet(K) /\ Cardinality(K) = m + 1
  <2>1. m + 2 \in Int /\ 2 \in Int /\ ~(2 > m + 2) /\ (m + 2) - 2 + 1 = m + 1
    BY <1>1
  <2> HIDE DEF m
  <2> QED  BY <2>1, FS_Interval
<1> HIDE DEF m
<1>3. ASSUME NEW k \in K PROVE slot(k) \in Slot
  <2>1. k \in 2..((OpenMax \div 2) - 1)
    BY <1>1, <1>3
  <2> QED  BY <2>1 DEF Slot
<1>4. Tidy(t)
  BY DEF BaseInv, ShellInv
<1>5. ASSUME NEW k \in K PROVE \E q \in S : q \in Pipe /\ Holds(t, slot(k), q)
  <2>1. ~IsClosed(t, slot(k))
    <3>1. ASSUME IsClosed(t, slot(k)) PROVE FALSE
      <4>1. PICK s \in Slot : IsClosed(t, s)
        BY <1>3, <3>1
      <4>2. s[1] \in Free(t) /\ s[2] \in Free(t) /\ s[1] # s[2]
        BY <4>1, SlotFacts DEF IsClosed, Free
      <4> QED  BY <4>2, TwoFree
    <3> QED  BY <3>1
  <2> QED  BY <1>3, <1>4, <2>1 DEF Tidy
<1> DEFINE f == [k \in K |-> CHOOSE q \in S : q \in Pipe /\ Holds(t, slot(k), q)]
<1>6. f \in [K -> S] /\ \A k \in K : f[k] \in Pipe /\ Holds(t, slot(k), f[k])
  BY <1>5
<1> HIDE DEF f
<1>7. PICK j, k \in K : j # k /\ f[j] = f[k]
  <2>1. m < Cardinality(K)
    BY <1>1, <1>2
  <2> HIDE DEF K
  <2> QED  BY <1>1, <1>2, <1>6, <2>1, FS_PigeonHole DEF m
<1>8. slot(j) = slot(k)
  <2>1. f[j] \in Pipe /\ Holds(t, slot(j), f[j]) /\ Holds(t, slot(k), f[j])
    BY <1>6, <1>7
  <2> QED  BY <1>3, <2>1 DEF BaseInv, UniqueInv
<1> QED  BY <1>1, <1>7, <1>8

\* What the shell holds when it is about to fork a command.
LEMMA HeldAtCommand ==
  ASSUME BaseInv, pc = "cmd", NEW s \in Slot, NEW q \in Pipe, Holds(fd[Shell], s, q)
  PROVE  q \in LeakyPipe \/ q = <<pipeline, n - 1>>
BY DEF BaseInv, ShellInv, LeakyPipe

LEMMA BaseHasRoom ==
  ASSUME EnoughDescriptors, BaseInv
  PROVE  Room
<1> SUFFICES ASSUME pc = "cmd", n = 1, hasPipe(pipeline)
             PROVE  Cardinality(Free(fd[Shell])) >= 2
  BY DEF Room
<1>1. \A q \in Pipe : q[2] # 0
  BY JobFacts
<1>2. \A s \in Slot, q \in Pipe : Holds(fd[Shell], s, q) => q \in LeakyPipe
  BY <1>1, HeldAtCommand
<1> QED  BY <1>2, SlotLeft DEF EnoughDescriptors

LEMMA BaseHasRoomForAll ==
  ASSUME EnoughForAll, BaseInv
  PROVE  RoomForAll
<1> SUFFICES ASSUME pc = "cmd"
             PROVE  Cardinality(Free(fd[Shell])) >= 2
  BY DEF RoomForAll
<1> DEFINE x == <<pipeline, n - 1>>
           S == LeakyPipe \cup {x}
<1>1. \A s \in Slot, q \in Pipe : Holds(fd[Shell], s, q) => q \in S
  BY HeldAtCommand
<1>2. IsFiniteSet(LeakyPipe) /\ Cardinality(LeakyPipe) \in Nat
      /\ OpenMax >= 8 + 2 * Cardinality(LeakyPipe) /\ OpenMax \in Nat
  BY FS_CardinalityType, DescriptorAssumption DEF EnoughForAll
<1>3. /\ IsFiniteSet(S)
      /\ Cardinality(S) = Cardinality(LeakyPipe) \/ Cardinality(S) = Cardinality(LeakyPipe) + 1
  <2> HIDE DEF x
  <2> QED  BY <1>2, FS_AddElement
<1> HIDE DEF S
<1>4. OpenMax >= 6 + 2 * Cardinality(S)
  BY <1>2, <1>3
<1> QED  BY <1>1, <1>3, <1>4, SlotLeft

\* With EnoughDescriptors no call of pipe for a pipeline's first command fails, whatever was
\* leaked before.
THEOREM RoomForPipes ==
  ASSUME EnoughDescriptors
  PROVE  Spec => []Room
<1>1. Init => BaseInv
  BY InitBase, EnoughIsSix
<1>2. BaseInv /\ [Next]_vars => BaseInv'
  BY BaseStep, EnoughIsSix
<1>3. BaseInv => Room
  BY BaseHasRoom
<1> QED  BY <1>1, <1>2, <1>3, PTL DEF Spec

\* With two descriptors more no call of pipe fails: beside the leaked pipes the shell holds no pipe
\* but the one that the next command will read.
THEOREM RoomForAllPipes ==
  ASSUME EnoughForAll
  PROVE  Spec => []RoomForAll
<1>1. EnoughForAll => EnoughDescriptors
  <2>1. IsFiniteSet(LeakyPipe) => Cardinality(LeakyPipe) \in Nat
    BY FS_CardinalityType
  <2> QED  BY <2>1, DescriptorAssumption DEF EnoughForAll, EnoughDescriptors
<1>2. Init => BaseInv
  BY <1>1, InitBase, EnoughIsSix
<1>3. BaseInv /\ [Next]_vars => BaseInv'
  BY <1>1, BaseStep, EnoughIsSix
<1>4. BaseInv => RoomForAll
  BY BaseHasRoomForAll
<1> QED  BY <1>2, <1>3, <1>4, PTL DEF Spec

\* With EnoughDescriptors all that is known of the table of jobs, of who has been forked and of
\* who holds which end of which pipe (PipesInv) stays true, whatever fails.
THEOREM PipesInvariance ==
  ASSUME EnoughDescriptors
  PROVE  Spec => []PipesInv
BY RoomForPipes, PipesKept, EnoughIsSix, PTL

\* A program that is executed has the descriptors that its line says, and reads from the
\* command before it, whatever fails. With two descriptors less, a failed pipe can cross
\* two pipelines.
THEOREM Wired ==
  ASSUME EnoughDescriptors
  PROVE  Spec => [](WiredAsTyped /\ ReadsPredecessor)
<1>1. PipesInv => WiredAsTyped /\ ReadsPredecessor
  BY ReadersOfWired DEF PipesInv
<1> QED  BY <1>1, PipesInvariance, PTL

-----------------------------------------------------------------------------
(***************************************************************************)
(* EshPipes implements the safety part of Chain: no step of the shell or   *)
(* of a child, failures included, brings end of file to a command before   *)
(* the command in front of it has ended, or to more commands than one.     *)
(* That end of file does come is left to TLC.                              *)
(***************************************************************************)

NoWriter(q) == \A o \in Owner : \A d \in Fd : fd[o][d] # WriteEnd(q)
Ready(p)    == phase[p] = "execed" /\ ~First(p) /\ Before(p) \in Proc
Drained     == {p \in Proc : Ready(p) /\ NoWriter(Before(p))}
Started     == {p \in Proc : phase[p] # "none"}
Gone        == {p \in Proc : phase[p] = "gone"}

\* What a command reads is the pipe behind the one before it, and its end is there
\* only if that one has ended.
LEMMA DrainedAre ==
  PipesInv => /\ {p \in Proc : AtEndOfFile(p)} = Drained
              /\ \A p \in Drained : phase[Before(p)] = "gone"
<1> SUFFICES ASSUME PipesInv
             PROVE  /\ {p \in Proc : AtEndOfFile(p)} = Drained
                    /\ \A p \in Drained : phase[Before(p)] = "gone"
  OBVIOUS
<1>1. ASSUME NEW p \in Proc, phase[p] = "execed"
      PROVE  fd[p][0] = IF First(p) THEN IF "<" \in Redirs[p[1]] THEN File ELSE Terminal
                        ELSE ReadEnd(Before(p))
  BY <1>1 DEF PipesInv, WiredAsTyped, StdIn, Before
<1>2. ASSUME NEW p \in Proc, AtEndOfFile(p) PROVE p \in Drained
  <2>1. PICK q \in Pipe : fd[p][0] = ReadEnd(q) /\ NoWriter(q) /\ phase[p] = "execed"
    BY <1>2 DEF AtEndOfFile, NoWriter
  <2>2. ~First(p) /\ q = Before(p)
    BY <1>1, <2>1, EndsDiffer
  <2> QED  BY <2>1, <2>2, JobFacts DEF Drained, Ready
<1>3. ASSUME NEW p \in Drained PROVE AtEndOfFile(p) /\ phase[Before(p)] = "gone"
  <2>1. /\ p \in Proc /\ phase[p] = "execed" /\ ~First(p) /\ Before(p) \in Proc
        /\ NoWriter(Before(p)) /\ Before(p) \in Pipe /\ Before(p) \in Owner
    BY <1>3, JobFacts DEF Drained, Ready
  <2>2. fd[p][0] = ReadEnd(Before(p))
    BY <1>1, <2>1
  <2>3. AtEndOfFile(p)
    BY <2>1, <2>2 DEF AtEndOfFile, NoWriter
  <2>4. phase[Before(p)] = "gone"
    BY <2>1, <2>2, JobFacts, FdNat DEF PipesInv, EndsInv, NoWriter
  <2> QED  BY <2>3, <2>4
<1> QED  BY <1>2, <1>3 DEF Drained

LEMMA DrainedNext ==
  ASSUME PipesInv'
  PROVE  /\ {p \in Proc : AtEndOfFile(p)}' = Drained'
         /\ \A p \in Drained' : phase'[Before(p)] = "gone"
<1>1. PipesInv' => (/\ {p \in Proc : AtEndOfFile(p)} = Drained
                    /\ \A p \in Drained : phase[Before(p)] = "gone")'
  BY DrainedAre, PTL
<1> QED  BY <1>1

-----------------------------------------------------------------------------
(***************************************************************************)
(* Steps of the chain, from the three sets.                                *)
(***************************************************************************)

LEMMA ChainStutters ==
  ASSUME PipesInv, PipesInv', Started' = Started, Gone' = Gone, Drained' = Drained
  PROVE  UNCHANGED ChainOfPipes!vars
BY DrainedAre, DrainedNext DEF ChainOfPipes!vars, Started, Gone

LEMMA ChainStarts ==
  ASSUME PipesInv, PipesInv', NEW p \in Proc, phase[p] = "none",
         ~First(p) => Before(p) \in Started,
         Started' = Started \cup {p}, Gone' = Gone, Drained' = Drained
  PROVE  ChainOfPipes!Next
<1>1. p \notin Started /\ (p[2] > 1 => Before(p) \in Started)
  BY JobFacts DEF Started, First
<1>2. ChainOfPipes!Start(p)
  BY <1>1, DrainedAre, DrainedNext DEF ChainOfPipes!Start, ChainOfPipes!Before, Before, Started, Gone
<1> QED  BY <1>2 DEF ChainOfPipes!Next

LEMMA ChainDrains ==
  ASSUME PipesInv, PipesInv', NEW p \in Drained', p \notin Drained, phase'[p] = phase[p] \/ phase[p] = "forked",
         Started' = Started, Gone' = Gone, Drained' = Drained \cup {p}
  PROVE  ChainOfPipes!Next
<1>1. p \in Proc /\ ~First(p) /\ Before(p) \in Proc /\ phase'[p] = "execed"
  BY DEF Drained, Ready
<1>2. Before(p) \in Gone
  BY <1>1, DrainedNext DEF Gone
<1>3. p \in Started \ (Gone \cup Drained)
  BY <1>1 DEF Started, Gone
<1>4. p[2] > 1
  BY <1>1, JobFacts DEF First
<1>5. ChainOfPipes!Drain(p)
  BY <1>1, <1>2, <1>3, <1>4, DrainedAre, DrainedNext
  DEF ChainOfPipes!Drain, ChainOfPipes!Before, Before, Started, Gone
<1> QED  BY <1>1, <1>5 DEF ChainOfPipes!Next

LEMMA ChainEnds ==
  ASSUME PipesInv, PipesInv', NEW p \in Proc, phase[p] \in {"forked", "execed"},
         Started' = Started, Gone' = Gone \cup {p},
         \/ Drained' = Drained \ {p}
         \/ \E o \in Proc : /\ Before(o) = p /\ phase[o] = "execed" /\ o \notin Drained
                            /\ Drained' = (Drained \ {p}) \cup {o}
  PROVE  ChainOfPipes!Next
<1>1. p \in Started \ Gone
  BY DEF Started, Gone
<1>2. ASSUME NEW o \in Proc, Before(o) = p, phase[o] = "execed", o \notin Drained
      PROVE  o = <<p[1], p[2] + 1>> /\ o \in Started \ (Gone \cup Drained)
  BY <1>2, JobFacts DEF Before, Started, Gone
<1>3. \/ Drained' = Drained \ {p}
      \/ /\ ChainOfPipes!After(p) \in Started \ (Gone \cup Drained)
         /\ Drained' = (Drained \ {p}) \cup {ChainOfPipes!After(p)}
  BY <1>2 DEF ChainOfPipes!After
<1>4. ChainOfPipes!End(p)
  BY <1>1, <1>3, DrainedAre, DrainedNext DEF ChainOfPipes!End, Started, Gone
<1> QED  BY <1>4 DEF ChainOfPipes!Next

-----------------------------------------------------------------------------
(***************************************************************************)
(* The steps of the shell and its children.                                *)
(***************************************************************************)

\* The shell holds the pipe of no command that has been started but the current one.
LEMMA ShellWrites ==
  ASSUME PipesInv, pc # "ended", NEW p \in Proc, phase[p] # "none", Before(p) \in Proc,
         NEW d \in Fd, fd[Shell][d] = WriteEnd(Before(p))
  PROVE  p = Current
<1> DEFINE q == Before(p)
<1>1. Tidy(fd[Shell]) /\ q \in Pipe /\ q[1] = p[1] /\ q[2] = p[2] - 1 /\ p[2] \in Nat
  BY JobFacts, Neighbours DEF PipesInv, BaseInv, ShellInv
<1> HIDE DEF q
<1>2. d > 3 /\ fd[Shell][d] # Closed
  BY <1>1, FdNat, EndsDiffer DEF Tidy, q
<1>3. PICK s \in Slot : d \in {s[1], s[2]}
  BY <1>1, <1>2 DEF Tidy
<1>4. PICK o \in Pipe : Holds(fd[Shell], s, o)
  BY <1>1, <1>2, <1>3 DEF Tidy, IsClosed
<1>5. o = q
  BY <1>3, <1>4, EndsDiffer DEF Holds, q
<1>6. ~Leaky(q)
  <2>1. q[2] + 1 = p[2] /\ Cmds[p[1]][p[2]] = "program"
    BY <1>1, JobFacts
  <2> QED  BY <1>1, <2>1 DEF Leaky
<1>7. CASE AtWork /\ q = <<pipeline, n - 1>> /\ n <= Len(Cmds[pipeline])
  <2>1. n \in Nat
    BY <1>7, JobFacts DEF PipesInv, BaseInv, LaunchInv, AtWork
  <2> QED  BY <1>1, <1>7, <2>1, JobFacts DEF Current
<1>8. CASE pc = "parent" /\ q = Current /\ n < Len(Cmds[pipeline])
  <2>1. n \in Nat /\ p[1] = pipeline /\ p[2] = n + 1
    BY <1>1, <1>8, CurrentIn DEF PipesInv, BaseInv, Current
  <2>2. ~Forked(p[2])
    BY <2>1 DEF Forked
  <2> QED  BY <1>8, <2>1, <2>2 DEF PipesInv, BaseInv, LaunchInv, AtWork
<1> QED  BY <1>4, <1>5, <1>6, <1>7, <1>8 DEF PipesInv, BaseInv, ShellInv

\* Closing in the shell lets at most the current command come to its end of file.
LEMMA ChainShell ==
  ASSUME PipesInv, PipesInv', [Next]_vars, ~pipeline_process,
         ~\E p \in Proc : execvp(p) \/ die(p)
  PROVE  [ChainOfPipes!Next]_(ChainOfPipes!vars)
<1>1. /\ phase' = phase /\ \A p \in Proc : fd'[p] = fd[p]
      /\ \A d \in Fd : fd'[Shell][d] \in {fd[Shell][d], Closed}
  BY SameOrChild
<1>2. Started' = Started /\ Gone' = Gone /\ \A p : Ready(p)' <=> Ready(p)
  BY <1>1 DEF Started, Gone, Ready
<1>3. \A q : NoWriter(q) => NoWriter(q)'
  BY <1>1, EndsDiffer DEF NoWriter, Owner
<1>4. pc = "ended" => fd'[Shell] = fd[Shell]
  <2>1. ASSUME pc = "ended" PROVE fd' = fd
    BY <2>1 DEF Next, Main, Child, esh_sys_fatal_error, Idle, pipeline_pre_process,
       pipeline_process, pipeline_process_Parent, builtin_execute, pipeline_post_process,
       shell_ends, vars
  <2> QED  BY <2>1
<1>5. ASSUME NEW p \in Drained', p \notin Drained PROVE p = Current
  <2>1. p \in Proc /\ Ready(p) /\ Before(p) \in Proc /\ phase[p] # "none"
    BY <1>2, <1>5 DEF Drained, Ready
  <2>2. NoWriter(Before(p))' /\ ~NoWriter(Before(p))
    BY <1>5, <2>1 DEF Drained
  <2>3. PICK d \in Fd : fd[Shell][d] = WriteEnd(Before(p)) /\ fd'[Shell] # fd[Shell]
    BY <1>1, <2>2, EndsDiffer DEF NoWriter, Owner
  <2> QED  BY <1>4, <2>1, <2>3, ShellWrites
<1>6. Drained \subseteq Drained'
  BY <1>2, <1>3 DEF Drained
<1>7. CASE Drained' = Drained
  BY <1>2, <1>7, ChainStutters
<1>8. CASE Drained' # Drained
  <2>1. Current \in Drained' /\ Current \notin Drained /\ Drained' = Drained \cup {Current}
    BY <1>5, <1>6, <1>8
  <2> HIDE DEF Current
  <2>2. PICK p : p = Current
    OBVIOUS
  <2>3. p \in Drained' /\ p \notin Drained /\ Drained' = Drained \cup {p} /\ phase'[p] = phase[p]
    BY <1>1, <2>1, <2>2
  <2> QED  BY <1>2, <2>3, ChainDrains
<1> QED  BY <1>7, <1>8

LEMMA ChainFork ==
  ASSUME PipesInv, PipesInv', pipeline_process
  PROVE  ChainOfPipes!Next
<1> USE DEF PipesInv, BaseInv
<1> DEFINE t == fd[Shell]
           u == fd'[Shell]
<1>1. t \in Table /\ Tidy(t) /\ pc = "cmd"
  BY JobFacts DEF pipeline_process, ShellInv, TypeOK
<1>2. PICK c \in Proc : c = Current
  BY <1>1, Forks
<1>3. /\ pipeline \in Job /\ n \in 1..Len(Cmds[pipeline]) /\ n \in Nat
      /\ c = <<pipeline, n>> /\ c \in Pipe /\ phase[c] = "none" /\ fd'[c] = u
      /\ \A p \in Proc : phase'[p] = IF p = c THEN "forked" ELSE phase[p]
      /\ \A p \in Proc \ {c} : fd'[p] = fd[p]
  BY <1>1, <1>2, Forks, JobFacts DEF Current
<1>4. /\ \A d \in Fd : u[d] \in {t[d], ReadEnd(c), WriteEnd(c)}
      /\ \A d \in Fd : t[d] # Closed => u[d] = t[d]
  <2>1. CASE Piped
    <3>1. u = pipe(t, c) /\ IsClosed(t, pipe_fds(t))
          /\ \A d \in Fd : u[d] \in {t[d], ReadEnd(c), WriteEnd(c)}
      BY <1>1, <1>2, <1>3, <2>1, Forks, PipeTidy DEF Piped
    <3>2. u = [t EXCEPT ![pipe_fds(t)[1]] = ReadEnd(c), ![pipe_fds(t)[2]] = WriteEnd(c)]
      BY <3>1 DEF pipe
    <3> HIDE DEF u, t
    <3>3. \A d \in Fd : t[d] # Closed => u[d] = t[d]
      BY <1>1, <3>1, <3>2 DEF IsClosed, Table
    <3> QED  BY <3>1, <3>3
  <2>2. CASE ~Piped
    BY <1>1, <2>2, Forks
  <2> QED  BY <2>1, <2>2
<1> HIDE DEF t, u
<1>5. fd[c] = NoTable
  BY <1>3 DEF TableInv
<1>6. ASSUME NEW q \in Proc, q # c PROVE NoWriter(q)' <=> NoWriter(q)
  <2>1. \A d \in Fd : u[d] = WriteEnd(q) <=> t[d] = WriteEnd(q)
    BY <1>4, <1>6, EndsDiffer
  <2>2. \A d \in Fd : fd[c][d] # WriteEnd(q)
    BY <1>5, EndsDiffer DEF NoTable
  <2>3. \A o \in Owner : o = Shell \/ o = c \/ (o \in Proc \ {c})
    BY DEF Owner
  <2>4. ASSUME NoWriter(q) PROVE NoWriter(q)'
    <3>1. \A d \in Fd : u[d] # WriteEnd(q)
      BY <2>1, <2>4, JobFacts DEF NoWriter, t
    <3>2. fd'[Shell] = u /\ fd'[c] = u
      BY <1>3 DEF u
    <3>3. \A o \in Proc \ {c} : \A d \in Fd : fd'[o][d] # WriteEnd(q)
      BY <1>3, <2>4, JobFacts DEF NoWriter
    <3> QED  BY <2>3, <3>1, <3>2, <3>3 DEF NoWriter
  <2>5. ASSUME NoWriter(q)' PROVE NoWriter(q)
    BY <1>3, <2>1, <2>2, <2>3, <2>5, JobFacts DEF NoWriter, u, t
  <2> QED  BY <2>4, <2>5
<1>7. Started' = Started \cup {c} /\ Gone' = Gone
  BY <1>3 DEF Started, Gone
<1>8. Drained' = Drained
  <2>1. ASSUME NEW p \in Proc PROVE p \in Drained' <=> p \in Drained
    <3>1. Ready(p)' <=> Ready(p)
      BY <1>3 DEF Ready
    <3>2. CASE Before(p) = c
      <4>1. ~Ready(p)
        <5>1. p[1] = pipeline /\ p[2] = n + 1 /\ ~Forked(p[2])
          BY <1>1, <1>3, <3>2, JobFacts DEF Before, Forked
        <5>2. phase[p] = "none"
          BY <1>1, <5>1 DEF LaunchInv, AtWork
        <5> QED  BY <5>2 DEF Ready
      <4> QED  BY <3>1, <4>1 DEF Drained
    <3>3. CASE Before(p) # c
      BY <1>6, <3>1, <3>3 DEF Drained, Ready
    <3> QED  BY <3>2, <3>3
  <2> QED  BY <2>1 DEF Drained
<1>9. ~First(c) => Before(c) \in Started
  <2>1. ASSUME n # 1 PROVE <<pipeline, n - 1>> \in Started
    <3>1. n - 1 \in 1..Len(Cmds[pipeline]) /\ Forked(n - 1)
      BY <1>3, <2>1, JobFacts DEF Forked
    <3>2. Cmds[pipeline][n - 1] = "program"
      BY <1>1, <3>1 DEF LaunchInv, AtWork
    <3>3. <<pipeline, n - 1>> \in Proc
      BY <1>3, <3>1, <3>2, JobFacts
    <3> QED  BY <1>1, <3>1, <3>3 DEF LaunchInv, AtWork, Started
  <2> QED  BY <1>3, <2>1 DEF First, Before
<1> HIDE DEF PipesInv, BaseInv
<1> QED  BY <1>3, <1>7, <1>8, <1>9, ChainStarts

\* A process that executes its program keeps what it writes to, and closes what it could
\* have written to its own input with.
LEMMA ChainExec ==
  ASSUME PipesInv, PipesInv', NEW p \in Proc, execvp(p)
  PROVE  [ChainOfPipes!Next]_(ChainOfPipes!vars)
<1> USE DEF PipesInv, BaseInv
<1>1. /\ phase[p] = "forked" /\ phase'[p] = "execed" /\ fd'[Shell] = fd[Shell]
      /\ \A r \in Proc : phase'[r] = "none" <=> phase[r] = "none"
      /\ \A r \in Proc \ {p} : phase'[r] = phase[r] /\ fd'[r] = fd[r]
  BY ChildSteps
<1>2. /\ fd'[p][1] = StdOut(p) /\ fd'[p][0] = StdIn(p) /\ 1 \in Fd /\ 0 \in Fd
      /\ \A b \in Fd \ {0, 1} : fd'[p][b] \in {fd[p][b], Closed}
      /\ ~Last(p) => fd[p][firstPipe[p][2]] = WriteEnd(p) /\ firstPipe[p][2] \in Fd
  <2>1. firstPipe[p] \in Fd \X Fd
    BY JobFacts DEF TypeOK
  <2>2. /\ fd'[p][1] = StdOut(p) /\ fd'[p][0] = StdIn(p)
        /\ \A b \in Fd \ {0, 1} : fd'[p][b] \in {fd[p][b], Closed}
        /\ ~Last(p) => fd[p][firstPipe[p][2]] = WriteEnd(p)
    BY ExecTable
  <2> QED  BY <2>1, <2>2, FdNat
<1>3. ASSUME NEW q \in Proc, NoWriter(q) PROVE NoWriter(q)'
  <2>1. \A b \in Fd : fd'[p][b] # WriteEnd(q)
    <3>1. q = p => Last(p)
      BY <1>2, <1>3, JobFacts DEF NoWriter
    <3> QED  BY <1>2, <1>3, <3>1, EndsDiffer, JobFacts DEF NoWriter, StdIn, StdOut
  <2> QED  BY <1>1, <1>3, <2>1 DEF NoWriter, Owner
<1>4. ASSUME NEW o \in Proc, Ready(o), o # p, NoWriter(Before(o))' PROVE NoWriter(Before(o))
  <2>1. Before(o) \in Pipe /\ Before(o) # Before(p) /\ Before(o)[2] + 1 = o[2] /\ Before(o)[1] = o[1]
    BY <1>4, JobFacts DEF Ready, Before
  <2>2. ASSUME NEW b \in Fd, fd[p][b] = WriteEnd(Before(o)) PROVE FALSE
    <3>1. ~Leaky(Before(o))
      BY <2>1, JobFacts DEF Leaky
    <3>2. Before(o) = p
      BY <1>1, <2>1, <2>2, <3>1, ForkedHolds
    <3>3. ~Last(p)
      BY <2>2, <3>2, JobFacts DEF EndsInv
    <3>4. fd'[p][1] = WriteEnd(Before(o))
      BY <1>2, <3>2, <3>3 DEF StdOut
    <3> QED  BY <1>2, <1>4, <3>4, JobFacts DEF NoWriter
  <2> QED  BY <1>1, <1>4, <2>2 DEF NoWriter, Owner
<1>5. Started' = Started /\ Gone' = Gone
  BY <1>1 DEF Started, Gone
<1>6. \A o \in Proc \ {p} : o \in Drained' <=> o \in Drained
  BY <1>1, <1>3, <1>4 DEF Drained, Ready
<1>7. p \notin Drained
  BY <1>1 DEF Drained, Ready
<1> HIDE DEF PipesInv, BaseInv
<1>8. CASE p \in Drained'
  <2>1. Drained' = Drained \cup {p}
    BY <1>6, <1>8 DEF Drained
  <2> QED  BY <1>1, <1>5, <1>7, <1>8, <2>1, ChainDrains
<1>9. CASE p \notin Drained'
  <2>1. Drained' = Drained
    BY <1>6, <1>7, <1>9 DEF Drained
  <2> QED  BY <1>5, <2>1, ChainStutters
<1> QED  BY <1>8, <1>9

\* The end of a process closes what the next command reads, and no other command.
LEMMA ChainDie ==
  ASSUME PipesInv, PipesInv', NEW p \in Proc, die(p)
  PROVE  ChainOfPipes!Next
<1> USE DEF PipesInv, BaseInv
<1>1. /\ phase[p] \in {"forked", "execed"} /\ phase'[p] = "gone" /\ fd'[Shell] = fd[Shell]
      /\ fd'[p] = NoTable
      /\ \A r \in Proc : phase'[r] = "none" <=> phase[r] = "none"
      /\ \A r \in Proc \ {p} : phase'[r] = phase[r] /\ fd'[r] = fd[r]
  BY ChildSteps
<1>2. ASSUME NEW q, NoWriter(q) PROVE NoWriter(q)'
  BY <1>1, <1>2, EndsDiffer DEF NoWriter, Owner, NoTable
<1>3. ASSUME NEW o \in Proc, Ready(o), o # p, NoWriter(Before(o))', ~NoWriter(Before(o))
      PROVE  Before(o) = p
  <2>1. Before(o) \in Pipe /\ Before(o) # Before(p) /\ Before(o)[2] + 1 = o[2] /\ Before(o)[1] = o[1]
    BY <1>3, JobFacts DEF Ready, Before
  <2>2. ~Leaky(Before(o))
    BY <2>1, JobFacts DEF Leaky
  <2>3. PICK b \in Fd : fd[p][b] = WriteEnd(Before(o))
    BY <1>1, <1>3 DEF NoWriter, Owner
  <2>4. CASE phase[p] = "forked"
    BY <2>1, <2>2, <2>3, <2>4, ForkedHolds
  <2>5. CASE phase[p] = "execed"
    BY <2>1, <2>2, <2>3, <2>5, JobFacts DEF EndsInv
  <2> QED  BY <1>1, <2>4, <2>5
<1>4. Started' = Started /\ Gone' = Gone \cup {p}
  BY <1>1 DEF Started, Gone
<1>5. p \notin Drained' /\ Drained \ {p} \subseteq Drained'
  BY <1>1, <1>2 DEF Drained, Ready
<1>6. ASSUME NEW o \in Drained', o \notin Drained
      PROVE  o \in Proc /\ Before(o) = p /\ phase[o] = "execed"
  BY <1>1, <1>3, <1>5, <1>6 DEF Drained, Ready
<1>7. CASE Drained' \subseteq Drained
  <2>1. Drained' = Drained \ {p}
    BY <1>5, <1>7
  <2> HIDE DEF PipesInv, BaseInv
  <2> QED  BY <1>1, <1>4, <2>1, ChainEnds
<1>8. CASE ~(Drained' \subseteq Drained)
  <2>1. PICK o \in Drained' : o \notin Drained
    BY <1>8
  <2>2. \A r \in Drained' : r \notin Drained => r = o
    BY <1>6, <2>1, JobFacts DEF Before
  <2>3. Drained' = (Drained \ {p}) \cup {o}
    BY <1>5, <2>1, <2>2
  <2> HIDE DEF PipesInv, BaseInv
  <2> QED  BY <1>1, <1>4, <1>6, <2>1, <2>3, ChainEnds
<1> QED  BY <1>7, <1>8

LEMMA ChainInit == OpenMax >= 6 /\ Init => ChainOfPipes!Init
<1>1. ASSUME OpenMax >= 6, Init PROVE ChainOfPipes!Init
  <2>1. \A p \in Proc : phase[p] = "none"
    BY <1>1 DEF Init
  <2> QED  BY <2>1 DEF ChainOfPipes!Init, AtEndOfFile
<1> QED  BY <1>1

LEMMA ChainStep ==
  ASSUME PipesInv, PipesInv', [Next]_vars
  PROVE  [ChainOfPipes!Next]_(ChainOfPipes!vars)
<1>1. CASE pipeline_process
  BY <1>1, ChainFork
<1>2. CASE \E p \in Proc : execvp(p) \/ die(p)
  BY <1>2, ChainExec, ChainDie
<1>3. CASE ~pipeline_process /\ ~\E p \in Proc : execvp(p) \/ die(p)
  BY <1>3, ChainShell
<1> QED  BY <1>1, <1>2, <1>3

\* End of file reaches a command only when the one in front of it has ended, one command
\* at a time, also when forks, pipes, files and programs fail.
THEOREM ChainKept ==
  ASSUME EnoughDescriptors
  PROVE  Spec => KeepsChain
<1>1. Spec => []PipesInv
  BY PipesInvariance
<1>2. Init => ChainOfPipes!Init
  BY ChainInit, EnoughIsSix
<1>3. PipesInv /\ PipesInv' /\ [Next]_vars => [ChainOfPipes!Next]_(ChainOfPipes!vars)
  BY ChainStep
<1> QED  BY <1>1, <1>2, <1>3, PTL DEF Spec, KeepsChain, ChainOfPipes!Safety
=============================================================================
