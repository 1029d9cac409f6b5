--------------------------- MODULE Group422_proofs ---------------------------
(***************************************************************************)
(* Proofs about Group422, for int of any width and words of any length:    *)
(* its variables keep their types, binHex writes a positive number in both *)
(* bases, sum adds up, and reverse turns its word and loses no character.  *)
(* (The library's induction theorems cannot be used here; the least        *)
(* counterexample to a set of numbers takes their place.)                  *)
(***************************************************************************)
EXTENDS Group422, NaturalsInduction, WellFoundedInduction, TLAPS

-----------------------------------------------------------------------------
(***************************************************************************)
(* Induction, and functions defined by recursion.                          *)
(***************************************************************************)

\* A set of numbers has a least one; a set with 0, and with every number the next, has all.
LEMMA LeastOf ==
  ASSUME NEW S \in SUBSET Nat, S # {}
  PROVE  \E x \in S : \A y \in S : x <= y
<1>1. PICK x \in S : \A y \in S : <<y, x>> \notin OpToRel(<, Nat)
  BY NatLessThanWellFounded, WFMin
<1>2. \A y \in S : ~(y < x)
  BY <1>1 DEF OpToRel
<1> QED  BY <1>2

LEMMA Induction ==
  ASSUME NEW S, 0 \in S, \A n \in Nat : n \in S => n + 1 \in S
  PROVE  \A n \in Nat : n \in S
<1> SUFFICES ASSUME NEW m \in Nat, m \notin S  PROVE FALSE
  OBVIOUS
<1>1. PICK n \in Nat \ S : \A k \in Nat \ S : n <= k
  BY LeastOf
<1>2. n - 1 \in Nat /\ n - 1 \in S
  BY <1>1
<1> QED  BY <1>1, <1>2

\* What is said of 0 and of each number from the one before defines a function.
Rule == [Nat -> [Int -> Int]]
Begins(g, n, first, F) ==
  /\ g \in [0..n -> Int] /\ g[0] = first
  /\ \A k \in 1..n : g[k] = F[k][g[k - 1]]

LEMMA SameBeginning ==
  ASSUME NEW first \in Int, NEW F \in Rule, NEW m \in Nat, NEW n \in Nat, m <= n
  PROVE  \A g, h : Begins(g, m, first, F) /\ Begins(h, n, first, F) => \A k \in 0..m : g[k] = h[k]
<1> SUFFICES ASSUME NEW g, NEW h, Begins(g, m, first, F), Begins(h, n, first, F)
             PROVE  \A k \in 0..m : g[k] = h[k]
  OBVIOUS
<1> DEFINE S == {k \in Nat : k <= m => g[k] = h[k]}
<1>1. 0 \in S
  BY DEF Begins, Rule
<1>2. ASSUME NEW k \in Nat, k \in S  PROVE k + 1 \in S
  BY <1>2 DEF Begins, Rule
<1> HIDE DEF S
<1>3. \A k \in Nat : k \in S
  BY <1>1, <1>2, Induction
<1> QED  BY <1>3 DEF S

LEMMA Recursion ==
  ASSUME NEW first \in Int, NEW F \in Rule
  PROVE  \E f \in [Nat -> Int] : f[0] = first /\ \A n \in Nat \ {0} : f[n] = F[n][f[n - 1]]
<1> DEFINE S == {n \in Nat : \E g : Begins(g, n, first, F)}
<1> USE DEF Rule
<1>1. 0 \in S
  <2> DEFINE g == [k \in 0..0 |-> first]
  <2>1. Begins(g, 0, first, F)
    BY DEF Begins, Rule
  <2> QED  BY <2>1
<1>2. ASSUME NEW n \in Nat, n \in S  PROVE n + 1 \in S
  <2>1. PICK g : Begins(g, n, first, F)
    BY <1>2
  <2> DEFINE h == [k \in 0..(n + 1) |-> IF k <= n THEN g[k] ELSE F[n + 1][g[n]]]
  <2>2. h \in [0..(n + 1) -> Int]
    <3>1. n \in 0..n /\ g \in [0..n -> Int]
      BY <2>1 DEF Begins, Rule
    <3>2. F[n + 1][g[n]] \in Int
      BY <3>1
    <3>3. \A k \in 0..(n + 1) : k <= n => g[k] \in Int
      BY <3>1
    <3> QED  BY <3>2, <3>3
  <2>3. h[0] = first
    BY <2>1 DEF Begins, Rule
  <2>4. ASSUME NEW k \in 1..(n + 1)  PROVE h[k] = F[k][h[k - 1]]
    <3>1. CASE k <= n
      BY <2>1, <3>1 DEF Begins, Rule
    <3>2. CASE k = n + 1
      BY <2>1, <3>2
    <3> QED  BY <3>1, <3>2
  <2>5. Begins(h, n + 1, first, F)
    BY <2>2, <2>3, <2>4 DEF Begins, Rule
  <2> QED  BY <2>5
<1> HIDE DEF S
<1>3. \A n \in Nat : n \in S
  BY <1>1, <1>2, Induction
<1> DEFINE up(n) == CHOOSE g : Begins(g, n, first, F)
           f == [n \in Nat |-> up(n)[n]]
<1>4. ASSUME NEW n \in Nat  PROVE Begins(up(n), n, first, F)
  BY <1>3 DEF S
<1> HIDE DEF up
<1> HIDE DEF Rule
<1>5. f \in [Nat -> Int] /\ f[0] = first
  BY <1>4 DEF Begins, Rule
<1>6. ASSUME NEW n \in Nat \ {0}  PROVE f[n] = F[n][f[n - 1]]
  <2>1. n - 1 \in Nat /\ n - 1 <= n
    OBVIOUS
  <2>2. up(n - 1)[n - 1] = up(n)[n - 1]
    <3> DEFINE g == up(n - 1)
               h == up(n)
               m == n - 1
    <3>1. Begins(g, m, first, F) /\ Begins(h, n, first, F) /\ m \in Nat /\ n \in Nat /\ m <= n
      BY <1>4, <2>1
    <3> HIDE DEF g, h, m
    <3>2. \A k \in 0..m : g[k] = h[k]
      BY <3>1, SameBeginning
    <3> QED  BY <2>1, <3>2 DEF g, h, m
  <2>3. up(n)[n] = F[n][up(n)[n - 1]]
    BY <1>4 DEF Begins, Rule
  <2> QED  BY <2>1, <2>2, <2>3
<1> QED  BY <1>5, <1>6

-----------------------------------------------------------------------------

(***************************************************************************)
(* Powers, sums and the value of digits.                                   *)
(***************************************************************************)

LEMMA PowersOf ==
  ASSUME NEW b \in Nat \ {0}
  PROVE  /\ Powers(b) \in [Nat -> Int] /\ Powers(b)[0] = 1
         /\ \A n \in Nat : Powers(b)[n + 1] = b * Powers(b)[n]
<1> DEFINE E(p) == p = [k \in Nat |-> IF k = 0 THEN 1 ELSE b * p[k - 1]]
           F == [k \in Nat |-> [x \in Int |-> b * x]]
<1>1. PICK f \in [Nat -> Int] : f[0] = 1 /\ \A n \in Nat \ {0} : f[n] = F[n][f[n - 1]]
  <2>1. F \in Rule /\ 1 \in Int
    BY DEF Rule
  <2> HIDE DEF F
  <2> QED  BY <2>1, Recursion
<1>2. E(f)
  <2>1. \A k \in Nat : f[k] = IF k = 0 THEN 1 ELSE b * f[k - 1]
    <3>1. \A k \in Nat \ {0} : k - 1 \in Nat
      OBVIOUS
    <3> QED  BY <1>1, <3>1
  <2> QED  BY <2>1
<1>3. E(Powers(b))
  BY <1>2 DEF Powers
<1> DEFINE p == Powers(b)
<1> HIDE DEF p
<1>4. p = [k \in Nat |-> IF k = 0 THEN 1 ELSE b * p[k - 1]]
  BY <1>3 DEF p
<1>5. p[0] = 1 /\ \A n \in Nat : p[n + 1] = b * p[n]
  <2>1. \A n \in Nat : n + 1 \in Nat /\ n + 1 # 0 /\ (n + 1) - 1 = n
    OBVIOUS
  <2> QED  BY <1>4, <2>1
<1> DEFINE S == {n \in Nat : p[n] \in Int}
<1>6. \A n \in Nat : n \in S
  <2>1. 0 \in S /\ \A n \in Nat : n \in S => n + 1 \in S
    BY <1>5
  <2> HIDE DEF S
  <2> QED  BY <2>1, Induction
<1> QED  BY <1>4, <1>5, <1>6 DEF p

LEMMA PowersGrow ==
  ASSUME NEW b \in Nat \ {0}
  PROVE  /\ \A n \in Nat : Powers(b)[n] \in Nat \ {0}
         /\ \A m, n \in Nat : m <= n => Powers(b)[m] <= Powers(b)[n]
<1> DEFINE p == Powers(b)
<1>1. p[0] = 1 /\ \A n \in Nat : p[n + 1] = b * p[n]
  BY PowersOf
<1> HIDE DEF p
<1>2. \A n \in Nat : p[n] \in Nat \ {0}
  <2> DEFINE S == {n \in Nat : p[n] \in Nat \ {0}}
  <2>1. 0 \in S
    BY <1>1
  <2>2. ASSUME NEW n \in Nat, n \in S  PROVE n + 1 \in S
    <3>1. p[n + 1] = b * p[n] /\ p[n] \in Nat \ {0}
      BY <1>1, <2>2
    <3>2. b * p[n] \in Nat \ {0}
      BY <3>1
    <3> QED  BY <3>1, <3>2
  <2> HIDE DEF S
  <2>3. \A n \in Nat : n \in S
    BY <2>1, <2>2, Induction
  <2> QED  BY <2>3 DEF S
<1>3. \A n \in Nat : p[n] <= p[n + 1]
  <2> SUFFICES ASSUME NEW n \in Nat  PROVE p[n] <= p[n + 1]
    OBVIOUS
  <2>1. p[n + 1] = b * p[n] /\ p[n] \in Nat \ {0}
    BY <1>1, <1>2
  <2>2. p[n] <= b * p[n]
    BY <2>1
  <2> QED  BY <2>1, <2>2
<1>4. ASSUME NEW m \in Nat, NEW n \in Nat, m <= n  PROVE p[m] <= p[n]
  <2> DEFINE S == {k \in Nat : p[m] <= p[m + k]}
  <2>1. 0 \in S
    BY <1>2
  <2>2. ASSUME NEW k \in Nat, k \in S  PROVE k + 1 \in S
    <3>1. p[m] <= p[m + k] /\ p[m + k] <= p[(m + k) + 1] /\ (m + k) + 1 = m + (k + 1)
      BY <1>3, <2>2
    <3>2. p[m] \in Nat /\ p[m + k] \in Nat /\ p[m + (k + 1)] \in Nat
      BY <1>2
    <3> QED  BY <3>1, <3>2
  <2> HIDE DEF S
  <2>3. \A k \in Nat : k \in S
    BY <2>1, <2>2, Induction
  <2>4. n - m \in Nat /\ m + (n - m) = n
    BY <1>4
  <2> QED  BY <2>3, <2>4 DEF S
<1> QED  BY <1>2, <1>4 DEF p

\* A number is as long in base 2 as in base 16, or longer.
LEMMA TwoBelowSixteen == \A n \in Nat : Powers(2)[n] <= Powers(16)[n]
<1> DEFINE p == Powers(2)
           q == Powers(16)
           S == {n \in Nat : p[n] <= q[n]}
<1>1. /\ p[0] = 1 /\ \A n \in Nat : p[n + 1] = 2 * p[n] /\ p[n] \in Nat
      /\ q[0] = 1 /\ \A n \in Nat : q[n + 1] = 16 * q[n] /\ q[n] \in Nat
  <2>1. 2 \in Nat \ {0} /\ 16 \in Nat \ {0}
    OBVIOUS
  <2>2. p[0] = 1 /\ \A n \in Nat : p[n + 1] = 2 * p[n] /\ p[n] \in Nat
    BY <2>1, PowersOf, PowersGrow
  <2>3. q[0] = 1 /\ \A n \in Nat : q[n + 1] = 16 * q[n] /\ q[n] \in Nat
    BY <2>1, PowersOf, PowersGrow
  <2> QED  BY <2>2, <2>3
<1> HIDE DEF p, q
<1>2. 0 \in S /\ \A n \in Nat : n \in S => n + 1 \in S
  BY <1>1
<1> HIDE DEF S
<1>3. \A n \in Nat : n \in S
  BY <1>2, Induction
<1> QED  BY <1>3 DEF S, p, q

LEMMA SumsOf == \A n \in Nat : Sums[n] \in Nat /\ 2 * Sums[n] = n * (n + 1)
<1> DEFINE F == [k \in Nat |-> [x \in Int |-> x + k]]
<1>1. PICK f \in [Nat -> Int] : f[0] = 0 /\ \A n \in Nat \ {0} : f[n] = F[n][f[n - 1]]
  <2>1. F \in Rule /\ 0 \in Int
    BY DEF Rule
  <2> HIDE DEF F
  <2> QED  BY <2>1, Recursion
<1>2. f = [n \in Nat |-> IF n = 0 THEN 0 ELSE f[n - 1] + n]
  <2>1. \A k \in Nat : f[k] = IF k = 0 THEN 0 ELSE f[k - 1] + k
    <3>1. \A k \in Nat \ {0} : k - 1 \in Nat
      OBVIOUS
    <3> QED  BY <1>1, <3>1
  <2> QED  BY <2>1
<1>3. Sums = [n \in Nat |-> IF n = 0 THEN 0 ELSE Sums[n - 1] + n]
  BY <1>2 DEF Sums
<1> DEFINE S == {n \in Nat : Sums[n] \in Nat /\ 2 * Sums[n] = n * (n + 1)}
<1>4. 0 \in S
  BY <1>3
<1>5. ASSUME NEW n \in Nat, n \in S  PROVE n + 1 \in S
  <2>1. Sums[n + 1] = Sums[n] + (n + 1)
    <3>1. n + 1 \in Nat /\ n + 1 # 0 /\ (n + 1) - 1 = n
      OBVIOUS
    <3> QED  BY <1>3, <3>1
  <2>2. Sums[n] \in Nat /\ 2 * Sums[n] = n * (n + 1)
    BY <1>5
  <2>3. (n + 1) * ((n + 1) + 1) = n * (n + 1) + 2 * (n + 1)
    OBVIOUS
  <2> QED  BY <2>1, <2>2, <2>3
<1> HIDE DEF S
<1>6. \A n \in Nat : n \in S
  BY <1>4, <1>5, Induction
<1> QED  BY <1>6 DEF S

LEMMA WorthOf ==
  ASSUME NEW b \in Nat \ {0}, NEW ds \in Seq(Nat)
  PROVE  /\ Worth(ds, b)[0] = 0
         /\ \A k \in 0..(Len(ds) - 1) :
              Worth(ds, b)[k + 1] = Worth(ds, b)[k] + ds[Len(ds) - k] * Powers(b)[k]
         /\ \A k \in 0..Len(ds) : Worth(ds, b)[k] \in Nat
<1> DEFINE L == Len(ds)
           p == Powers(b)
           at(k) == ds[L + 1 - k] * p[k - 1]
           F == [k \in Nat |-> [x \in Int |-> IF k \in 1..L THEN x + at(k) ELSE 0]]
           E(v) == v = [k \in 0..L |-> IF k = 0 THEN 0 ELSE v[k - 1] + at(k)]
<1>1. /\ L \in Nat /\ \A k \in 1..L : ds[k] \in Nat
      /\ \A n \in Nat : p[n] \in Nat
  BY PowersGrow
<1> HIDE DEF p, L
<1>2. \A k \in 1..L : at(k) \in Nat
  <2> SUFFICES ASSUME NEW k \in 1..L  PROVE at(k) \in Nat
    OBVIOUS
  <2>1. ds[L + 1 - k] \in Nat /\ p[k - 1] \in Nat
    BY <1>1
  <2> QED  BY <2>1
<1> HIDE DEF at
<1>3. PICK f \in [Nat -> Int] : f[0] = 0 /\ \A n \in Nat \ {0} : f[n] = F[n][f[n - 1]]
  <2>1. F \in Rule /\ 0 \in Int
    BY <1>2 DEF Rule
  <2> HIDE DEF F
  <2> QED  BY <2>1, Recursion
<1> DEFINE g == [k \in 0..L |-> f[k]]
<1>4. E(g)
  <2>1. \A k \in 1..L : f[k] = f[k - 1] + at(k)
    <3>1. \A k \in 1..L : k \in Nat \ {0} /\ k - 1 \in Nat
      BY <1>1
    <3> QED  BY <1>3, <3>1
  <2>2. \A k \in 0..L : f[k] = IF k = 0 THEN 0 ELSE g[k - 1] + at(k)
    BY <1>1, <1>3, <2>1
  <2> QED  BY <2>2
<1>5. E(Worth(ds, b))
  BY <1>4 DEF Worth, at, p, L
<1> DEFINE w == Worth(ds, b)
<1> HIDE DEF w
<1>6. w[0] = 0 /\ \A k \in 0..(L - 1) : w[k + 1] = w[k] + at(k + 1)
  <2>1. w = [k \in 0..L |-> IF k = 0 THEN 0 ELSE w[k - 1] + at(k)]
    BY <1>5 DEF w
  <2>2. \A k \in 0..(L - 1) : k + 1 \in 0..L /\ k + 1 # 0 /\ (k + 1) - 1 = k
    BY <1>1
  <2>3. 0 \in 0..L
    BY <1>1
  <2> QED  BY <2>1, <2>2, <2>3
<1>7. \A k \in 0..(L - 1) : w[k + 1] = w[k] + ds[L - k] * p[k]
  <2>1. \A k \in 0..(L - 1) : at(k + 1) = ds[L - k] * p[k]
    <3>1. \A k \in 0..(L - 1) : L + 1 - (k + 1) = L - k /\ (k + 1) - 1 = k
      BY <1>1
    <3> QED  BY <3>1 DEF at
  <2> QED  BY <1>6, <2>1
<1> DEFINE S == {k \in Nat : k <= L => w[k] \in Nat}
<1>8. \A k \in Nat : k \in S
  <2>1. 0 \in S
    BY <1>6
  <2>2. ASSUME NEW k \in Nat, k \in S  PROVE k + 1 \in S
    <3>1. k + 1 <= L => k + 1 \in 1..L /\ k \in 0..(L - 1) /\ k <= L
      BY <1>1
    <3> QED  BY <1>2, <1>6, <2>2, <3>1
  <2> HIDE DEF S
  <2> QED  BY <2>1, <2>2, Induction
<1>9. \A k \in 0..L : w[k] \in Nat
  BY <1>1, <1>8
<1> QED  BY <1>6, <1>7, <1>9 DEF w, L, p

LEMMA ValueType ==
  ASSUME NEW b \in Nat \ {0}, NEW ds \in Seq(Nat)
  PROVE  Value(ds, b) \in Nat
<1>1. Len(ds) \in 0..Len(ds)
  OBVIOUS
<1> QED  BY <1>1, WorthOf DEF Value

LEMMA ValueOfNone ==
  ASSUME NEW b \in Nat \ {0}
  PROVE  Value(<<>>, b) = 0
<1>1. <<>> \in Seq(Nat) /\ Len(<<>>) = 0
  OBVIOUS
<1> QED  BY <1>1, WorthOf DEF Value

\* A further digit, in front of the others when they are printed, is worth the next power.
LEMMA ValueOfNext ==
  ASSUME NEW b \in Nat \ {0}, NEW a \in Seq(Nat), NEW d \in Nat
  PROVE  Value(Reverse(Append(a, d)), b) = Value(Reverse(a), b) + d * Powers(b)[Len(a)]
<1> DEFINE L == Len(a)
           r == Reverse(a)
           s == Reverse(Append(a, d))
           v == Worth(r, b)
           w == Worth(s, b)
           p == Powers(b)
<1>1. L \in Nat /\ \A k \in 1..L : a[k] \in Nat
  OBVIOUS
<1>2. r \in Seq(Nat) /\ Len(r) = L /\ \A k \in 0..(L - 1) : r[L - k] = a[k + 1]
  BY DEF Reverse
<1>3. s \in Seq(Nat) /\ Len(s) = L + 1 /\ s[1] = d /\ \A k \in 0..(L - 1) : s[(L + 1) - k] = a[k + 1]
  BY DEF Reverse
<1> HIDE DEF L, r, s
<1>4. v[0] = 0 /\ \A k \in 0..(L - 1) : v[k + 1] = v[k] + a[k + 1] * p[k]
  BY <1>2, WorthOf
<1>5. w[0] = 0 /\ w[L + 1] = w[L] + d * p[L] /\ \A k \in 0..(L - 1) : w[k + 1] = w[k] + a[k + 1] * p[k]
  <2>1. w[0] = 0 /\ \A k \in 0..L : w[k + 1] = w[k] + s[(L + 1) - k] * p[k]
    <3>1. w[0] = 0 /\ \A k \in 0..(Len(s) - 1) : w[k + 1] = w[k] + s[Len(s) - k] * p[k]
      BY <1>3, WorthOf
    <3>2. Len(s) = L + 1 /\ (L + 1) - 1 = L
      BY <1>1, <1>3
    <3> QED  BY <3>1, <3>2
  <2>2. L \in 0..L /\ (L + 1) - L = 1 /\ \A k \in 0..(L - 1) : k \in 0..L
    BY <1>1
  <2> QED  BY <1>3, <2>1, <2>2
<1> HIDE DEF v, w, p
<1> DEFINE S == {k \in Nat : k <= L => v[k] = w[k]}
<1>6. \A k \in Nat : k \in S
  <2>1. 0 \in S
    BY <1>4, <1>5
  <2>2. ASSUME NEW k \in Nat, k \in S  PROVE k + 1 \in S
    <3>1. k + 1 <= L => k \in 0..(L - 1) /\ k <= L
      BY <1>1
    <3> QED  BY <1>4, <1>5, <2>2, <3>1
  <2> HIDE DEF S
  <2> QED  BY <2>1, <2>2, Induction
<1>7. v[L] = w[L]
  BY <1>1, <1>6
<1> QED  BY <1>2, <1>3, <1>5, <1>7 DEF Value, v, w, p, L, r, s

-----------------------------------------------------------------------------
\* int: as many positive numbers as negative ones, beside 0 and the least.
LEMMA IntRange ==
  /\ MaxInt \in Nat \ {0} /\ CInt = (-MaxInt - 1)..MaxInt
  /\ MaxInt < Powers(2)[Width - 1] /\ Width \in Nat /\ Width - 1 \in Nat
<1>1. Width \in Nat /\ Width > 1 /\ Width - 1 \in Nat /\ 1 <= Width - 1 /\ 1 \in Nat /\ 0 \in Nat
      /\ 0 + 1 = 1
  BY Group422Assumption
<1>2. 2 \in Nat \ {0}
  OBVIOUS
<1>3. Powers(2)[0] = 1 /\ Powers(2)[0 + 1] = 2 * Powers(2)[0]
  BY <1>1, <1>2, PowersOf
<1>4. Powers(2)[1] <= Powers(2)[Width - 1] /\ Powers(2)[Width - 1] \in Nat
  BY <1>1, <1>2, PowersGrow
<1> DEFINE P == Powers(2)[Width - 1]
<1> HIDE DEF P
<1>5. 2 <= P /\ P \in Nat
  BY <1>1, <1>3, <1>4 DEF P
<1>6. MaxInt = P - 1
  BY DEF MaxInt, P
<1>7. MaxInt \in Nat \ {0} /\ MaxInt < P
  BY <1>5, <1>6
<1> QED  BY <1>1, <1>7 DEF CInt, P

LEMMA Wraps ==
  ASSUME NEW x \in Int
  PROVE  wrap(x) \in CInt /\ (x \in CInt => wrap(x) = x)
<1> DEFINE m == 2 * (MaxInt + 1)
           y == x + MaxInt + 1
<1>1. MaxInt \in Nat /\ m \in Nat \ {0} /\ y \in Int
  BY IntRange
<1>2. (y % m) \in 0..(m - 1)
  <2> HIDE DEF m, y
  <2> QED  BY <1>1
<1>3. ASSUME x \in CInt  PROVE y % m = y
  <2>1. y \in 0..(m - 1)
    BY <1>1, <1>3, IntRange
  <2> HIDE DEF m, y
  <2> QED  BY <1>1, <2>1
<1> HIDE DEF m, y
<1>4. wrap(x) = (y % m) - MaxInt - 1
  BY DEF wrap, m, y
<1>5. wrap(x) \in CInt
  <2>1. (y % m) \in Int /\ 0 <= y % m /\ y % m <= m - 1 /\ m = 2 * (MaxInt + 1)
    BY <1>1, <1>2 DEF m
  <2> DEFINE z == y % m
  <2> HIDE DEF z
  <2>2. z \in Int /\ 0 <= z /\ z <= m - 1 /\ m = 2 * (MaxInt + 1) /\ wrap(x) = z - MaxInt - 1
    BY <1>4, <2>1 DEF z
  <2> QED  BY <1>1, <2>2, IntRange
<1>6. x \in CInt => wrap(x) = x
  <2> SUFFICES ASSUME x \in CInt  PROVE wrap(x) = x
    OBVIOUS
  <2>1. wrap(x) = y - MaxInt - 1 /\ y = x + MaxInt + 1
    BY <1>3, <1>4 DEF y
  <2> QED  BY <1>1, <2>1
<1> QED  BY <1>5, <1>6

\* Where n * (n + 1) fits, gauss is the sum of the numbers up to n.
LEMMA GaussIsSum ==
  ASSUME NEW n \in Nat, n * (n + 1) <= MaxInt
  PROVE  gauss(n) = Sums[n]
<1>1. MaxInt \in Nat \ {0} /\ n * (n + 1) \in Nat /\ n <= n * (n + 1)
  BY IntRange
<1>2. n + 1 \in CInt
  <2>1. n + 1 <= MaxInt
    <3>1. CASE n = 0
      BY <1>1, <3>1
    <3>2. CASE n # 0
      <4>1. n + 1 <= n * (n + 1)
        BY <3>2
      <4> QED  BY <1>1, <4>1
    <3> QED  BY <3>1, <3>2
  <2> QED  BY <1>1, <2>1, IntRange
<1>3. wrap(n + 1) = n + 1
  BY <1>2, Wraps
<1>4. n * (n + 1) \in CInt
  BY <1>1, IntRange
<1>5. wrap(n * (n + 1)) = n * (n + 1)
  BY <1>1, <1>4, Wraps
<1>6. gauss(n) = (n * (n + 1)) \div 2
  BY <1>1, <1>3, <1>5 DEF gauss, half
<1>7. Sums[n] \in Nat /\ 2 * Sums[n] = n * (n + 1)
  BY SumsOf
<1> QED  BY <1>6, <1>7

-----------------------------------------------------------------------------
(***************************************************************************)
(* The word that reverse turns.                                            *)
(***************************************************************************)

LEMMA NamesByRank ==
  /\ Len(Names) = 5
  /\ Names[1] = "cd" /\ Names[2] = "convertDegrees" /\ Names[3] = "sum"
  /\ Names[4] = "reverse" /\ Names[5] = "binHex"
BY DEF Names

LEMMA Halves ==
  ASSUME NEW L \in Nat
  PROVE  /\ L \div 2 \in Nat /\ 2 * (L \div 2) <= L /\ L <= 2 * (L \div 2) + 1
         /\ 0 \in 0..(L \div 2)
OBVIOUS

\* A command's word is a sequence of characters.
LEMMA TypedWords ==
  ASSUME NEW c \in Commands
  PROVE  c.word \in Seq(Char)
<1>1. /\ <<>> \in Seq(Char) /\ <<"digit">> \in Seq(Char) /\ <<"letter">> \in Seq(Char)
      /\ Word \subseteq Seq(Char)
  BY Group422Assumption DEF Word, BoundedSeq, SeqOf, Char
<1> QED  BY <1>1 DEF Commands, Typed

LEMMA ReversalInit == Init => ReversalInv
<1> SUFFICES ASSUME Init  PROVE ReversalInv
  OBVIOUS
<1>1. cmd.word \in Seq(Char) /\ i = 0 /\ word = cmd.word
  BY TypedWords DEF Init
<1>2. Len(cmd.word) \in Nat /\ DOMAIN cmd.word = 1..Len(cmd.word)
  BY <1>1
<1>3. \A k \in DOMAIN cmd.word : ~Swapped(k)
  BY <1>1, <1>2 DEF Swapped
<1>4. cmd.word = [k \in DOMAIN cmd.word |-> cmd.word[k]]
  BY <1>1
<1>5. i \in 0..(Len(cmd.word) \div 2)
  BY <1>1, <1>2, Halves
<1>6. TurnedInv
  BY <1>1, <1>3, <1>4, <1>5 DEF TurnedInv
<1>7. OfferInv
  BY NamesByRank DEF Init, OfferInv
<1> QED  BY <1>6, <1>7 DEF ReversalInv

\* A turn of the loop brings the next two characters to their places.
LEMMA SwapsTwo ==
  ASSUME TurnedInv, swap
  PROVE  TurnedInv'
<1> DEFINE L == Len(cmd.word)
           H == L \div 2
           W == cmd.word
           At(k, m) == W[IF k <= m \/ k > L - m THEN L + 1 - k ELSE k]
<1>1. /\ W \in Seq(Char) /\ L \in Nat /\ DOMAIN W = 1..L /\ i \in Nat
      /\ H \in Nat /\ 2 * H <= L
  <2>1. W \in Seq(Char) /\ L \in Nat /\ DOMAIN W = 1..L
    BY DEF TurnedInv
  <2>2. H \in Nat /\ 2 * H <= L
    BY <2>1, Halves
  <2>3. i \in 0..H
    BY DEF TurnedInv
  <2> HIDE DEF H
  <2> QED  BY <2>1, <2>2, <2>3
<1>2. word = [k \in 1..L |-> At(k, i)]
  BY <1>1 DEF TurnedInv, Swapped, Mirror
<1>3. Len(word) = L
  BY <1>1, <1>2
<1>4. i < H /\ UNCHANGED cmd /\ i' = i + 1
  BY <1>3 DEF swap, swaps
<1>5. word' = [word EXCEPT ![i + 1] = word[L - i], ![L - i] = word[i + 1]]
  BY <1>3 DEF swap
<1> HIDE DEF L, W, H
<1>6. /\ i + 1 \in 1..L /\ L - i \in 1..L /\ i + 1 < L - i
      /\ ~(i + 1 <= i) /\ ~(i + 1 > L - i) /\ ~(L - i <= i) /\ ~(L - i > L - i)
  BY <1>1, <1>4
<1>7. word[L - i] = W[L - i] /\ word[i + 1] = W[i + 1]
  BY <1>2, <1>6
<1> HIDE DEF At
<1>8. ASSUME NEW k \in 1..L  PROVE word'[k] = At(k, i + 1)
  <2>1. CASE k = i + 1
    <3>1. word'[k] = W[L - i] /\ k <= i + 1 /\ L + 1 - k = L - i
      BY <1>1, <1>2, <1>5, <1>6, <1>7, <2>1
    <3> QED  BY <3>1 DEF At
  <2>2. CASE k = L - i
    <3>1. word'[k] = W[i + 1] /\ k > L - (i + 1) /\ L + 1 - k = i + 1
      BY <1>1, <1>2, <1>5, <1>6, <1>7, <2>2
    <3> QED  BY <3>1 DEF At
  <2>3. CASE k # i + 1 /\ k # L - i
    <3>1. word'[k] = At(k, i)
      BY <1>2, <1>5, <2>3
    <3>2. (k <= i \/ k > L - i) <=> (k <= i + 1 \/ k > L - (i + 1))
      BY <1>1, <2>3
    <3> QED  BY <3>1, <3>2 DEF At
  <2> QED  BY <2>1, <2>2, <2>3
<1>9. word' = [k \in 1..L |-> At(k, i + 1)]
  BY <1>2, <1>5, <1>8
<1>10. i' \in 0..H
  BY <1>1, <1>4
<1> QED  BY <1>1, <1>4, <1>9, <1>10 DEF TurnedInv, Swapped, Mirror, At, L, W, H

\* The others let the word alone.
LEMMA WordKept ==
  ASSUME [Next]_vars, ~swap
  PROVE  UNCHANGED <<cmd, word, i>>
BY DEF Next, vars, reversal, not_mine, missing_argument, chdir_builtin, converter_builtin,
   summation_builtin, reverseString_builtin, swap_End, binHex_builtin, digit, digits_End, Done

LEMMA TurnedStep ==
  ASSUME TurnedInv, [Next]_vars
  PROVE  TurnedInv'
<1>1. CASE swap
  BY <1>1, SwapsTwo
<1>2. CASE ~swap
  BY <1>2, WordKept DEF TurnedInv, Swapped, Mirror
<1> QED  BY <1>1, <1>2

LEMMA OfferStep ==
  ASSUME TurnedInv, OfferInv, [Next]_vars
  PROVE  OfferInv'
<1> USE NamesByRank
<1>1. CASE swap
  <2>1. /\ UNCHANGED <<cmd, rank, pc, printed>> /\ pc = "swap"
    BY <1>1 DEF swap
  <2>2. rank = 4 /\ cmd.name = "reverse"
    BY <2>1 DEF OfferInv
  <2> QED  BY <2>1, <2>2 DEF OfferInv
<1>2. CASE swap_End
  <2>1. /\ pc = "swap" /\ i >= Len(word) \div 2 /\ UNCHANGED <<cmd, word, i>>
        /\ \/ /\ pc' = "offer" /\ rank' = rank + 1
              /\ Plain(word) => printed' = Append(printed, word)
           \/ pc' = "crashed" /\ UNCHANGED <<rank, printed>>
    BY <1>2 DEF swap_End, swaps, taken, prints, reversal
  <2>2. rank = 4 /\ cmd.name = "reverse" /\ printed = <<>>
    BY <2>1 DEF OfferInv
  <2>3. i = Len(cmd.word) \div 2
    <3> DEFINE H == Len(cmd.word) \div 2
    <3>1. Len(cmd.word) \in Nat /\ Len(word) = Len(cmd.word)
      BY DEF TurnedInv
    <3>2. H \in Nat /\ i \in 0..H /\ i >= H
      BY <2>1, <3>1, Halves DEF TurnedInv
    <3> HIDE DEF H
    <3>3. i = H
      BY <3>2
    <3> QED  BY <3>3 DEF H
  <2>4. CASE pc' = "crashed"
    BY <2>1, <2>2, <2>4 DEF OfferInv
  <2>5. CASE pc' = "offer"
    <3>1. Plain(word) => printed' = <<word>>
      BY <2>1, <2>2, <2>5
    <3>2. HasReversed'
      BY <2>1, <2>3, <3>1 DEF HasReversed, Plain
    <3> QED  BY <2>1, <2>2, <2>5, <3>2 DEF OfferInv
  <2> QED  BY <2>1, <2>4, <2>5
<1>3. CASE ~(swap \/ swap_End)
  <2>1. UNCHANGED <<cmd, word, i>>
    BY <1>3, WordKept
  <2>2. CASE cmd.name # "reverse"
    <3>1. /\ rank' \in 1..(Len(Names) + 1) /\ pc' \in {"offer", "digits", "swap", "crashed"}
          /\ pc' = "digits" => rank' = 5 /\ cmd.name = "binHex"
          /\ pc' # "swap"
      <4>0. /\ rank \in 1..6 /\ pc \in {"offer", "digits", "crashed"}
            /\ taken /\ rank <= 5 => rank' \in 1..6 /\ pc' = "offer"
        BY <2>2 DEF OfferInv, taken
      <4>1. CASE not_mine \/ Done \/ UNCHANGED vars
        BY <2>2, <4>1 DEF OfferInv, not_mine, Done, vars
      <4>2. CASE missing_argument \/ chdir_builtin \/ converter_builtin \/ summation_builtin
        <5>1. rank <= 5
          BY <4>2 DEF missing_argument, chdir_builtin, converter_builtin, summation_builtin,
             Offered, With
        <5>2. taken \/ (pc' = "crashed" /\ rank' = rank)
          BY <4>2 DEF missing_argument, chdir_builtin, converter_builtin, summation_builtin
        <5> QED  BY <4>0, <5>1, <5>2
      <4>3. CASE reverseString_builtin
        BY <2>2, <4>3 DEF reverseString_builtin, Offered, With
      <4>4. CASE binHex_builtin
        <5>1. rank <= 5 /\ Names[rank] = "binHex" /\ cmd.name = "binHex"
          BY <4>4 DEF binHex_builtin, Offered, With
        <5>2. taken \/ (pc' = "digits" /\ rank' = rank)
          BY <4>4 DEF binHex_builtin, enters
        <5>3. rank = 5
          BY <4>0, <5>1
        <5> QED  BY <4>0, <5>1, <5>2, <5>3
      <4>5. CASE digit \/ digits_End
        <5>1. pc = "digits" /\ cmd.name = "binHex" /\ rank = 5
          BY <4>5 DEF OfferInv, digit, digits_End
        <5>2. taken \/ (pc' = pc /\ rank' = rank)
          BY <4>5 DEF digit, digits_End
        <5> QED  BY <4>0, <5>1, <5>2
      <4> QED  BY <1>3, <4>1, <4>2, <4>3, <4>4, <4>5 DEF Next
    <3> QED  BY <2>1, <2>2, <3>1 DEF OfferInv
  <2>3. CASE cmd.name = "reverse" /\ not_mine
    <3>1. rank # 4 /\ rank \in 1..5 /\ rank' = rank + 1 /\ pc = "offer" /\ UNCHANGED <<pc, printed>>
      BY <2>3 DEF OfferInv, not_mine
    <3>2. rank > 4 /\ cmd.argc > 0 => HasReversed
      BY <2>3 DEF OfferInv
    <3>3. HasReversed => HasReversed'
      BY <2>1, <3>1 DEF HasReversed, Plain
    <3>4. rank' > 4 /\ cmd'.argc > 0 => HasReversed'
      BY <2>1, <3>1, <3>2, <3>3
    <3>5. rank' \in 1..6 /\ (rank' <= 4 => rank <= 4)
      BY <3>1
    <3> QED  BY <2>1, <2>3, <3>1, <3>4, <3>5 DEF OfferInv
  <2>4. CASE cmd.name = "reverse" /\ missing_argument
    <3>1. /\ cmd.argc = 0 /\ rank = 4 /\ UNCHANGED printed
          /\ (rank' = rank /\ pc' = "crashed") \/ (rank' = rank + 1 /\ pc' = "offer")
      BY <2>4 DEF OfferInv, missing_argument, taken, Offered
    <3> QED  BY <2>1, <3>1 DEF OfferInv
  <2>5. CASE cmd.name = "reverse" /\ reverseString_builtin
    <3>1. rank = 4 /\ pc' = "swap" /\ UNCHANGED <<rank, printed>>
      BY <2>5 DEF OfferInv, reverseString_builtin, enters, With, Offered
    <3> QED  BY <2>1, <2>5, <3>1 DEF OfferInv
  <2>6. CASE Done \/ UNCHANGED vars
    BY <2>6 DEF OfferInv, HasReversed, Plain, Done, vars, reversal
  <2>7. cmd.name = "reverse" => ~(chdir_builtin \/ converter_builtin \/ summation_builtin
                                  \/ binHex_builtin \/ digit \/ digits_End)
    BY DEF OfferInv, chdir_builtin, converter_builtin, summation_builtin, binHex_builtin,
       digit, digits_End, With, Offered
  <2> QED  BY <1>3, <2>2, <2>3, <2>4, <2>5, <2>6, <2>7 DEF Next
<1> QED  BY <1>1, <1>2, <1>3

-----------------------------------------------------------------------------
(***************************************************************************)
(* The types, and the results of sum and binHex.                           *)
(***************************************************************************)

LEMMA TypedFields ==
  ASSUME NEW c \in Commands
  PROVE  /\ c.argc \in 0..2 /\ c.no1 \in Int /\ c.dir \in Dir
         /\ c.name = "sum" => c.no1 \in CInt /\ c.no2 \in CInt
         /\ Len(c.word) \in Nat /\ (Len(c.word) <= MaxWord \/ Len(c.word) <= 1)
<1>1. /\ Len(<<>>) = 0 /\ Len(<<"digit">>) = 1 /\ Len(<<"letter">>) = 1
      /\ \A w \in Word : Len(w) \in Nat /\ Len(w) <= MaxWord
  BY Group422Assumption DEF Word, BoundedSeq, SeqOf, Char
<1>2. CInt \subseteq Int /\ MaxInt \in Nat
  BY IntRange
<1> HIDE DEF CInt, MaxInt, Word, Dir
<1>3. "~" \in Dir
  BY DEF Dir
<1>4. c.argc \in 0..2 /\ c.dir \in Dir
  BY <1>3 DEF Commands, Typed
<1>5. c.no1 \in Int
  <2>1. c.no1 \in CInt \/ c.no1 = 0 \/ c.no1 \in 0..(4 * (MaxInt + 1))
    BY DEF Commands, Typed
  <2>2. CASE c.no1 \in CInt
    BY <1>2, <2>2
  <2>3. CASE c.no1 = 0 \/ c.no1 \in 0..(4 * (MaxInt + 1))
    BY <1>2, <2>3
  <2> QED  BY <2>1, <2>2, <2>3
<1>6. c.name = "sum" => c.no1 \in CInt /\ c.no2 \in CInt
  BY DEF Commands, Typed
<1>7. c.word = <<>> \/ c.word = <<"digit">> \/ c.word = <<"letter">> \/ c.word \in Word
  BY DEF Commands, Typed
<1>8. Len(c.word) \in Nat /\ (Len(c.word) <= MaxWord \/ Len(c.word) <= 1)
  <2>1. CASE c.word \in Word
    BY <1>1, <2>1
  <2>2. CASE c.word \notin Word
    <3>1. Len(c.word) = 0 \/ Len(c.word) = 1
      BY <1>1, <1>7, <2>2, Zenon
    <3>2. CASE Len(c.word) = 0
      BY <3>2
    <3>3. CASE Len(c.word) = 1
      BY <3>3
    <3> QED  BY <3>1, <3>2, <3>3
  <2> QED  BY <2>1, <2>2
<1> QED  BY <1>4, <1>5, <1>6, <1>8

\* What is changed by the steps that do not print or convert.
LEMMA CommandKept ==
  ASSUME [Next]_vars
  PROVE  cmd' = cmd
BY DEF Next, vars, not_mine, missing_argument, chdir_builtin, converter_builtin,
   summation_builtin, reverseString_builtin, swap, swap_End, binHex_builtin, digit, digits_End, Done

LEMMA ConversionKept ==
  ASSUME [Next]_vars, ~binHex_builtin, ~digit, ~digits_End
  PROVE  UNCHANGED <<number, tmp, base, arr>>
BY DEF Next, vars, conversion, not_mine, missing_argument, chdir_builtin, converter_builtin,
   summation_builtin, reverseString_builtin, swap, swap_End, Done

LEMMA SumSteps ==
  ASSUME OfferInv, [Next]_vars, cmd.name = "sum"
  PROVE  not_mine \/ missing_argument \/ summation_builtin \/ UNCHANGED vars
BY DEF OfferInv, Next, chdir_builtin, converter_builtin, reverseString_builtin, swap, swap_End,
   binHex_builtin, digit, digits_End, Done, Offered, With

LEMMA BinHexSteps ==
  ASSUME OfferInv, [Next]_vars, cmd.name = "binHex"
  PROVE  not_mine \/ missing_argument \/ binHex_builtin \/ digit \/ digits_End \/ UNCHANGED vars
BY DEF OfferInv, Next, chdir_builtin, converter_builtin, reverseString_builtin, swap, swap_End,
   summation_builtin, Done, Offered, With

\* Where a digit is still to come there is room for it: what is left of the number is at
\* least 1, so the next power is no larger than the number.
LEMMA DigitFits ==
  ASSUME Group422Inv, digit
  PROVE  number > 0 /\ Len(arr) \in Nat /\ Len(arr) + 1 < Width
<1> DEFINE L == Len(arr)
           P == Powers(base)[L]
           V == Value(Reverse(arr), base)
<1>1. pc = "digits" /\ tmp > 0 /\ base \in {2, 16} /\ arr \in Seq(0..15) /\ L < Width
      /\ tmp \in Int /\ number \in CInt
  BY IntRange DEF digit, Group422Inv, TypeOK
<1>2. number > 0
  BY <1>1 DEF Group422Inv, ResultInv, LoopInv
<1>3. number = tmp * P + V
  BY <1>1, <1>2 DEF Group422Inv, BinHexExact
<1>4. L \in Nat /\ V \in Nat /\ P \in Nat
  <2>1. arr \in Seq(Nat) /\ Reverse(arr) \in Seq(Nat) /\ base \in Nat \ {0} /\ L \in Nat
    BY <1>1 DEF Reverse
  <2> QED  BY <2>1, ValueType, PowersGrow
<1>5. Powers(2)[L] <= P /\ Powers(2)[L] \in Nat
  <2>1. 2 \in Nat \ {0}
    OBVIOUS
  <2> QED  BY <1>1, <1>4, <2>1, TwoBelowSixteen, PowersGrow
<1> HIDE DEF P, V, L
<1>6. P <= number
  BY <1>1, <1>3, <1>4
<1>7. ~(Width - 1 <= L)
  <2> SUFFICES ASSUME Width - 1 <= L  PROVE FALSE
    OBVIOUS
  <2>1. Powers(2)[Width - 1] <= Powers(2)[L] /\ Powers(2)[Width - 1] \in Nat
    <3>1. 2 \in Nat \ {0}
      OBVIOUS
    <3> QED  BY <1>4, <3>1, IntRange, PowersGrow
  <2>2. number \in Int /\ number <= MaxInt /\ MaxInt < Powers(2)[Width - 1] /\ MaxInt \in Nat
    BY <1>1, IntRange
  <2> QED  BY <1>4, <1>5, <1>6, <2>1, <2>2
<1> QED  BY <1>2, <1>4, <1>7, IntRange DEF L

\* The digit that is taken and what is left.
LEMMA DigitStep ==
  ASSUME Group422Inv, digit
  PROVE  /\ number \in Int /\ number > 0 /\ tmp' \in Nat /\ tmp' <= tmp
         /\ arr' \in Seq(0..(base - 1)) /\ Len(arr') = Len(arr) + 1 /\ Len(arr') < Width
         /\ tmp' = 0 => Last(arr') # 0 /\ arr' # <<>>
         /\ number = tmp' * Powers(base)[Len(arr')] + Value(Reverse(arr'), base)
<1> DEFINE L == Len(arr)
           P == Powers(base)[L]
           V == Value(Reverse(arr), base)
           d == tmp % base
           t == tmp \div base
<1>1. pc = "digits" /\ tmp > 0 /\ base \in {2, 16} /\ tmp \in Int /\ number \in Int
      /\ arr' = Append(arr, d) /\ tmp' = t
  BY IntRange DEF digit, Group422Inv, TypeOK
<1>2. number > 0 /\ L \in Nat /\ L + 1 < Width
  BY DigitFits
<1>3. number = tmp * P + V
  BY <1>1, <1>2 DEF Group422Inv, BinHexExact
<1>4. arr \in Seq(0..(base - 1)) /\ arr \in Seq(Nat)
  <2>1. arr \in Seq(0..(base - 1))
    BY <1>1, <1>2 DEF Group422Inv, ResultInv, LoopInv
  <2> QED  BY <1>1, <2>1
<1>5. t \in Nat /\ t <= tmp /\ d \in Nat /\ d \in 0..(base - 1) /\ tmp = base * t + d
  BY <1>1
<1>6. V \in Nat /\ P \in Nat /\ Powers(base)[L + 1] = base * P
  <2>1. Reverse(arr) \in Seq(Nat) /\ base \in Nat \ {0}
    BY <1>1, <1>4 DEF Reverse
  <2> QED  BY <1>2, <2>1, ValueType, PowersGrow, PowersOf
<1>7. Value(Reverse(Append(arr, d)), base) = V + d * P
  <2>1. base \in Nat \ {0}
    BY <1>1
  <2> HIDE DEF d
  <2> QED  BY <1>4, <1>5, <2>1, ValueOfNext
<1>8. Len(Append(arr, d)) = L + 1 /\ Append(arr, d) \in Seq(0..(base - 1))
      /\ Append(arr, d)[L + 1] = d /\ Append(arr, d) # <<>>
  <2> HIDE DEF d
  <2> QED  BY <1>4, <1>5
<1>9. Last(Append(arr, d)) = d
  BY <1>8 DEF Last
<1>10. number = t * (base * P) + (V + d * P)
  <2> HIDE DEF d, t, P, V
  <2>1. CASE base = 2
    BY <1>3, <1>5, <1>6, <2>1
  <2>2. CASE base = 16
    BY <1>3, <1>5, <1>6, <2>2
  <2> QED  BY <1>1, <2>1, <2>2
<1>11. t = 0 => d # 0
  <2> HIDE DEF d, t
  <2> QED  BY <1>1, <1>5
<1> HIDE DEF d, t, P, V
<1> QED  BY <1>1, <1>2, <1>5, <1>6, <1>7, <1>8, <1>9, <1>10, <1>11 DEF L

\* When the loop has ended its digits are the number, the highest first.
LEMMA DigitsRight ==
  ASSUME Group422Inv, digits_End
  PROVE  Right(Reverse(arr), base)
<1>1. pc = "digits" /\ tmp <= 0 /\ base \in {2, 16} /\ number \in Int /\ tmp \in Int
      /\ base \in Nat \ {0}
  BY IntRange DEF digits_End, Group422Inv, TypeOK
<1>2. CASE number > 0
  <2>1. tmp = 0 /\ arr \in Seq(0..(base - 1)) /\ Last(arr) # 0 /\ arr # <<>>
    BY <1>1, <1>2 DEF Group422Inv, ResultInv, LoopInv
  <2>2. number = 0 * Powers(base)[Len(arr)] + Value(Reverse(arr), base)
    BY <1>1, <1>2, <2>1 DEF Group422Inv, BinHexExact
  <2>3. Reverse(arr) \in Seq(0..(base - 1)) /\ Head(Reverse(arr)) = Last(arr) /\ Reverse(arr) # <<>>
    <3> DEFINE D == 0..(base - 1)
    <3> HIDE DEF D
    <3>1. arr \in Seq(D) /\ Len(arr) \in Nat /\ Len(arr) >= 1
      BY <2>1 DEF D
    <3>2. Reverse(arr) \in Seq(D) /\ Len(Reverse(arr)) = Len(arr) /\ Reverse(arr)[1] = arr[Len(arr)]
      BY <3>1 DEF Reverse
    <3> QED  BY <3>1, <3>2 DEF Last, D
  <2>4. Value(Reverse(arr), base) = number
    <3>1. arr \in Seq(Nat) /\ Reverse(arr) \in Seq(Nat) /\ Len(arr) \in Nat
      BY <1>1, <2>1 DEF Reverse
    <3>2. Value(Reverse(arr), base) \in Nat /\ Powers(base)[Len(arr)] \in Nat
      BY <1>1, <3>1, ValueType, PowersGrow
    <3> QED  BY <2>2, <3>2
  <2> QED  BY <2>1, <2>3, <2>4 DEF Right, Writes
<1>3. CASE ~(number > 0)
  BY <1>3 DEF Right
<1> QED  BY <1>2, <1>3

LEMMA SeqOfMore ==
  ASSUME NEW A, NEW B, A \subseteq B, NEW s \in Seq(A)
  PROVE  s \in Seq(B)
OBVIOUS

LEMMA AtTheEnd ==
  ASSUME NEW S, NEW s \in Seq(S), NEW y \in S
  PROVE  Append(s, y)[Len(s) + 1] = y /\ \A k \in 1..Len(s) : Append(s, y)[k] = s[k]
OBVIOUS

LEMMA OneAndOne ==
  ASSUME NEW x, NEW y
  PROVE  Append(<<x>>, y)[1] = x /\ Append(<<x>>, y)[2] = y
<1>1. <<x>> \in Seq({x, y}) /\ Len(<<x>>) = 1 /\ <<x>>[1] = x /\ y \in {x, y}
  OBVIOUS
<1> DEFINE S == {x, y}
           s == <<x>>
<1> HIDE DEF S, s
<1>2. Append(s, y)[Len(s) + 1] = y /\ \A k \in 1..Len(s) : Append(s, y)[k] = s[k]
  BY <1>1, AtTheEnd DEF S, s
<1>3. 1 \in 1..Len(s) /\ Len(s) + 1 = 2 /\ s[1] = x
  BY <1>1 DEF s
<1>4. Append(s, y)[1] = x /\ Append(s, y)[2] = y
  BY <1>2, <1>3
<1> QED  BY <1>4 DEF s

LEMMA WordTyped == TurnedInv => word \in Seq(Char)
<1> SUFFICES ASSUME TurnedInv  PROVE word \in Seq(Char)
  OBVIOUS
<1> DEFINE L == Len(cmd.word)
           H == L \div 2
           W == cmd.word
           turn(k) == IF Swapped(k) THEN Mirror(k) ELSE k
<1>1. W \in Seq(Char) /\ L \in Nat /\ DOMAIN W = 1..L /\ word = [k \in 1..L |-> W[turn(k)]]
  BY DEF TurnedInv
<1>2. H \in Nat /\ 2 * H <= L /\ i \in 0..H
  BY <1>1, Halves DEF TurnedInv
<1>3. \A k : turn(k) = IF k <= i \/ k > L - i THEN L + 1 - k ELSE k
  BY DEF Swapped, Mirror
<1> HIDE DEF H, L, turn
<1>4. \A k \in 1..L : turn(k) \in 1..L
  BY <1>1, <1>2, <1>3
<1> HIDE DEF W
<1> QED  BY <1>1, <1>4

LEMMA WordTypedNext == TurnedInv' => (word \in Seq(Char))'
BY WordTyped, PTL

LEMMA TypesInit == Init => TypeOK
<1> SUFFICES ASSUME Init  PROVE TypeOK
  OBVIOUS
<1>1. <<>> \in Seq(0..15) /\ Len(<<>>) = 0 /\ 0 \in CInt /\ 0 \in 0..MaxWord /\ 0 < Width
  BY IntRange, Group422Assumption
<1>2. 1 \in 1..(Len(Names) + 1)
  BY NamesByRank
<1>3. word \in Seq(Char)
  BY TypedWords DEF Init
<1> QED  BY <1>1, <1>2, <1>3 DEF Init, TypeOK

\* The locals of binHex.
LEMMA ConversionTypes ==
  ASSUME Group422Inv, [Next]_vars
  PROVE  /\ number' \in CInt /\ tmp' \in CInt /\ base' \in {2, 16}
         /\ arr' \in Seq(0..15) /\ Len(arr') < Width
<1>1. /\ number \in CInt /\ tmp \in CInt /\ base \in {2, 16} /\ arr \in Seq(0..15) /\ Len(arr) < Width
      /\ cmd.no1 \in Int
  BY TypedFields DEF Group422Inv, TypeOK
<1>2. <<>> \in Seq(0..15) /\ Len(<<>>) < Width
  BY IntRange, Group422Assumption
<1>3. CASE ~binHex_builtin /\ ~digit /\ ~digits_End
  BY <1>1, <1>3, ConversionKept
<1>4. CASE binHex_builtin
  <2>1. CASE UNCHANGED conversion
    BY <1>1, <2>1 DEF conversion
  <2>2. CASE number' = wrap(cmd.no1) /\ tmp' = number' /\ base' = 2 /\ arr' = <<>>
    BY <1>1, <1>2, <2>2, Wraps
  <2> QED  BY <1>4, <2>1, <2>2 DEF binHex_builtin
<1>5. CASE digit
  <2>1. UNCHANGED <<number, base>>
    BY <1>5 DEF digit
  <2>2. tmp' \in Nat /\ tmp' <= tmp /\ arr' \in Seq(0..(base - 1)) /\ Len(arr') < Width
    BY <1>5, DigitStep
  <2>3. tmp' \in CInt
    BY <1>1, <2>2, IntRange
  <2>4. arr' \in Seq(0..15)
    <3>1. 0..(base - 1) \subseteq 0..15
      BY <1>1
    <3> QED  BY <2>2, <3>1, SeqOfMore
  <2> QED  BY <1>1, <2>1, <2>2, <2>3, <2>4
<1>6. CASE digits_End
  <2>1. CASE UNCHANGED <<number, tmp, base, arr>>
    BY <1>1, <2>1
  <2>2. CASE restart /\ UNCHANGED number
    BY <1>1, <1>2, <2>2 DEF restart
  <2> QED  BY <1>6, <2>1, <2>2 DEF digits_End
<1> QED  BY <1>3, <1>4, <1>5, <1>6

LEMMA TypesStep ==
  ASSUME Group422Inv, ReversalInv', [Next]_vars
  PROVE  TypeOK'
<1>1. cmd' = cmd /\ cmd \in Commands
  BY CommandKept DEF Group422Inv, TypeOK
<1>2. /\ rank' \in 1..(Len(Names) + 1) /\ pc' \in {"offer", "digits", "swap", "crashed"}
      /\ i' \in 0..(Len(cmd'.word) \div 2) /\ TurnedInv'
  BY DEF ReversalInv, OfferInv, TurnedInv
<1>3. isPlugin' \in BOOLEAN
  <2>1. isPlugin \in BOOLEAN
    BY DEF Group422Inv, TypeOK
  <2>2. isPlugin' = isPlugin \/ isPlugin' = TRUE
    BY DEF Next, vars, not_mine, missing_argument, chdir_builtin, converter_builtin,
       summation_builtin, reverseString_builtin, swap, swap_End, binHex_builtin, digit, digits_End,
       Done, taken, enters
  <2> QED  BY <2>1, <2>2
<1>4. cwd' \in Dir \cup {"start"}
  <2>1. cwd \in Dir \cup {"start"} /\ cmd.dir \in Dir
    BY <1>1, TypedFields DEF Group422Inv, TypeOK
  <2>2. cwd' \in {cwd, "~", cmd.dir}
    BY DEF Next, vars, not_mine, missing_argument, chdir_builtin, converter_builtin,
       summation_builtin, reverseString_builtin, swap, swap_End, binHex_builtin, digit, digits_End, Done
  <2> QED  BY <2>1, <2>2 DEF Dir
<1>5. word' \in Seq(Char)
  BY <1>2, WordTypedNext
<1>6. i' \in 0..MaxWord
  <2> DEFINE n == Len(cmd.word)
             h == n \div 2
  <2>1. n \in Nat /\ (n <= MaxWord \/ n <= 1) /\ MaxWord \in Nat
    BY <1>1, TypedFields, Group422Assumption
  <2>2. i' \in 0..h
    BY <1>1, <1>2
  <2> HIDE DEF n
  <2>3. h \in Nat /\ h <= MaxWord
    BY <2>1
  <2> HIDE DEF h
  <2> QED  BY <2>1, <2>2, <2>3
<1> QED  BY <1>1, <1>2, <1>3, <1>4, <1>5, <1>6, ConversionTypes DEF TypeOK

\* At the end the loop's results are exact where the number fits an int.
LEMMA ExactAtEnd ==
  TypeOK /\ ResultInv =>
    (Handled("binHex") /\ cmd.word = <<"digit">> /\ cmd.no1 \in 1..MaxInt =>
       Writes(printed[1], cmd.no1, 2) /\ Writes(printed[2], cmd.no1, 16))
<1> SUFFICES ASSUME TypeOK, ResultInv, Handled("binHex"), cmd.word = <<"digit">>, cmd.no1 \in 1..MaxInt
             PROVE  Writes(printed[1], cmd.no1, 2) /\ Writes(printed[2], cmd.no1, 16)
  OBVIOUS
<1>1. number = wrap(cmd.no1) /\ Right(printed[1], 2) /\ Right(printed[2], 16)
  BY DEF ResultInv
<1>2. cmd.no1 \in CInt /\ cmd.no1 \in Int /\ cmd.no1 > 0
  BY IntRange
<1>3. number = cmd.no1
  BY <1>1, <1>2, Wraps
<1> QED  BY <1>1, <1>2, <1>3 DEF Right

LEMMA ExactAtEndNext ==
  (TypeOK /\ ResultInv)' =>
    (Handled("binHex") /\ cmd.word = <<"digit">> /\ cmd.no1 \in 1..MaxInt =>
       Writes(printed[1], cmd.no1, 2) /\ Writes(printed[2], cmd.no1, 16))'
BY ExactAtEnd, PTL

\* What the turns of the loop keep.
Turn == pc = "digits" /\ number > 0 =>
          number = tmp * Powers(base)[Len(arr)] + Value(Reverse(arr), base)

\* Only reverse changes its word.
LEMMA WordOfOthers ==
  ASSUME Group422Inv, [Next]_vars, cmd.name # "reverse"
  PROVE  word' = cmd'.word
<1>1. ~swap
  BY DEF swap, Group422Inv, ReversalInv, OfferInv
<1>2. word = cmd.word
  BY DEF Group422Inv, ResultInv
<1> QED  BY <1>1, <1>2, WordKept

LEMMA ResultOfOthers ==
  ASSUME Group422Inv, ReversalInv', [Next]_vars, cmd.name # "sum", cmd.name # "binHex"
  PROVE  ResultInv' /\ Turn'
<1>1. cmd' = cmd /\ pc' # "digits"
  BY CommandKept DEF ReversalInv, OfferInv
<1>2. cmd'.name # "reverse" => word' = cmd'.word
  BY <1>1, WordOfOthers
<1> QED  BY <1>1, <1>2 DEF ResultInv, Turn, Handled

LEMMA ResultOfSum ==
  ASSUME Group422Inv, ReversalInv', [Next]_vars, cmd.name = "sum"
  PROVE  ResultInv' /\ Turn'
<1> USE NamesByRank
<1>1. cmd' = cmd /\ pc' # "digits" /\ word' = cmd'.word /\ OfferInv
  BY CommandKept, WordOfOthers DEF Group422Inv, ReversalInv, OfferInv
<1>2. /\ rank \in 1..6
      /\ rank <= 3 => printed = <<>>
      /\ rank > 3 /\ cmd.argc > 0 => printed = <<Result>>
  BY <1>1 DEF Group422Inv, ResultInv, OfferInv
<1>3. Result' = Result
  BY <1>1 DEF Result
<1>4. /\ rank' <= 3 => printed' = <<>>
      /\ rank' > 3 /\ cmd.argc > 0 => printed' = <<Result>>
  <2>1. CASE not_mine
    <3>1. rank # 3 /\ rank' = rank + 1 /\ printed' = printed
      BY <1>2, <2>1 DEF not_mine
    <3> QED  BY <1>2, <3>1
  <2>2. CASE missing_argument
    <3>1. rank' = rank /\ printed' = printed
      BY <2>2 DEF missing_argument
    <3> QED  BY <1>2, <3>1
  <2>3. CASE summation_builtin
    <3>1. rank = 3 /\ rank' = 4 /\ printed' = Append(printed, Result)
      BY <1>2, <2>3 DEF summation_builtin, With, Offered, taken, prints, Result
    <3> QED  BY <1>2, <3>1
  <2>4. CASE UNCHANGED vars
    BY <1>2, <2>4 DEF vars
  <2> QED  BY <1>1, <2>1, <2>2, <2>3, <2>4, SumSteps
<1>5. /\ cmd'.name # "reverse" => word' = cmd'.word
      /\ cmd'.name = "sum" /\ rank' <= 3 => printed' = <<>>
      /\ cmd'.name = "sum" /\ rank' > 3 /\ cmd'.argc > 0 => printed' = <<Result'>>
      /\ cmd'.name # "binHex"
  BY <1>1, <1>3, <1>4
<1> QED  BY <1>1, <1>5 DEF ResultInv, Turn, Handled

\* The turn of the loop: DigitStep in the terms of the invariant.
LEMMA ResultOfDigit ==
  ASSUME Group422Inv, digit
  PROVE  LoopInv' /\ Turn'
<1>1. pc = "digits" /\ tmp > 0 /\ UNCHANGED <<cmd, pc, number, base, printed>>
  BY DEF digit
<1>2. number = wrap(cmd.no1) /\ IF base = 2 THEN printed = <<>> ELSE printed = <<printed[1]>> /\ Right(printed[1], 2)
  BY <1>1 DEF Group422Inv, ResultInv, LoopInv
<1>3. /\ number > 0 /\ tmp' \in Nat /\ arr' \in Seq(0..(base - 1))
      /\ tmp' = 0 => Last(arr') # 0 /\ arr' # <<>>
      /\ number = tmp' * Powers(base)[Len(arr')] + Value(Reverse(arr'), base)
  BY DigitStep
<1>4. tmp' >= 0
  BY <1>3
<1>5. number' = wrap(cmd'.no1) /\ IF base' = 2 THEN printed' = <<>> ELSE printed' = <<printed'[1]>> /\ Right(printed[1], 2)'
  BY <1>1, <1>2 DEF Right
<1>6. Turn'
  BY <1>1, <1>3 DEF Turn
<1>7. LoopInv'
  BY <1>1, <1>3, <1>4, <1>5 DEF LoopInv
<1> QED  BY <1>6, <1>7

\* From the binary number to the hexadecimal one, and from that to the next plug-in.
LEMMA ResultOfDigitsEnd ==
  ASSUME Group422Inv, digits_End
  PROVE  /\ base = 2 => pc' = "digits" /\ LoopInv' /\ Turn'
         /\ base = 16 => /\ pc' = "offer" /\ rank' = rank + 1 /\ number' = wrap(cmd'.no1)
                         /\ Right(printed[1], 2)' /\ Right(printed[2], 16)'
<1>1. pc = "digits" /\ UNCHANGED <<cmd, number>> /\ base \in {2, 16} /\ number \in Int
      /\ printed' = Append(printed, Reverse(arr))
  BY IntRange DEF digits_End, prints, Group422Inv, TypeOK
<1>2. number = wrap(cmd.no1) /\ IF base = 2 THEN printed = <<>> ELSE printed = <<printed[1]>> /\ Right(printed[1], 2)
  BY <1>1 DEF Group422Inv, ResultInv, LoopInv
<1>3. Right(Reverse(arr), base)
  BY DigitsRight
<1>4. ASSUME base = 2  PROVE pc' = "digits" /\ LoopInv' /\ Turn'
  <2>1. pc' = pc /\ tmp' = number /\ base' = 16 /\ arr' = <<>>
    BY <1>4 DEF digits_End, restart
  <2>2. printed' = <<Reverse(arr)>>
    BY <1>1, <1>2, <1>4
  <2>3. printed' = <<printed'[1]>> /\ Right(printed[1], 2)'
    BY <1>1, <1>3, <1>4, <2>2 DEF Right
  <2>4. /\ IF number' > 0 THEN /\ tmp' >= 0 /\ arr' \in Seq(0..(base' - 1))
                               /\ tmp' = 0 => Last(arr') # 0 /\ arr' # <<>>
                          ELSE tmp' = number' /\ arr' = <<>>
    BY <1>1, <2>1
  <2>5. LoopInv'
    BY <1>1, <1>2, <2>1, <2>3, <2>4 DEF LoopInv
  <2>6. Turn'
    <3>1. number = number * Powers(16)[0] + Value(Reverse(<<>>), 16)
      <4>1. 16 \in Nat \ {0} /\ Reverse(<<>>) = <<>>
        BY DEF Reverse
      <4>2. Powers(16)[0] = 1 /\ Value(Reverse(<<>>), 16) = 0
        BY <4>1, PowersOf, ValueOfNone
      <4> QED  BY <1>1, <4>2
    <3>2. Len(<<>>) = 0
      OBVIOUS
    <3> QED  BY <1>1, <2>1, <3>1, <3>2 DEF Turn
  <2> QED  BY <1>1, <2>1, <2>5, <2>6
<1>5. ASSUME base = 16
      PROVE  /\ pc' = "offer" /\ rank' = rank + 1 /\ number' = wrap(cmd'.no1)
             /\ Right(printed[1], 2)' /\ Right(printed[2], 16)'
  <2>1. pc' = "offer" /\ rank' = rank + 1
    BY <1>5 DEF digits_End, taken
  <2>2. printed = <<printed[1]>> /\ Right(printed[1], 2)
    BY <1>2, <1>5
  <2>3. printed'[1] = printed[1] /\ printed'[2] = Reverse(arr)
    <3> DEFINE x == printed[1]
               y == Reverse(arr)
    <3>1. printed = <<x>> /\ printed' = Append(printed, y)
      BY <1>1, <2>2
    <3> HIDE DEF x, y
    <3>2. printed'[1] = x /\ printed'[2] = y
      BY <3>1, OneAndOne
    <3> QED  BY <3>2 DEF x, y
  <2> QED  BY <1>1, <1>2, <1>3, <1>5, <2>1, <2>2, <2>3 DEF Right
<1> QED  BY <1>4, <1>5

LEMMA ResultOfBinHex ==
  ASSUME Group422Inv, ReversalInv', [Next]_vars, cmd.name = "binHex"
  PROVE  ResultInv' /\ Turn'
<1> USE NamesByRank
<1>1. cmd' = cmd /\ word = cmd.word /\ word' = cmd'.word /\ OfferInv /\ rank \in 1..6
  BY CommandKept, WordOfOthers DEF Group422Inv, ReversalInv, OfferInv, ResultInv
<1>2. rank <= 5 /\ pc = "offer" => printed = <<>>
  BY <1>1 DEF Group422Inv, ResultInv
<1>3. /\ rank' <= 5 /\ pc' = "offer" => printed' = <<>>
      /\ pc' = "digits" => LoopInv'
      /\ rank' > 5 /\ cmd.argc > 0 /\ cmd.word = <<"digit">> =>
           number' = wrap(cmd.no1) /\ Right(printed[1], 2)' /\ Right(printed[2], 16)'
      /\ Turn'
  <2>1. CASE not_mine
    <3>1. rank # 5 /\ rank <= 5 /\ rank' = rank + 1 /\ pc = "offer" /\ pc' = "offer" /\ printed' = printed
      BY <1>1, <2>1 DEF not_mine
    <3> QED  BY <1>1, <1>2, <3>1 DEF Turn
  <2>2. CASE missing_argument
    <3>1. cmd.argc = 0 /\ rank <= 5 /\ Names[rank] = "binHex" /\ rank' = rank + 1 /\ pc' = "offer"
      BY <2>2 DEF missing_argument, taken, Offered
    <3>2. rank = 5
      BY <1>1, <3>1
    <3> QED  BY <3>1, <3>2 DEF Turn
  <2>3. CASE binHex_builtin /\ word # <<"digit">>
    <3>1. rank' = rank + 1 /\ pc' = "offer" /\ rank <= 5 /\ Names[rank] = "binHex"
      BY <2>3 DEF binHex_builtin, taken, With, Offered
    <3>2. rank = 5
      BY <1>1, <3>1
    <3> QED  BY <1>1, <2>3, <3>1, <3>2 DEF Turn
  <2>4. CASE binHex_builtin /\ word = <<"digit">>
    <3>1. /\ pc = "offer" /\ rank = 5 /\ pc' = "digits" /\ rank' = rank /\ printed' = printed
          /\ number' = wrap(cmd.no1) /\ tmp' = number' /\ base' = 2 /\ arr' = <<>>
      BY <1>1, <2>4 DEF binHex_builtin, enters, With, Offered
    <3>2. number' \in Int
      <4>1. cmd.no1 \in Int
        BY TypedFields DEF Group422Inv, TypeOK
      <4> QED  BY <3>1, <4>1, Wraps, IntRange
    <3>3. LoopInv'
      BY <1>1, <1>2, <3>1, <3>2 DEF LoopInv
    <3>4. Turn'
      <4>1. 2 \in Nat \ {0} /\ Reverse(<<>>) = <<>> /\ Len(<<>>) = 0
        BY DEF Reverse
      <4>2. Powers(2)[0] = 1 /\ Value(Reverse(<<>>), 2) = 0
        BY <4>1, PowersOf, ValueOfNone
      <4>3. number' = number' * Powers(2)[0] + Value(Reverse(<<>>), 2)
        BY <3>2, <4>2
      <4> QED  BY <3>1, <4>1, <4>3 DEF Turn
    <3> QED  BY <3>1, <3>3, <3>4
  <2>5. CASE digit
    <3>1. pc' = "digits" /\ rank' = rank /\ rank = 5
      BY <1>1, <2>5 DEF digit, OfferInv
    <3> QED  BY <2>5, <3>1, ResultOfDigit
  <2>6. CASE digits_End /\ base = 2
    <3>1. rank' = rank /\ rank = 5
      BY <1>1, <2>6 DEF digits_End, OfferInv
    <3>2. pc' = "digits" /\ LoopInv' /\ Turn'
      BY <2>6, ResultOfDigitsEnd
    <3> QED  BY <3>1, <3>2
  <2>7. CASE digits_End /\ base = 16
    <3>1. rank = 5
      BY <1>1, <2>7 DEF digits_End, OfferInv
    <3>2. /\ pc' = "offer" /\ rank' = rank + 1 /\ number' = wrap(cmd'.no1)
          /\ Right(printed[1], 2)' /\ Right(printed[2], 16)'
      BY <2>7, ResultOfDigitsEnd
    <3> QED  BY <1>1, <3>1, <3>2 DEF Turn
  <2>8. CASE UNCHANGED vars
    <3>1. Turn
      BY DEF Group422Inv, BinHexExact, Turn
    <3>2. pc = "digits" => LoopInv
      BY DEF Group422Inv, ResultInv
    <3>3. rank > 5 /\ cmd.argc > 0 /\ cmd.word = <<"digit">> =>
            number = wrap(cmd.no1) /\ Right(printed[1], 2) /\ Right(printed[2], 16)
      BY DEF Group422Inv, ResultInv, Handled
    <3>4. UNCHANGED <<cmd, rank, pc, number, tmp, base, arr, printed>>
      BY <2>8 DEF vars, conversion
    <3> QED  BY <1>2, <3>1, <3>2, <3>3, <3>4 DEF Turn, LoopInv, Right
  <2>9. base \in {2, 16}
    BY DEF Group422Inv, TypeOK
  <2> QED  BY <1>1, <2>1, <2>2, <2>3, <2>4, <2>5, <2>6, <2>7, <2>8, <2>9, BinHexSteps
<1> QED  BY <1>1, <1>3 DEF ResultInv, Handled

LEMMA ResultsStep ==
  ASSUME Group422Inv, TypeOK', ReversalInv', [Next]_vars
  PROVE  BinHexExact' /\ ResultInv'
<1>1. ResultInv' /\ Turn'
  BY ResultOfOthers, ResultOfSum, ResultOfBinHex
<1>2. Len(arr') < Width
  BY DEF TypeOK
<1> QED  BY <1>1, <1>2, ExactAtEndNext DEF BinHexExact, Turn

LEMMA InitGroup422 == Init => Group422Inv
<1> SUFFICES ASSUME Init  PROVE Group422Inv
  OBVIOUS
<1>1. pc = "offer" /\ rank = 1 /\ printed = <<>> /\ word = cmd.word
  BY DEF Init
<1>2. ResultInv /\ BinHexExact
  BY <1>1, NamesByRank DEF ResultInv, BinHexExact, Handled
<1> QED  BY <1>2, ReversalInit, TypesInit DEF Group422Inv

\* The invariant of the five plug-ins: where a command stands, what the loops of reverse and
\* binHex have done, what has been printed.
THEOREM Group422Invariance == Spec => []Group422Inv
<1>1. Group422Inv /\ [Next]_vars => Group422Inv'
  <2> SUFFICES ASSUME Group422Inv, [Next]_vars  PROVE Group422Inv'
    OBVIOUS
  <2>1. ReversalInv'
    BY TurnedStep, OfferStep DEF Group422Inv, ReversalInv
  <2>2. TypeOK'
    BY <2>1, TypesStep
  <2> QED  BY <2>1, <2>2, ResultsStep DEF Group422Inv
<1> QED  BY <1>1, InitGroup422, PTL DEF Spec

\* The variables keep their types: no number leaves int, and arr never has more digits than
\* a positive int has bits.
THEOREM TypeCorrect == Spec => []TypeOK
<1>1. Group422Inv => TypeOK
  BY DEF Group422Inv
<1> QED  BY <1>1, Group422Invariance, PTL

\* binHex writes every positive number that fits an int in binary and in hexadecimal, with no
\* leading zero, for int of any width. For 0 it writes no digit.
THEOREM BinHexIsExact == Spec => []BinHexExact
<1>1. Group422Inv => BinHexExact
  BY DEF Group422Inv
<1> QED  BY <1>1, Group422Invariance, PTL

\* sum with two numbers is their sum where that fits; with one, n, it is 1 + ... + n where
\* n * (n + 1) fits.
THEOREM SumIsExact == Spec => []SumExact
<1>1. Group422Inv => SumExact
  <2> SUFFICES ASSUME Group422Inv, Handled("sum")
               PROVE  IF cmd.argc = 2 THEN cmd.no1 + cmd.no2 \in CInt => printed = <<cmd.no1 + cmd.no2>>
                      ELSE cmd.no1 >= 0 /\ cmd.no1 * (cmd.no1 + 1) <= MaxInt => printed = <<Sums[cmd.no1]>>
    BY DEF SumExact
  <2>1. printed = <<Result>>
    <3>1. rank > 3 /\ cmd.name = "sum" /\ cmd.argc > 0
      BY NamesByRank DEF Handled, Group422Inv, TypeOK
    <3> QED  BY <3>1 DEF Group422Inv, ResultInv
  <2>2. cmd.no1 \in Int /\ cmd.no2 \in Int
    BY TypedFields, IntRange DEF Group422Inv, TypeOK, Handled
  <2>3. CASE cmd.argc = 2
    <3>1. cmd.no1 + cmd.no2 \in Int
      BY <2>2
    <3> QED  BY <2>1, <2>3, <3>1, Wraps DEF Result
  <2>4. CASE cmd.argc # 2
    <3>1. cmd.no1 >= 0 /\ cmd.no1 * (cmd.no1 + 1) <= MaxInt => gauss(cmd.no1) = Sums[cmd.no1]
      BY <2>2, GaussIsSum
    <3> QED  BY <2>1, <2>4, <3>1 DEF Result
  <2> QED  BY <2>3, <2>4
<1> QED  BY <1>1, Group422Invariance, PTL

\* The word is at each moment its characters in some order. reverse leaves it reversed, for words
\* of any length, and prints that if no % stands in it.
THEOREM Reverses == Spec => []ReversesInPlace
<1>1. ReversalInv => ReversesInPlace
  <2> SUFFICES ASSUME ReversalInv  PROVE ReversesInPlace
    OBVIOUS
  <2> DEFINE L == Len(cmd.word)
             H == L \div 2
             W == cmd.word
             turn(k) == IF Swapped(k) THEN Mirror(k) ELSE k
             f == [k \in DOMAIN W |-> turn(k)]
  <2>1. L \in Nat /\ DOMAIN W = 1..L /\ word = [k \in DOMAIN W |-> W[turn(k)]]
    BY DEF ReversalInv, TurnedInv
  <2>2. H \in Nat /\ 2 * H <= L /\ L <= 2 * H + 1 /\ i \in 0..H
    BY <2>1, Halves DEF ReversalInv, TurnedInv
  <2>3. Handled("reverse") => i = H /\ (Plain(word) => printed = <<word>>)
    <3>1. Handled("reverse") => rank > 4 /\ cmd.name = "reverse" /\ cmd.argc > 0
      BY NamesByRank DEF Handled, ReversalInv, OfferInv
    <3> QED  BY <3>1, Zenon DEF ReversalInv, OfferInv, HasReversed
  <2>4. \A k : turn(k) = IF k <= i \/ k > L - i THEN L + 1 - k ELSE k
    BY DEF Swapped, Mirror
  <2> HIDE DEF H, L, turn
  <2>5. \A k \in 1..L : turn(k) \in 1..L /\ turn(turn(k)) = k
    BY <2>1, <2>2, <2>4
  <2>6. f \in Bijection(DOMAIN W, DOMAIN W)
    <3>1. f \in [DOMAIN W -> DOMAIN W] /\ \A k \in DOMAIN W : f[f[k]] = k
      BY <2>1, <2>5
    <3> HIDE DEF f, W
    <3> QED  BY <3>1, Zenon DEF Bijection, Injection, Surjection, IsInjective
  <2>7. word = [k \in DOMAIN f |-> W[f[k]]]
    BY <2>1
  <2>8. ASSUME Handled("reverse")  PROVE word = Reverse(W)
    <3>1. \A k \in 1..L : turn(k) = (L - k) + 1
      BY <2>1, <2>2, <2>3, <2>4, <2>8
    <3> QED  BY <2>1, <3>1 DEF Reverse, L
  <2>9. Plain(W) => Plain(word)
    BY <2>1, <2>5 DEF Plain, Contains
  <2> QED  BY <2>3, <2>6, <2>7, <2>8, <2>9 DEF ReversesInPlace
<1>2. Group422Inv => ReversalInv
  BY DEF Group422Inv
<1> QED  BY <1>1, <1>2, Group422Invariance, PTL
=============================================================================
