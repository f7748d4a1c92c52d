------------------------------ MODULE SumProofs ------------------------------
(***************************************************************************)
(* What the sums of Sums are: the facts about stock movements, quantities  *)
(* of a sale and rows of a ledger that the proofs of the components use.   *)
(* Induction goes by the least counterexample (LeastNatural), and so does  *)
(* the other fact they share: in a finite set of transactions that all     *)
(* wait for each other, some wait in a cycle (WaitingCycle).               *)
(***************************************************************************)
EXTENDS Sums, WellFoundedInduction, SequenceTheorems, FiniteSetTheorems, TLAPS

(* A set of naturals that is not empty has a least element.                 *)
LEMMA LeastNatural ==
    ASSUME NEW T \in SUBSET Nat, T # {}
    PROVE  \E n \in T : \A j \in T : n <= j
<1> DEFINE R == {ss \in Nat \X Nat : ss[1] < ss[2]}
<1>a. IsWellFoundedOn(R, Nat)
  BY NatLessThanWellFounded DEF OpToRel
<1>b. \A i, j \in Nat : <<i, j>> \in R <=> i < j
  OBVIOUS
<1> HIDE DEF R
<1>1. PICK n \in T : \A j \in T : ~ (<<j, n>> \in R)
  BY <1>a, WFMin
<1>2. ASSUME NEW j \in T PROVE n <= j
  <2>1. j \in Nat /\ n \in Nat
    OBVIOUS
  <2>2. ~ (j < n)
    BY <1>b, <1>1, <2>1
  <2>3. QED
    BY <2>1, <2>2
<1>3. QED
  BY <1>2

(* W is not empty and each of its members waits for another one.            *)
AllWaitIn(W, Waits) ==
    W # {} /\ \A x \in W : \E y \in W : y # x /\ <<x, y>> \in Waits

(* A least set of that kind: someone waits for each of its members, for a   *)
(* member that nobody waits for could be left out.                          *)
LEMMA WaitingCycle ==
    ASSUME NEW S, IsFiniteSet(S), NEW Waits, AllWaitIn(S, Waits)
    PROVE  \E W \in SUBSET S : W # {} /\ \A x \in W : /\ \E y \in W : <<x, y>> \in Waits
                                                 /\ \E y \in W : <<y, x>> \in Waits
<1> DEFINE Sets == {W \in SUBSET S : AllWaitIn(W, Waits)}
           Sizes == {Cardinality(W) : W \in Sets}
<1>1. \A W \in Sets : IsFiniteSet(W) /\ Cardinality(W) \in Nat
  BY FS_Subset, FS_CardinalityType
<1>2. PICK n \in Sizes : \A j \in Sizes : n <= j
  <2>1. Sizes \in SUBSET Nat
    BY <1>1
  <2>2. Sizes # {}
    OBVIOUS
  <2> HIDE DEF Sizes
  <2>3. QED
    BY <2>1, <2>2, LeastNatural
<1>3. PICK W \in Sets : n = Cardinality(W)
  BY <1>2
<1>4. AllWaitIn(W, Waits)
  OBVIOUS
<1>5. ASSUME NEW x \in W, ~ \E y \in W : <<y, x>> \in Waits
      PROVE  FALSE
  <2> DEFINE V == W \ {x}
  <2>1. V # {}
    BY <1>4 DEF AllWaitIn
  <2>2. ASSUME NEW z \in V PROVE \E y \in V : y # z /\ <<z, y>> \in Waits
    <3>1. PICK y \in W : y # z /\ <<z, y>> \in Waits
      BY <1>4 DEF AllWaitIn
    <3>2. y # x
      BY <1>5, <3>1
    <3>3. QED
      BY <3>1, <3>2
  <2>3. V \in Sets
    BY <2>1, <2>2 DEF AllWaitIn
  <2>4. Cardinality(V) \in Sizes
    BY <2>3
  <2>5. n <= Cardinality(V)
    BY <1>2, <2>4
  <2>6. Cardinality(V) = Cardinality(W) - 1
    BY <1>1, FS_RemoveElement
  <2>7. QED
    BY <1>1, <1>3, <2>5, <2>6
<1>6. QED
  BY <1>4, <1>5 DEF AllWaitIn

(* g adds up f as far as n.                                                 *)
Adds(f, g, n) ==
    g = [k \in 0 .. n |-> IF k = 0 THEN 0 ELSE g[k - 1] + f[k]]

LEMMA AddsOnce ==
    ASSUME NEW f, NEW n \in Nat, NEW m \in Nat, NEW g, NEW h, Adds(f, g, n), Adds(f, h, m)
    PROVE  \A k \in Nat : k <= n /\ k <= m => g[k] = h[k]
<1> DEFINE Wrong == {k \in Nat : k <= n /\ k <= m /\ g[k] # h[k]}
<1> SUFFICES ASSUME Wrong # {} PROVE FALSE
  OBVIOUS
<1>1. PICK k \in Wrong : \A j \in Wrong : k <= j
  BY LeastNatural
<1>2. k \in Nat /\ k <= n /\ k <= m /\ g[k] # h[k]
  OBVIOUS
<1>3. CASE k = 0
  BY <1>2, <1>3 DEF Adds
<1>4. CASE k # 0
  <2>1. k - 1 \in Nat /\ k - 1 \notin Wrong
    BY <1>1, <1>2, <1>4
  <2>2. g[k - 1] = h[k - 1]
    BY <1>2, <2>1
  <2>3. g[k] = g[k - 1] + f[k] /\ h[k] = h[k - 1] + f[k]
    BY <1>2, <1>4 DEF Adds
  <2>4. QED
    BY <1>2, <2>2, <2>3
<1>5. QED
  BY <1>3, <1>4

LEMMA AddsExists ==
    ASSUME NEW f PROVE \A n \in Nat : \E g : Adds(f, g, n)
<1> DEFINE Wrong == {n \in Nat : ~ \E g : Adds(f, g, n)}
<1> SUFFICES ASSUME Wrong # {} PROVE FALSE
  OBVIOUS
<1>1. PICK n \in Wrong : \A j \in Wrong : n <= j
  BY LeastNatural
<1>2. n \in Nat /\ \A g : ~ Adds(f, g, n)
  OBVIOUS
<1>3. CASE n = 0
  <2> DEFINE g == [k \in 0 .. 0 |-> 0]
  <2>1. Adds(f, g, n)
    BY <1>3 DEF Adds
  <2>2. QED
    BY <1>2, <2>1
<1>4. CASE n # 0
  <2>1. n - 1 \in Nat /\ n - 1 \notin Wrong
    BY <1>1, <1>2, <1>4
  <2>2. PICK h : Adds(f, h, n - 1)
    BY <2>1
  <2> DEFINE g == [k \in 0 .. n |-> IF k = n THEN h[n - 1] + f[n] ELSE h[k]]
  <2>3. \A k \in 0 .. n : g[k] = IF k = 0 THEN 0 ELSE g[k - 1] + f[k]
    <3>1. \A k \in 0 .. n - 1 : h[k] = IF k = 0 THEN 0 ELSE h[k - 1] + f[k]
      BY <2>2 DEF Adds
    <3>2. QED
      BY <1>2, <1>4, <2>1, <3>1
  <2>4. g = [k \in 0 .. n |-> g[k]]
    OBVIOUS
  <2> HIDE DEF g
  <2>5. Adds(f, g, n)
    BY <2>3, <2>4 DEF Adds
  <2>6. QED
    BY <1>2, <2>5
<1>5. QED
  BY <1>3, <1>4

LEMMA UpToExists ==
    ASSUME NEW f
    PROVE  \E u : u = [n \in Nat |-> IF n = 0 THEN 0 ELSE u[n - 1] + f[n]]
<1> DEFINE G(n) == CHOOSE g : Adds(f, g, n)
           u == [n \in Nat |-> G(n)[n]]
<1>1. \A n \in Nat : Adds(f, G(n), n)
  BY AddsExists
<1> HIDE DEF G
<1>2. ASSUME NEW n \in Nat
      PROVE  u[n] = IF n = 0 THEN 0 ELSE u[n - 1] + f[n]
  <2>1. G(n)[n] = IF n = 0 THEN 0 ELSE G(n)[n - 1] + f[n]
    BY <1>1 DEF Adds
  <2>2. CASE n = 0
    BY <2>1, <2>2
  <2>3. CASE n # 0
    <3>1. n - 1 \in Nat /\ Adds(f, G(n), n) /\ Adds(f, G(n - 1), n - 1)
      BY <1>1, <2>3
    <3>2. G(n)[n - 1] = G(n - 1)[n - 1]
      BY <3>1, AddsOnce
    <3>3. QED
      BY <2>1, <2>3, <3>1, <3>2
  <2>4. QED
    BY <2>2, <2>3
<1>3. u = [n \in Nat |-> u[n]]
  OBVIOUS
<1> HIDE DEF u
<1>4. u = [n \in Nat |-> IF n = 0 THEN 0 ELSE u[n - 1] + f[n]]
  BY <1>2, <1>3
<1>5. QED
  BY <1>4

(* One element at a time.                                                   *)
LEMMA SumToStep ==
    ASSUME NEW f
    PROVE  /\ SumTo(f, 0) = 0
           /\ \A n \in Nat : SumTo(f, n + 1) = SumTo(f, n) + f[n + 1]
<1> DEFINE u == CHOOSE u : u = [k \in Nat |-> IF k = 0 THEN 0 ELSE u[k - 1] + f[k]]
<1>1. u = [k \in Nat |-> IF k = 0 THEN 0 ELSE u[k - 1] + f[k]]
  BY UpToExists
<1>2. \A n : SumTo(f, n) = u[n]
  BY DEF SumTo
<1> HIDE DEF u
<1>3. u[0] = 0 /\ \A n \in Nat : u[n + 1] = u[n] + f[n + 1]
  BY <1>1
<1>4. QED
  BY <1>2, <1>3

(* A sum of integers is an integer.                                         *)
LEMMA SumToInt ==
    ASSUME NEW f, NEW n \in Nat, \A k \in 1 .. n : f[k] \in Int
    PROVE  SumTo(f, n) \in Int
<1> DEFINE Wrong == {k \in Nat : k <= n /\ SumTo(f, k) \notin Int}
<1> SUFFICES ASSUME Wrong # {} PROVE FALSE
  OBVIOUS
<1>1. PICK k \in Wrong : \A j \in Wrong : k <= j
  BY LeastNatural
<1>2. k \in Nat /\ k <= n /\ SumTo(f, k) \notin Int
  OBVIOUS
<1>3. CASE k = 0
  BY <1>2, <1>3, SumToStep
<1>4. CASE k # 0
  <2>1. k - 1 \in Nat /\ k - 1 \notin Wrong
    BY <1>1, <1>2, <1>4
  <2>2. SumTo(f, k - 1) \in Int /\ f[k] \in Int
    BY <1>2, <1>4, <2>1
  <2>3. SumTo(f, (k - 1) + 1) = SumTo(f, k - 1) + f[(k - 1) + 1]
    BY <2>1, SumToStep
  <2>4. (k - 1) + 1 = k
    BY <1>2
  <2>5. SumTo(f, k) = SumTo(f, k - 1) + f[k]
    BY <2>3, <2>4
  <2>6. QED
    BY <1>2, <2>2, <2>5
<1>5. QED
  BY <1>3, <1>4

(* Two sequences that differ at most at i: their sums differ by as much.    *)
LEMMA SumToChanged ==
    ASSUME NEW f, NEW g, NEW n \in Nat, NEW i \in 1 .. n,
           \A k \in 1 .. n : f[k] \in Int /\ g[k] \in Int,
           \A k \in 1 .. n : k # i => g[k] = f[k]
    PROVE  SumTo(g, n) = SumTo(f, n) - f[i] + g[i]
<1> DEFINE Diff(k) == IF k < i THEN 0 ELSE g[i] - f[i]
           Wrong == {k \in Nat : k <= n /\ SumTo(g, k) # SumTo(f, k) + Diff(k)}
<1>1. SUFFICES Wrong = {}
  <2>1. n \notin Wrong
    BY <1>1
  <2>2. SumTo(g, n) = SumTo(f, n) + (g[i] - f[i])
    BY <2>1
  <2>3. SumTo(f, n) \in Int
    BY SumToInt
  <2>4. QED
    BY <2>2, <2>3
<1> SUFFICES ASSUME Wrong # {} PROVE FALSE
  OBVIOUS
<1>2. PICK k \in Wrong : \A j \in Wrong : k <= j
  BY LeastNatural
<1>3. k \in Nat /\ k <= n /\ SumTo(g, k) # SumTo(f, k) + Diff(k)
  OBVIOUS
<1>4. CASE k = 0
  BY <1>3, <1>4, SumToStep
<1>5. CASE k # 0
  <2>1. k - 1 \in Nat /\ k - 1 \notin Wrong
    BY <1>2, <1>3, <1>5
  <2>2. SumTo(g, k - 1) = SumTo(f, k - 1) + Diff(k - 1)
    BY <1>3, <2>1
  <2>3. /\ SumTo(f, (k - 1) + 1) = SumTo(f, k - 1) + f[(k - 1) + 1]
        /\ SumTo(g, (k - 1) + 1) = SumTo(g, k - 1) + g[(k - 1) + 1]
    BY <2>1, SumToStep
  <2>4. (k - 1) + 1 = k
    BY <1>3
  <2>5. SumTo(f, k) = SumTo(f, k - 1) + f[k] /\ SumTo(g, k) = SumTo(g, k - 1) + g[k]
    BY <2>3, <2>4
  <2>6. SumTo(f, k - 1) \in Int
    <3>1. \A j \in 1 .. k - 1 : f[j] \in Int
      BY <1>3
    <3>2. QED
      BY <2>1, <3>1, SumToInt
  <2>7. f[k] \in Int /\ g[k] \in Int /\ f[i] \in Int /\ g[i] \in Int /\ (k # i => g[k] = f[k])
    BY <1>3, <1>5
  <2>8. CASE k = i
    <3>1. Diff(k - 1) = 0 /\ Diff(k) = g[i] - f[i]
      BY <1>3, <2>8
    <3>2. QED
      BY <1>3, <2>2, <2>5, <2>6, <2>7, <2>8, <3>1
  <2>9. CASE k # i
    <3>1. Diff(k - 1) = Diff(k)
      BY <1>3, <2>9
    <3>2. Diff(k) \in Int
      BY <2>7
    <3> HIDE DEF Diff
    <3>3. QED
      BY <1>3, <2>2, <2>5, <2>6, <2>7, <2>9, <3>1, <3>2
  <2>10. QED
    BY <2>8, <2>9
<1>6. QED
  BY <1>4, <1>5

(* The sum as far as n looks at the first n elements only.                  *)
LEMMA SumToSame ==
    ASSUME NEW f, NEW g, NEW n \in Nat, \A k \in 1 .. n : f[k] = g[k]
    PROVE  SumTo(f, n) = SumTo(g, n)
<1> DEFINE Wrong == {k \in Nat : k <= n /\ SumTo(g, k) # SumTo(f, k)}
<1>1. SUFFICES Wrong = {}
  BY <1>1
<1> SUFFICES ASSUME Wrong # {} PROVE FALSE
  OBVIOUS
<1>2. PICK k \in Wrong : \A j \in Wrong : k <= j
  BY LeastNatural
<1>3. k \in Nat /\ k <= n /\ SumTo(g, k) # SumTo(f, k)
  OBVIOUS
<1>4. CASE k = 0
  BY <1>3, <1>4, SumToStep
<1>5. CASE k # 0
  <2>1. k - 1 \in Nat /\ k - 1 \notin Wrong
    BY <1>2, <1>3, <1>5
  <2>2. SumTo(g, k - 1) = SumTo(f, k - 1) /\ f[k] = g[k]
    BY <1>3, <1>5, <2>1
  <2>3. /\ SumTo(f, (k - 1) + 1) = SumTo(f, k - 1) + f[(k - 1) + 1]
        /\ SumTo(g, (k - 1) + 1) = SumTo(g, k - 1) + g[(k - 1) + 1]
    BY <2>1, SumToStep
  <2>4. (k - 1) + 1 = k
    BY <1>3
  <2>5. QED
    BY <1>3, <2>2, <2>3, <2>4
<1>6. QED
  BY <1>4, <1>5

(* A sum with one element that is not 0 is that element.                    *)
LEMMA SumToSingle ==
    ASSUME NEW f, NEW n \in Nat, NEW i \in 1 .. n, f[i] \in Int,
           \A k \in 1 .. n : k # i => f[k] = 0
    PROVE  SumTo(f, n) = f[i]
<1> DEFINE Want(k) == IF k < i THEN 0 ELSE f[i]
           Wrong == {k \in Nat : k <= n /\ SumTo(f, k) # Want(k)}
<1>1. SUFFICES Wrong = {}
  BY <1>1
<1> SUFFICES ASSUME Wrong # {} PROVE FALSE
  OBVIOUS
<1>2. PICK k \in Wrong : \A j \in Wrong : k <= j
  BY LeastNatural
<1>3. k \in Nat /\ k <= n /\ SumTo(f, k) # Want(k)
  OBVIOUS
<1>4. CASE k = 0
  BY <1>3, <1>4, SumToStep
<1>5. CASE k # 0
  <2>1. k - 1 \in Nat /\ k - 1 \notin Wrong
    BY <1>2, <1>3, <1>5
  <2>2. SumTo(f, k - 1) = Want(k - 1)
    BY <1>3, <2>1
  <2>3. SumTo(f, (k - 1) + 1) = SumTo(f, k - 1) + f[(k - 1) + 1]
    BY <2>1, SumToStep
  <2>4. (k - 1) + 1 = k
    BY <1>3
  <2>5. SumTo(f, k) = SumTo(f, k - 1) + f[k]
    BY <2>3, <2>4
  <2>6. k # i => f[k] = 0
    BY <1>3, <1>5
  <2>7. QED
    BY <1>3, <2>2, <2>5, <2>6
<1>6. QED
  BY <1>4, <1>5

(* The sum of a sequence that got one more element.                         *)
LEMMA TotalAppend ==
    ASSUME NEW f \in Seq(Int), NEW x \in Int
    PROVE  Total(Append(f, x)) = Total(f) + x
<1> DEFINE g == Append(f, x)
<1>1. Len(f) \in Nat /\ Len(g) = Len(f) + 1 /\ g[Len(f) + 1] = x
  OBVIOUS
<1>2. \A k \in 1 .. Len(f) : f[k] = g[k]
  OBVIOUS
<1> HIDE DEF g
<1>3. SumTo(f, Len(f)) = SumTo(g, Len(f))
  BY <1>1, <1>2, SumToSame
<1>4. SumTo(g, Len(f) + 1) = SumTo(g, Len(f)) + g[Len(f) + 1]
  BY <1>1, SumToStep
<1>5. Total(g) = Total(f) + x
  BY <1>1, <1>3, <1>4 DEF Total
<1>6. QED
  BY <1>5 DEF g

(* The empty sum is 0, and a sum of integers is an integer.                 *)
LEMMA TotalInt ==
    ASSUME NEW f \in Seq(Int) PROVE Total(f) \in Int
  BY SumToInt DEF Total

LEMMA TotalEmpty == Total(<< >>) = 0
  BY SumToStep DEF Total

(* A sum of zeros is 0.                                                     *)
LEMMA SumToZero ==
    ASSUME NEW f, NEW n \in Nat, \A k \in 1 .. n : f[k] = 0
    PROVE  SumTo(f, n) = 0
<1>1. CASE n = 0
  BY <1>1, SumToStep
<1>2. CASE n # 0
  <2>1. n \in 1 .. n /\ f[n] = 0 /\ f[n] \in Int
    BY <1>2
  <2>2. \A k \in 1 .. n : k # n => f[k] = 0
    OBVIOUS
  <2>3. SumTo(f, n) = f[n]
    BY <2>1, <2>2, SumToSingle
  <2>4. QED
    BY <2>1, <2>3
<1>3. QED
  BY <1>1, <1>2

(* The first m elements of h are the first a of f, then the first n of g.   *)
Joined(h, m, f, a, g, n) ==
    /\ a \in Nat /\ n \in Nat /\ m = a + n
    /\ \A k \in 1 .. a : h[k] = f[k] /\ f[k] \in Int
    /\ \A k \in 1 .. n : h[a + k] = g[k] /\ g[k] \in Int

(* The sum of two sequences, one after the other.                           *)
LEMMA SumToConcat ==
    ASSUME NEW h, NEW f, NEW g, NEW a, NEW n, NEW m, Joined(h, m, f, a, g, n)
    PROVE  SumTo(h, m) = SumTo(f, a) + SumTo(g, n)
<1> /\ a \in Nat /\ n \in Nat /\ m = a + n
    /\ \A k \in 1 .. a : h[k] = f[k] /\ f[k] \in Int
    /\ \A k \in 1 .. n : h[a + k] = g[k] /\ g[k] \in Int
  BY DEF Joined
<1> DEFINE Wrong == {k \in Nat : k <= n /\ SumTo(h, a + k) # SumTo(f, a) + SumTo(g, k)}
<1>1. SUFFICES Wrong = {}
  <2>1. n \notin Wrong
    BY <1>1
  <2>2. QED
    BY <2>1
<1> SUFFICES ASSUME Wrong # {} PROVE FALSE
  OBVIOUS
<1>2. PICK k \in Wrong : \A j \in Wrong : k <= j
  BY LeastNatural
<1>3. k \in Nat /\ k <= n /\ SumTo(h, a + k) # SumTo(f, a) + SumTo(g, k)
  OBVIOUS
<1>4. SumTo(f, a) \in Int
  BY SumToInt
<1>5. CASE k = 0
  <2>1. SumTo(h, a) = SumTo(f, a)
    BY SumToSame
  <2>2. SumTo(g, 0) = 0 /\ a + 0 = a
    BY SumToStep
  <2>3. QED
    BY <1>3, <1>4, <1>5, <2>1, <2>2
<1>6. CASE k # 0
  <2>1. k - 1 \in Nat /\ k - 1 \notin Wrong
    BY <1>2, <1>3, <1>6
  <2>2. SumTo(h, a + (k - 1)) = SumTo(f, a) + SumTo(g, k - 1)
    BY <1>3, <2>1
  <2>3. SumTo(g, (k - 1) + 1) = SumTo(g, k - 1) + g[(k - 1) + 1]
    BY <2>1, SumToStep
  <2>4. SumTo(h, (a + (k - 1)) + 1) = SumTo(h, a + (k - 1)) + h[(a + (k - 1)) + 1]
    BY <2>1, SumToStep
  <2>5. (k - 1) + 1 = k /\ (a + (k - 1)) + 1 = a + k
    BY <1>3
  <2>6. h[a + k] = g[k] /\ g[k] \in Int
    BY <1>3, <1>6
  <2>7. SumTo(g, k - 1) \in Int
    <3>1. \A j \in 1 .. k - 1 : g[j] \in Int
      BY <1>3
    <3>2. QED
      BY <2>1, <3>1, SumToInt
  <2>8. SumTo(g, k) = SumTo(g, k - 1) + g[k]
    BY <2>3, <2>5
  <2>9. SumTo(h, a + k) = SumTo(h, a + (k - 1)) + g[k]
    BY <2>4, <2>5, <2>6
  <2>10. QED
    BY <1>3, <1>4, <2>2, <2>6, <2>7, <2>8, <2>9
<1>7. QED
  BY <1>5, <1>6

(* The first m elements of f are pairs: each of the first n of g, with its  *)
(* sign, and 0.                                                             *)
Paired(f, m, g, n, sign) ==
    /\ n \in Nat /\ m = 2 * n
    /\ \A k \in 1 .. n : g[k] \in Int /\ f[2 * k - 1] = sign * g[k] /\ f[2 * k] = 0

LEMMA SumToPairs ==
    ASSUME NEW f, NEW g, NEW n, NEW m, NEW sign \in {1, -1}, Paired(f, m, g, n, sign)
    PROVE  SumTo(f, m) = sign * SumTo(g, n)
<1> /\ n \in Nat /\ m = 2 * n
    /\ \A k \in 1 .. n : g[k] \in Int /\ f[2 * k - 1] = sign * g[k] /\ f[2 * k] = 0
  BY DEF Paired
<1> DEFINE Wrong == {k \in Nat : k <= n /\ SumTo(f, 2 * k) # sign * SumTo(g, k)}
<1>1. SUFFICES Wrong = {}
  <2>1. n \notin Wrong
    BY <1>1
  <2>2. QED
    BY <2>1
<1> SUFFICES ASSUME Wrong # {} PROVE FALSE
  OBVIOUS
<1>2. PICK k \in Wrong : \A j \in Wrong : k <= j
  BY LeastNatural
<1>3. k \in Nat /\ k <= n /\ SumTo(f, 2 * k) # sign * SumTo(g, k)
  OBVIOUS
<1>4. CASE k = 0
  <2>1. SumTo(f, 0) = 0 /\ SumTo(g, 0) = 0 /\ 2 * 0 = 0
    BY SumToStep
  <2>2. sign * 0 = 0
    OBVIOUS
  <2>3. QED
    BY <1>3, <1>4, <2>1, <2>2
<1>5. CASE k # 0
  <2>1. k - 1 \in Nat /\ k - 1 \notin Wrong /\ 2 * (k - 1) \in Nat
    BY <1>2, <1>3, <1>5
  <2>2. SumTo(f, 2 * (k - 1)) = sign * SumTo(g, k - 1)
    BY <1>3, <2>1
  <2>3. SumTo(g, (k - 1) + 1) = SumTo(g, k - 1) + g[(k - 1) + 1]
    BY <2>1, SumToStep
  <2>4. SumTo(f, 2 * (k - 1) + 1) = SumTo(f, 2 * (k - 1)) + f[2 * (k - 1) + 1]
    BY <2>1, SumToStep
  <2>5. 2 * (k - 1) + 1 \in Nat
    BY <2>1
  <2>6. SumTo(f, (2 * (k - 1) + 1) + 1) = SumTo(f, 2 * (k - 1) + 1) + f[(2 * (k - 1) + 1) + 1]
    BY <2>5, SumToStep
  <2>7. (k - 1) + 1 = k /\ 2 * (k - 1) + 1 = 2 * k - 1 /\ (2 * (k - 1) + 1) + 1 = 2 * k
    BY <1>3
  <2>8. g[k] \in Int /\ f[2 * k - 1] = sign * g[k] /\ f[2 * k] = 0
    BY <1>3, <1>5
  <2>9. SumTo(g, k - 1) \in Int
    <3>1. \A j \in 1 .. k - 1 : g[j] \in Int
      BY <1>3
    <3>2. QED
      BY <2>1, <3>1, SumToInt
  <2>10. SumTo(g, k) = SumTo(g, k - 1) + g[k]
    BY <2>3, <2>7
  <2>11. SumTo(f, 2 * k - 1) = sign * SumTo(g, k - 1) + sign * g[k]
    BY <2>2, <2>4, <2>7, <2>8
  <2>12. SumTo(f, 2 * k) = SumTo(f, 2 * k - 1) + 0
    BY <2>6, <2>7, <2>8
  <2>13. CASE sign = 1
    BY <1>3, <2>8, <2>9, <2>10, <2>11, <2>12, <2>13
  <2>14. CASE sign = -1
    BY <1>3, <2>8, <2>9, <2>10, <2>11, <2>12, <2>14
  <2>15. QED
    BY <2>13, <2>14
<1>6. QED
  BY <1>4, <1>5

=============================================================================
