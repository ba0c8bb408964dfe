------------------------------ MODULE SumProofs ------------------------------
(***************************************************************************)
(* What updating one point does to a sum.  The proofs go by induction,     *)
(* which the well-foundedness of < on the naturals gives in the form       *)
(* needed here: a set of naturals that holds 0 and is closed under         *)
(* successor below n holds 0 .. n.                                         *)
(***************************************************************************)
EXTENDS Sums, WellFoundedInduction, TLAPS

-----------------------------------------------------------------------------
\* A non-empty set of naturals has a smallest element.
LEMMA SmallestElement ==
    ASSUME NEW S \in SUBSET Nat, S # {}
    PROVE  \E n \in S : \A m \in S : n <= m
<1> DEFINE Less == {ss \in Nat \X Nat : ss[1] < ss[2]}
<1>1. IsWellFoundedOn(Less, Nat)
  BY NatLessThanWellFounded DEF OpToRel
<1>2. \A i, j \in Nat : i < j => <<i, j>> \in Less
  OBVIOUS
<1> HIDE DEF Less
<1>3. PICK n \in S : \A m \in S : ~(<<m, n>> \in Less)
  BY <1>1, WFMin
<1>4. \A m \in S : m \in Nat /\ n \in Nat /\ ~(m < n)
  BY <1>2, <1>3
<1> QED BY <1>4

\* Induction from 0 up to n.
LEMMA InductionUpTo ==
    ASSUME NEW n \in Nat, NEW S, 0 \in S,
           \A k \in 0 .. n - 1 : k \in S => k + 1 \in S
    PROVE  0 .. n \subseteq S
<1> DEFINE T == (0 .. n) \ S
<1>1. SUFFICES ASSUME T # {} PROVE FALSE
  OBVIOUS
<1>2. PICK k \in T : \A m \in T : k <= m
  <2>1. T \in SUBSET Nat
    OBVIOUS
  <2> HIDE DEF T
  <2> QED BY <1>1, <2>1, SmallestElement
<1>3. k - 1 \in 0 .. n - 1 /\ k - 1 \notin T
  BY <1>2
<1> QED BY <1>2, <1>3

-----------------------------------------------------------------------------
\* g lists the partial sums of f up to n.
PartialSums(g, f, n) ==
    /\ g \in [0 .. n -> Int]
    /\ g[0] = 0
    /\ \A i \in 1 .. n : g[i] = g[i - 1] + f[i - 1]

\* Every function of integers has partial sums.
LEMMA PartialSumsExist ==
    ASSUME NEW n \in Nat, NEW f \in [0 .. n - 1 -> Int]
    PROVE  \E g : PartialSums(g, f, n)
<1> DEFINE S == {k \in 0 .. n : \E g : PartialSums(g, f, k)}
<1>1. 0 \in S
  <2>1. PartialSums([i \in 0 .. 0 |-> 0], f, 0)
    BY DEF PartialSums
  <2> QED BY <2>1
<1>2. ASSUME NEW k \in 0 .. n - 1, k \in S PROVE k + 1 \in S
  <2>1. PICK g : PartialSums(g, f, k)
    BY <1>2
  <2> DEFINE h == [i \in 0 .. k + 1 |-> IF i = k + 1 THEN g[k] + f[k] ELSE g[i]]
  <2>2. g[k] + f[k] \in Int /\ \A i \in 0 .. k : g[i] \in Int
    BY <2>1 DEF PartialSums
  <2>3. h \in [0 .. k + 1 -> Int]
    BY <2>2
  <2>4. h[0] = 0 /\ \A i \in 1 .. k + 1 : h[i] = h[i - 1] + f[i - 1]
    BY <2>1 DEF PartialSums
  <2>5. PartialSums(h, f, k + 1)
    BY <2>3, <2>4 DEF PartialSums
  <2> QED BY <2>5
<1> HIDE DEF S
<1>3. 0 .. n \subseteq S
  BY <1>1, <1>2, InductionUpTo
<1>4. n \in S
  BY <1>3
<1> QED BY <1>4 DEF S

\* The partial sums are determined by the function.
LEMMA PartialSumsUnique ==
    ASSUME NEW n \in Nat, NEW f, NEW g, NEW h,
           PartialSums(g, f, n), PartialSums(h, f, n)
    PROVE  g = h
<1> DEFINE S == {k \in 0 .. n : g[k] = h[k]}
<1>1. 0 \in S
  BY DEF PartialSums
<1>2. ASSUME NEW k \in 0 .. n - 1, k \in S PROVE k + 1 \in S
  <2>1. k + 1 \in 1 .. n /\ (k + 1) - 1 = k
    OBVIOUS
  <2> QED BY <1>2, <2>1 DEF PartialSums
<1> HIDE DEF S
<1>3. 0 .. n \subseteq S
  BY <1>1, <1>2, InductionUpTo
<1> QED BY <1>3 DEF S, PartialSums

\* SumBelow is the last partial sum, however the partial sums were obtained.
THEOREM SumIsPartialSum ==
    ASSUME NEW n \in Nat, NEW f \in [0 .. n - 1 -> Int], NEW g, PartialSums(g, f, n)
    PROVE  SumBelow(f, n) = g[n]
<1> DEFINE Eq(h) == h = [i \in 0 .. n |-> IF i = 0 THEN 0 ELSE h[i - 1] + f[i - 1]]
           s == CHOOSE h : Eq(h)
<1>1. ASSUME NEW h, Eq(h) PROVE h = g
  <2>1. h[0] = 0 /\ \A i \in 1 .. n : h[i] = h[i - 1] + f[i - 1]
    BY <1>1
  <2> DEFINE S == {k \in 0 .. n : h[k] = g[k]}
  <2>2. 0 \in S
    BY <2>1 DEF PartialSums
  <2>3. ASSUME NEW k \in 0 .. n - 1, k \in S PROVE k + 1 \in S
    <3>1. k + 1 \in 1 .. n /\ (k + 1) - 1 = k
      OBVIOUS
    <3> QED BY <2>1, <2>3, <3>1 DEF PartialSums
  <2> HIDE DEF S
  <2>4. 0 .. n \subseteq S
    BY <2>2, <2>3, InductionUpTo
  <2>5. DOMAIN h = 0 .. n /\ h = [i \in 0 .. n |-> h[i]]
    BY <1>1
  <2>6. g = [i \in 0 .. n |-> g[i]]
    BY DEF PartialSums
  <2> QED BY <2>4, <2>5, <2>6 DEF S
<1>2. Eq(g)
  BY DEF PartialSums
<1>3. s = g
  BY <1>1, <1>2
<1>4. SumBelow(f, n) = s[n]
  BY DEF SumBelow
<1> QED BY <1>3, <1>4

\* Nothing but zeros sums to zero.
LEMMA SumOfZeros ==
    ASSUME NEW n \in Nat, NEW f \in [0 .. n - 1 -> Int], \A i \in 0 .. n - 1 : f[i] = 0
    PROVE  SumBelow(f, n) = 0
<1> DEFINE g == [i \in 0 .. n |-> 0]
<1>1. \A i \in 1 .. n : i - 1 \in 0 .. n - 1 /\ i - 1 \in 0 .. n
  OBVIOUS
<1>2. PartialSums(g, f, n)
  BY <1>1 DEF PartialSums
<1> QED BY <1>2, SumIsPartialSum

\* Updating one point moves the sum by the difference.
LEMMA SumOfUpdate ==
    ASSUME NEW n \in Nat, NEW f \in [0 .. n - 1 -> Int],
           NEW u \in 0 .. n - 1, NEW x \in Int
    PROVE  SumBelow([f EXCEPT ![u] = x], n) = SumBelow(f, n) + x - f[u]
<1> DEFINE e == [f EXCEPT ![u] = x]
<1>1. PICK g : PartialSums(g, f, n)
  BY PartialSumsExist
<1> DEFINE h == [i \in 0 .. n |-> IF i <= u THEN g[i] ELSE g[i] + x - f[u]]
<1>2. \A i \in 0 .. n : g[i] \in Int
  BY <1>1 DEF PartialSums
<1>3. e \in [0 .. n - 1 -> Int] /\ \A i \in 0 .. n - 1 : e[i] = IF i = u THEN x ELSE f[i]
  OBVIOUS
<1>4. PartialSums(h, e, n)
  <2>1. h \in [0 .. n -> Int]
    BY <1>2
  <2>2. h[0] = 0
    BY <1>1 DEF PartialSums
  <2>3. ASSUME NEW i \in 1 .. n PROVE h[i] = h[i - 1] + e[i - 1]
    <3>1. i \in 0 .. n /\ i - 1 \in 0 .. n /\ i - 1 \in 0 .. n - 1
      OBVIOUS
    <3>2. g[i] = g[i - 1] + f[i - 1] /\ f[i - 1] \in Int /\ f[u] \in Int
      BY <1>1, <3>1 DEF PartialSums
    <3> QED BY <1>2, <1>3, <3>1, <3>2
  <2> QED BY <2>1, <2>2, <2>3 DEF PartialSums
<1>5. SumBelow(f, n) = g[n]
  BY <1>1, SumIsPartialSum
<1>6. SumBelow(e, n) = h[n]
  BY <1>3, <1>4, SumIsPartialSum
<1>7. h[n] = g[n] + x - f[u]
  OBVIOUS
<1> QED BY <1>5, <1>6, <1>7

\* No term of a sum of naturals exceeds it.
LEMMA TermBelowSum ==
    ASSUME NEW n \in Nat, NEW f \in [0 .. n - 1 -> Nat], NEW u \in 0 .. n - 1
    PROVE  f[u] <= SumBelow(f, n)
<1>f. f \in [0 .. n - 1 -> Int]
  OBVIOUS
<1>1. PICK g : PartialSums(g, f, n)
  BY <1>f, PartialSumsExist
<1> DEFINE S == {i \in 0 .. n : g[i] >= 0 /\ (i > u => g[i] >= f[u])}
<1>2. 0 \in S
  BY <1>1 DEF PartialSums
<1>3. ASSUME NEW k \in 0 .. n - 1, k \in S PROVE k + 1 \in S
  <2>1. k + 1 \in 1 .. n /\ (k + 1) - 1 = k
    OBVIOUS
  <2>2. g[k + 1] = g[k] + f[k] /\ g[k] \in Int /\ f[k] \in Nat /\ f[u] \in Nat
    BY <1>1, <2>1 DEF PartialSums
  <2> QED BY <1>3, <2>1, <2>2
<1>4. 0 .. n \subseteq S
  <2> HIDE DEF S
  <2> QED BY <1>2, <1>3, InductionUpTo
<1>5. n \in S /\ n > u
  BY <1>4
<1>6. SumBelow(f, n) = g[n]
  BY <1>f, <1>1, SumIsPartialSum
<1> QED BY <1>5, <1>6
=============================================================================
