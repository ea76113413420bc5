--------------------------- MODULE TableSumProofs ---------------------------
(***************************************************************************)
(* What SumUpTo computes, for tables of every length, and the two facts    *)
(* about the naturals that these proofs, and others, rest on: induction is *)
(* stated for sets instead of predicates, and obtained from the            *)
(* well-foundedness of < on Nat.                                           *)
(***************************************************************************)
EXTENDS TableSums, WellFoundedInduction, TLAPS

(* Every nonempty set of naturals has a least element.                     *)
LEMMA LeastElement ==
  ASSUME NEW T \in SUBSET Nat, T # {}
  PROVE  \E m \in T : \A k \in T : m <= k
<1>1. IsWellFoundedOn(OpToRel(<, Nat), Nat)
  BY NatLessThanWellFounded
<1>2. PICK x \in T : \A y \in T : <<y, x>> \notin OpToRel(<, Nat)
  BY <1>1, WFMin, Zenon
<1>3. \A y \in T : ~(y < x)
  BY <1>2 DEF OpToRel
<1> QED
  BY <1>3

(* A set of naturals with 0 that is closed under successor is Nat.         *)
LEMMA SetInduction ==
  ASSUME NEW S \in SUBSET Nat, 0 \in S, \A n \in S : n + 1 \in S
  PROVE  S = Nat
<1> SUFFICES ASSUME Nat \ S # {} PROVE FALSE
  OBVIOUS
<1>1. PICK m \in Nat \ S : \A k \in Nat \ S : m <= k
  BY LeastElement
<1>2. m - 1 \in Nat /\ m - 1 \notin Nat \ S
  BY <1>1
<1> QED
  BY <1>1, <1>2

-----------------------------------------------------------------------------
(* The table of partial sums that SumUpTo's recursive function stands for. *)
IsPartialSum(s, f, n) ==
  s = [i \in 0..n |-> IF i = 0 THEN 0 ELSE s[i - 1] + f[i]]

LEMMA PartialSumUnfold ==
  ASSUME NEW s, NEW f, NEW n \in Nat, IsPartialSum(s, f, n), NEW i \in 0..n
  PROVE  s[i] = IF i = 0 THEN 0 ELSE s[i - 1] + f[i]
BY DEF IsPartialSum

(* Partial sums exist for every table.                                     *)
LEMMA PartialSumExists ==
  ASSUME NEW f, NEW n \in Nat
  PROVE  \E s : IsPartialSum(s, f, n)
<1> DEFINE S == {k \in Nat : \E s : IsPartialSum(s, f, k)}
<1>1. 0 \in S
  <2> DEFINE z == [i \in 0..0 |-> 0]
  <2>1. IsPartialSum(z, f, 0)
    BY DEF IsPartialSum
  <2> QED
    BY <2>1
<1>2. ASSUME NEW k \in S PROVE k + 1 \in S
  <2>1. PICK s : IsPartialSum(s, f, k)
    OBVIOUS
  <2> DEFINE t == [i \in 0..(k + 1) |-> IF i = k + 1 THEN s[k] + f[i] ELSE s[i]]
  <2>2. \A i \in 0..(k + 1) : t[i] = IF i = 0 THEN 0 ELSE t[i - 1] + f[i]
    <3> TAKE i \in 0..(k + 1)
    <3>1. CASE i = k + 1
      BY <3>1
    <3>2. CASE i # k + 1
      <4>1. i \in 0..k
        BY <3>2
      <4>2. s[i] = IF i = 0 THEN 0 ELSE s[i - 1] + f[i]
        BY <4>1, <2>1, PartialSumUnfold
      <4> QED
        BY <4>1, <4>2
    <3> QED
      BY <3>1, <3>2
  <2>3. t = [i \in 0..(k + 1) |-> IF i = 0 THEN 0 ELSE t[i - 1] + f[i]]
    BY <2>2
  <2>4. IsPartialSum(t, f, k + 1)
    BY <2>3 DEF IsPartialSum
  <2>5. \E u : IsPartialSum(u, f, k + 1)
    <3> HIDE DEF t
    <3> QED
      BY <2>4
  <2> QED
    BY <2>5
<1>3. S \subseteq Nat
  OBVIOUS
<1>4. S = Nat
  <2> HIDE DEF S
  <2> QED
    BY <1>1, <1>2, <1>3, SetInduction
<1> QED
  BY <1>4

(* A longer table of partial sums agrees with a shorter one.               *)
LEMMA PartialSumsAgree ==
  ASSUME NEW f, NEW n \in Nat, NEW m \in Nat, n <= m, NEW s, NEW t,
         IsPartialSum(s, f, n), IsPartialSum(t, f, m)
  PROVE  \A i \in 0..n : s[i] = t[i]
<1> DEFINE S == {i \in Nat : i <= n => s[i] = t[i]}
<1>1. 0 \in S
  BY PartialSumUnfold
<1>2. ASSUME NEW k \in S PROVE k + 1 \in S
  <2>1. CASE k + 1 <= n
    <3>1. k + 1 \in 0..n /\ k + 1 \in 0..m /\ k + 1 # 0 /\ (k + 1) - 1 = k
      BY <2>1
    <3>2. s[k + 1] = s[k] + f[k + 1] /\ t[k + 1] = t[k] + f[k + 1]
      BY <3>1, PartialSumUnfold
    <3> QED
      BY <3>2, <2>1
  <2> QED
    BY <2>1
<1>3. S = Nat
  <2>1. S \subseteq Nat
    OBVIOUS
  <2> HIDE DEF S
  <2> QED
    BY <1>1, <1>2, <2>1, SetInduction
<1> QED
  BY <1>3

LEMMA SumIsPartialSum ==
  ASSUME NEW f, NEW n \in Nat, NEW s, IsPartialSum(s, f, n)
  PROVE  SumUpTo(f, n) = s[n]
<1> DEFINE c == CHOOSE u : u = [i \in 0..n |-> IF i = 0 THEN 0 ELSE u[i - 1] + f[i]]
<1>1. c = [i \in 0..n |-> IF i = 0 THEN 0 ELSE c[i - 1] + f[i]]
  BY DEF IsPartialSum
<1>2. IsPartialSum(c, f, n)
  BY <1>1 DEF IsPartialSum
<1>3. SumUpTo(f, n) = c[n]
  BY DEF SumUpTo
<1> QED
  <2> HIDE DEF c
  <2> QED
    BY <1>2, <1>3, PartialSumsAgree, n \in 0..n, n <= n

-----------------------------------------------------------------------------
(* The recursion equations of SumUpTo.                                     *)
LEMMA SumZero ==
  ASSUME NEW f
  PROVE  SumUpTo(f, 0) = 0
<1>1. PICK s : IsPartialSum(s, f, 0)
  BY PartialSumExists
<1>2. s[0] = 0
  BY <1>1, PartialSumUnfold
<1> QED
  BY <1>1, <1>2, SumIsPartialSum

LEMMA SumStep ==
  ASSUME NEW f, NEW n \in Nat
  PROVE  SumUpTo(f, n + 1) = SumUpTo(f, n) + f[n + 1]
<1>1. PICK s : IsPartialSum(s, f, n)
  BY PartialSumExists
<1>2. PICK t : IsPartialSum(t, f, n + 1)
  BY PartialSumExists
<1>3. t[n + 1] = t[n] + f[n + 1]
  <2>1. n + 1 \in 0..(n + 1) /\ n + 1 # 0 /\ (n + 1) - 1 = n
    OBVIOUS
  <2> QED
    BY <1>2, <2>1, PartialSumUnfold
<1>4. t[n] = s[n]
  BY <1>1, <1>2, PartialSumsAgree, n \in 0..n, n <= n + 1, n + 1 \in Nat
<1>5. SumUpTo(f, n) = s[n]
  BY <1>1, SumIsPartialSum
<1>6. SumUpTo(f, n + 1) = t[n + 1]
  BY <1>2, SumIsPartialSum
<1> QED
  BY <1>3, <1>4, <1>5, <1>6

(* A sum of natural numbers is a natural number.                           *)
THEOREM SumNat ==
  ASSUME NEW n \in Nat, NEW f, \A i \in 1..n : f[i] \in Nat
  PROVE  SumUpTo(f, n) \in Nat
<1> DEFINE S == {k \in Nat : k <= n => SumUpTo(f, k) \in Nat}
<1>1. 0 \in S
  BY SumZero
<1>2. ASSUME NEW k \in S PROVE k + 1 \in S
  BY SumStep, k + 1 <= n => k + 1 \in 1..n
<1>3. S = Nat
  <2>1. S \subseteq Nat
    OBVIOUS
  <2> HIDE DEF S
  <2> QED
    BY <1>1, <1>2, <2>1, SetInduction
<1> QED
  BY <1>3

(* The sum depends only on the rows summed.                                *)
THEOREM SumEqual ==
  ASSUME NEW n \in Nat, NEW f, NEW g, \A i \in 1..n : f[i] = g[i]
  PROVE  SumUpTo(f, n) = SumUpTo(g, n)
<1> DEFINE S == {k \in Nat : k <= n => SumUpTo(f, k) = SumUpTo(g, k)}
<1>1. 0 \in S
  BY SumZero
<1>2. ASSUME NEW k \in S PROVE k + 1 \in S
  BY SumStep, k + 1 <= n => k + 1 \in 1..n
<1>3. S = Nat
  <2>1. S \subseteq Nat
    OBVIOUS
  <2> HIDE DEF S
  <2> QED
    BY <1>1, <1>2, <2>1, SetInduction
<1> QED
  BY <1>3

(* Raising rows raises the sum.                                            *)
THEOREM SumMonotone ==
  ASSUME NEW n \in Nat, NEW f, NEW g,
         \A i \in 1..n : f[i] \in Nat /\ g[i] \in Nat /\ f[i] <= g[i]
  PROVE  SumUpTo(f, n) <= SumUpTo(g, n)
<1> DEFINE S == {k \in Nat : k <= n => /\ SumUpTo(f, k) \in Nat /\ SumUpTo(g, k) \in Nat
                                       /\ SumUpTo(f, k) <= SumUpTo(g, k)}
<1>1. 0 \in S
  BY SumZero
<1>2. ASSUME NEW k \in S PROVE k + 1 \in S
  BY SumStep, k + 1 <= n => k + 1 \in 1..n
<1>3. S = Nat
  <2>1. S \subseteq Nat
    OBVIOUS
  <2> HIDE DEF S
  <2> QED
    BY <1>1, <1>2, <2>1, SetInduction
<1> QED
  BY <1>3

(* Columns add: the sum of two columns' sums is the sum of their rows.     *)
THEOREM SumAdd ==
  ASSUME NEW n \in Nat, NEW f, NEW g, NEW h,
         \A i \in 1..n : f[i] \in Nat /\ g[i] \in Nat /\ h[i] = f[i] + g[i]
  PROVE  SumUpTo(h, n) = SumUpTo(f, n) + SumUpTo(g, n)
<1> DEFINE S == {k \in Nat : k <= n => /\ SumUpTo(f, k) \in Nat /\ SumUpTo(g, k) \in Nat
                                       /\ SumUpTo(h, k) = SumUpTo(f, k) + SumUpTo(g, k)}
<1>1. 0 \in S
  BY SumZero
<1>2. ASSUME NEW k \in S PROVE k + 1 \in S
  BY SumStep, k + 1 <= n => k + 1 \in 1..n
<1>3. S = Nat
  <2>1. S \subseteq Nat
    OBVIOUS
  <2> HIDE DEF S
  <2> QED
    BY <1>1, <1>2, <2>1, SetInduction
<1> QED
  BY <1>3

(* Changing one row changes the sum by what the row changed.               *)
THEOREM SumUpdate ==
  ASSUME NEW n \in Nat, NEW f, NEW g, NEW r \in 1..n,
         \A i \in 1..n : f[i] \in Nat /\ g[i] \in Nat,
         \A i \in 1..n : i # r => f[i] = g[i]
  PROVE  SumUpTo(g, n) = SumUpTo(f, n) + (g[r] - f[r])
<1> DEFINE S == {k \in Nat : k <= n =>
       /\ SumUpTo(f, k) \in Nat /\ SumUpTo(g, k) \in Nat
       /\ SumUpTo(g, k) = SumUpTo(f, k) + (IF k < r THEN 0 ELSE g[r] - f[r])}
<1>1. 0 \in S
  BY SumZero
<1>2. ASSUME NEW k \in S PROVE k + 1 \in S
  <2>1. CASE k + 1 <= n
    <3>1. k + 1 \in 1..n /\ k <= n
      BY <2>1
    <3>2. SumUpTo(f, k + 1) = SumUpTo(f, k) + f[k + 1]
          /\ SumUpTo(g, k + 1) = SumUpTo(g, k) + g[k + 1]
      BY SumStep
    <3>3. CASE k + 1 = r
      BY <3>1, <3>2, <3>3
    <3>4. CASE k + 1 # r
      BY <3>1, <3>2, <3>4
    <3> QED
      BY <3>3, <3>4
  <2> QED
    BY <2>1
<1>3. S = Nat
  <2>1. S \subseteq Nat
    OBVIOUS
  <2> HIDE DEF S
  <2> QED
    BY <1>1, <1>2, <2>1, SetInduction
<1> QED
  BY <1>3
=============================================================================
