------------------------------ MODULE SumsProofs ------------------------------
(***************************************************************************)
(* What SumOf computes.  The induction theorems of the library take an     *)
(* operator as a parameter; here induction is over a set, from the         *)
(* well-foundedness of < on Nat.                                           *)
(***************************************************************************)
EXTENDS Sums, WellFoundedInduction, SequenceTheorems, TLAPS

Less == {p \in Nat \X Nat : p[1] < p[2]}

\* A set of natural numbers that is not empty has a least element.
LEMMA LeastElement ==
  ASSUME NEW T, T \subseteq Nat, T # {}
  PROVE  \E x \in T : \A y \in T : x <= y
  <1>1. IsWellFoundedOn(Less, Nat)
    <2>1. Less = OpToRel(<, Nat)
      BY DEF Less, OpToRel
    <2> QED
      BY <2>1, NatLessThanWellFounded
  <1>2. PICK x \in T : \A y \in T : <<y, x>> \notin Less
    BY <1>1, WFMin
  <1>3. ASSUME NEW y \in T PROVE x <= y
    <2>1. x \in Nat /\ y \in Nat /\ <<y, x>> \notin Less
      BY <1>2
    <2> QED
      BY <2>1 DEF Less
  <1> QED
    BY <1>3

\* A set that holds 0 and with n also n + 1 holds every natural number.
LEMMA InductionOnSet ==
  ASSUME NEW T, 0 \in T, \A n \in Nat : n \in T => n + 1 \in T
  PROVE  \A n \in Nat : n \in T
  <1> SUFFICES ASSUME Nat \ T # {} PROVE FALSE
    OBVIOUS
  <1>1. PICK x \in Nat \ T : \A y \in Nat \ T : x <= y
    BY LeastElement
  <1>2. x # 0 /\ x - 1 \in Nat
    BY <1>1
  <1>3. x - 1 \in T
    BY <1>1, <1>2
  <1> QED
    BY <1>1, <1>2, <1>3

-----------------------------------------------------------------------------
(* The function SumOf recurses on.                                         *)
ArePrefixSums(sum, numbers) ==
  sum = [n \in 0 .. Len(numbers) |-> IF n = 0 THEN 0 ELSE sum[n - 1] + numbers[n]]

\* It exists up to every index of a sequence.
LEMMA PrefixSumsExist ==
  ASSUME NEW numbers \in Seq(Int)
  PROVE  \E sum : ArePrefixSums(sum, numbers)
  <1> DEFINE UpTo(sum, m) ==
               sum = [n \in 0 .. m |-> IF n = 0 THEN 0 ELSE sum[n - 1] + numbers[n]]
             T == {m \in Nat : \E sum : UpTo(sum, m)}
  <1>1. 0 \in T
    <2>1. UpTo([n \in 0 .. 0 |-> 0], 0)
      OBVIOUS
    <2> QED
      BY <2>1
  <1>2. ASSUME NEW m \in Nat, m \in T PROVE m + 1 \in T
    <2>1. PICK shorter : UpTo(shorter, m)
      BY <1>2
    <2> DEFINE longer == [n \in 0 .. m + 1 |->
                            IF n = m + 1 THEN shorter[m] + numbers[m + 1] ELSE shorter[n]]
    <2>2. UpTo(longer, m + 1)
      BY <2>1
    <2>3. \E sum : UpTo(sum, m + 1)
      <3> HIDE DEF UpTo, longer
      <3> QED
        BY <2>2
    <2>4. m + 1 \in Nat
      OBVIOUS
    <2> HIDE DEF UpTo
    <2> QED
      BY <2>3, <2>4
  <1>3. \A m \in Nat : m \in T
    <2> HIDE DEF T
    <2> QED
      BY <1>1, <1>2, InductionOnSet
  <1>4. Len(numbers) \in T
    BY <1>3, LenProperties
  <1> QED
    BY <1>4 DEF ArePrefixSums

LEMMA SumIsLastPrefixSum ==
  ASSUME NEW numbers \in Seq(Int)
  PROVE  \E sum : ArePrefixSums(sum, numbers) /\ SumOf(numbers) = sum[Len(numbers)]
  BY PrefixSumsExist DEF ArePrefixSums, SumOf

\* Sequences that agree up to an index have the same prefix sum there, a number.
LEMMA PrefixSumsAgree ==
  ASSUME NEW f \in Seq(Int), NEW g \in Seq(Int), NEW s, NEW t,
         ArePrefixSums(s, f), ArePrefixSums(t, g),
         NEW k \in Nat, k <= Len(f), k <= Len(g), \A i \in 1 .. k : f[i] = g[i]
  PROVE  s[k] = t[k] /\ s[k] \in Int
  <1> DEFINE T == {n \in Nat : n <= k => s[n] = t[n] /\ s[n] \in Int}
  <1>1. 0 \in T
    BY LenProperties DEF ArePrefixSums
  <1>2. ASSUME NEW n \in Nat, n \in T PROVE n + 1 \in T
    <2> SUFFICES ASSUME n + 1 <= k PROVE s[n + 1] = t[n + 1] /\ s[n + 1] \in Int
      OBVIOUS
    <2>1. s[n] = t[n] /\ s[n] \in Int
      BY <1>2
    <2>2. Len(f) \in Nat /\ Len(g) \in Nat /\ f[n + 1] \in Int /\ f[n + 1] = g[n + 1]
      BY LenProperties, ElementOfSeq
    <2>3. s[n + 1] = s[n] + f[n + 1]
      BY <2>2 DEF ArePrefixSums
    <2>4. t[n + 1] = t[n] + g[n + 1]
      BY <2>2 DEF ArePrefixSums
    <2> QED
      BY <2>1, <2>2, <2>3, <2>4
  <1>3. \A n \in Nat : n \in T
    <2> HIDE DEF T
    <2> QED
      BY <1>1, <1>2, InductionOnSet
  <1> QED
    BY <1>3

-----------------------------------------------------------------------------
(* Sums.                                                                   *)
LEMMA SumType ==
  ASSUME NEW numbers \in Seq(Int)
  PROVE  SumOf(numbers) \in Int
  BY SumIsLastPrefixSum, PrefixSumsAgree, LenProperties

\* One more number at the end is added.
LEMMA SumOfLonger ==
  ASSUME NEW f \in Seq(Int), NEW g \in Seq(Int),
         Len(g) = Len(f) + 1, \A i \in 1 .. Len(f) : g[i] = f[i]
  PROVE  SumOf(g) = SumOf(f) + g[Len(g)]
  <1>1. PICK s : ArePrefixSums(s, f) /\ SumOf(f) = s[Len(f)]
    BY SumIsLastPrefixSum
  <1>2. PICK t : ArePrefixSums(t, g) /\ SumOf(g) = t[Len(g)]
    BY SumIsLastPrefixSum
  <1>3. Len(f) \in Nat
    BY LenProperties
  <1>4. s[Len(f)] = t[Len(f)]
    <2>1. ASSUME NEW k \in Nat, k = Len(f) PROVE s[k] = t[k]
      <3>1. k <= Len(f) /\ k <= Len(g) /\ \A i \in 1 .. k : f[i] = g[i]
        BY <2>1
      <3>2. ArePrefixSums(s, f) /\ ArePrefixSums(t, g)
        BY <1>1, <1>2
      <3> QED
        BY <3>1, <3>2, PrefixSumsAgree
    <2> QED
      BY <2>1, <1>3
  <1>5. t[Len(g)] = t[Len(f)] + g[Len(g)]
    BY <1>2, <1>3 DEF ArePrefixSums
  <1> QED
    BY <1>1, <1>2, <1>4, <1>5

\* Numbers between two bounds add up to as much as so many times the bounds.
LEMMA SumBetween ==
  ASSUME NEW numbers \in Seq(Int), NEW low \in Int, NEW high \in Int,
         \A i \in 1 .. Len(numbers) : low <= numbers[i] /\ numbers[i] <= high
  PROVE  low * Len(numbers) <= SumOf(numbers) /\ SumOf(numbers) <= high * Len(numbers)
  <1>1. PICK s : ArePrefixSums(s, numbers) /\ SumOf(numbers) = s[Len(numbers)]
    BY SumIsLastPrefixSum
  <1> DEFINE T == {n \in Nat : n <= Len(numbers) => low * n <= s[n] /\ s[n] <= high * n}
  <1>2. 0 \in T
    <2>1. s[0] = 0
      BY <1>1, LenProperties DEF ArePrefixSums
    <2> QED
      BY <2>1
  <1>3. ASSUME NEW n \in Nat, n \in T PROVE n + 1 \in T
    <2> SUFFICES ASSUME n + 1 <= Len(numbers)
                 PROVE  low * (n + 1) <= s[n + 1] /\ s[n + 1] <= high * (n + 1)
      OBVIOUS
    <2>1. Len(numbers) \in Nat /\ numbers[n + 1] \in Int
      BY LenProperties, ElementOfSeq
    <2>2. s[n] \in Int
      BY <1>1, <2>1, PrefixSumsAgree
    <2>3. s[n + 1] = s[n] + numbers[n + 1]
      BY <1>1, <2>1 DEF ArePrefixSums
    <2>4. low * n <= s[n] /\ s[n] <= high * n
      BY <1>3, <2>1
    <2>5. low <= numbers[n + 1] /\ numbers[n + 1] <= high
      BY <2>1
    <2>6. low * (n + 1) = low * n + low /\ high * (n + 1) = high * n + high
      OBVIOUS
    <2>7. low * n \in Int /\ high * n \in Int
      OBVIOUS
    <2> QED
      BY <2>1, <2>2, <2>3, <2>4, <2>5, <2>6, <2>7
  <1>4. \A n \in Nat : n \in T
    <2> HIDE DEF T
    <2> QED
      BY <1>2, <1>3, InductionOnSet
  <1> QED
    BY <1>1, <1>4, LenProperties

\* So natural numbers add up to one.
LEMMA SumIsNat ==
  ASSUME NEW numbers \in Seq(Nat)
  PROVE  SumOf(numbers) \in Nat
  <1>1. PICK s : ArePrefixSums(s, numbers) /\ SumOf(numbers) = s[Len(numbers)]
    BY SumIsLastPrefixSum
  <1> DEFINE T == {n \in Nat : n <= Len(numbers) => s[n] \in Nat}
  <1>2. 0 \in T
    BY <1>1, LenProperties DEF ArePrefixSums
  <1>3. ASSUME NEW n \in Nat, n \in T PROVE n + 1 \in T
    <2> SUFFICES ASSUME n + 1 <= Len(numbers) PROVE s[n + 1] \in Nat
      OBVIOUS
    <2>1. Len(numbers) \in Nat /\ numbers[n + 1] \in Nat
      BY LenProperties, ElementOfSeq
    <2>2. s[n + 1] = s[n] + numbers[n + 1]
      BY <1>1, <2>1 DEF ArePrefixSums
    <2> QED
      BY <1>3, <2>1, <2>2
  <1>4. \A n \in Nat : n \in T
    <2> HIDE DEF T
    <2> QED
      BY <1>2, <1>3, InductionOnSet
  <1> QED
    BY <1>1, <1>4, LenProperties

LEMMA SumOfNone ==
  ASSUME NEW numbers \in Seq(Int), Len(numbers) = 0
  PROVE  SumOf(numbers) = 0
  <1>1. PICK s : ArePrefixSums(s, numbers) /\ SumOf(numbers) = s[Len(numbers)]
    BY SumIsLastPrefixSum
  <1>2. s[0] = 0
    BY <1>1 DEF ArePrefixSums
  <1> QED
    BY <1>1, <1>2
===============================================================================
