---- MODULE SumsTheorems ----
(***************************************************************************)
(* Facts about SumTo for every length.  The induction is over a set of     *)
(* naturals rather than over a predicate: a non-empty set of naturals has  *)
(* a least element, so a set that holds 0 and is closed under successor    *)
(* holds them all.                                                         *)
(***************************************************************************)
EXTENDS Sums, TLAPS, WellFoundedInduction

(* The least number principle, from the well-foundedness of < on Nat. *)
LEMMA LeastNat ==
    ASSUME NEW T \in SUBSET Nat, T # {}
    PROVE  \E m \in T : \A k \in T : m <= k
<1> DEFINE R == OpToRel(<, Nat)
<1>1. IsWellFoundedOn(R, Nat)
  BY NatLessThanWellFounded
<1>2. \A k, m \in Nat : k < m => <<k, m>> \in R
  BY DEF OpToRel
<1> HIDE DEF R
<1>3. PICK m \in T : \A k \in T : ~ (<<k, m>> \in R)
  BY <1>1, WFMin
<1>4. \A k \in T : ~ (k < m)
  BY <1>2, <1>3, m \in Nat, Zenon
<1>5. \A k \in T : m <= k
  BY <1>4
<1> QED BY <1>5

(* Induction on n, for a set of numbers in place of a predicate. *)
LEMMA SetInduction ==
    ASSUME NEW S, 0 \in S, \A k \in Nat : k \in S => k + 1 \in S
    PROVE  \A n \in Nat : n \in S
<1> DEFINE T == {m \in Nat : m \notin S}
<1> SUFFICES ASSUME T # {} PROVE FALSE
  OBVIOUS
<1>1. PICK m \in T : \A k \in T : m <= k
  BY LeastNat
<1>2. m # 0 /\ m - 1 \in Nat /\ m - 1 \notin T
  BY <1>1
<1> QED BY <1>1, <1>2

PartialSums(f, n, s) ==
    s = [k \in 0..n |-> IF k = 0 THEN 0 ELSE s[k - 1] + f[k]]

(* Every length has a function of partial sums. *)
LEMMA PartialSumsExist ==
    ASSUME NEW f, NEW n \in Nat
    PROVE  \E s : PartialSums(f, n, s)
<1> DEFINE S == {m \in Nat : \E s : PartialSums(f, m, s)}
<1>1. 0 \in S
  <2>1. PartialSums(f, 0, [k \in 0..0 |-> 0])
    BY DEF PartialSums
  <2> QED BY <2>1
<1>2. ASSUME NEW m \in Nat, m \in S PROVE m + 1 \in S
  <2>1. PICK s : PartialSums(f, m, s)
    BY <1>2
  <2> DEFINE t == [k \in 0..(m + 1) |-> IF k = m + 1 THEN s[m] + f[m + 1] ELSE s[k]]
  <2>2. \A k \in 0..m : s[k] = IF k = 0 THEN 0 ELSE s[k - 1] + f[k]
    BY <2>1 DEF PartialSums
  <2>3. \A k \in 0..(m + 1) : t[k] = IF k = 0 THEN 0 ELSE t[k - 1] + f[k]
    <3> TAKE k \in 0..(m + 1)
    <3>1. CASE k = m + 1
      BY <3>1
    <3>2. CASE k # m + 1
      <4>1. k \in 0..m /\ (k # 0 => k - 1 \in 0..(m + 1) /\ k - 1 # m + 1)
        BY <3>2
      <4> QED BY <3>2, <4>1, <2>2
    <3> QED BY <3>1, <3>2
  <2>4. t = [k \in 0..(m + 1) |-> IF k = 0 THEN 0 ELSE t[k - 1] + f[k]]
    BY <2>3
  <2>5. PartialSums(f, m + 1, t)
    BY <2>4 DEF PartialSums
  <2> QED BY <2>5
<1> HIDE DEF S
<1>3. n \in S
  BY <1>1, <1>2, SetInduction
<1> QED BY <1>3 DEF S

(* The function that SumTo defines, and its equations. *)
Prefix(f, n) == CHOOSE s : s = [k \in 0..n |-> IF k = 0 THEN 0 ELSE s[k - 1] + f[k]]

(* The partial sums of SumTo obey its two defining equations. *)
LEMMA PrefixEquations ==
    ASSUME NEW f, NEW n \in Nat
    PROVE  /\ SumTo(f, n) = Prefix(f, n)[n]
           /\ \A k \in 0..n :
                Prefix(f, n)[k] = IF k = 0 THEN 0 ELSE Prefix(f, n)[k - 1] + f[k]
<1>1. \E s : s = [k \in 0..n |-> IF k = 0 THEN 0 ELSE s[k - 1] + f[k]]
  BY PartialSumsExist DEF PartialSums
<1>2. Prefix(f, n) =
        [k \in 0..n |-> IF k = 0 THEN 0 ELSE Prefix(f, n)[k - 1] + f[k]]
  BY <1>1, Zenon DEF Prefix
<1>3. SumTo(f, n) = Prefix(f, n)[n]
  BY DEF SumTo, Prefix
<1>4. \A k \in 0..n :
        Prefix(f, n)[k] = IF k = 0 THEN 0 ELSE Prefix(f, n)[k - 1] + f[k]
  BY <1>2
<1> QED BY <1>3, <1>4

(* A longer prefix function agrees with a shorter one. *)
LEMMA PrefixStable ==
    ASSUME NEW f, NEW n \in Nat
    PROVE  \A k \in 0..n : Prefix(f, n)[k] = Prefix(f, n + 1)[k]
<1> DEFINE S == {k \in Nat : k <= n => Prefix(f, n)[k] = Prefix(f, n + 1)[k]}
<1>1. 0 \in S
  BY PrefixEquations
<1>2. ASSUME NEW k \in Nat, k \in S PROVE k + 1 \in S
  <2> SUFFICES ASSUME k + 1 <= n
               PROVE  Prefix(f, n)[k + 1] = Prefix(f, n + 1)[k + 1]
    OBVIOUS
  <2>1. Prefix(f, n)[k + 1] = Prefix(f, n)[k] + f[k + 1]
    <3>1. k + 1 \in 0..n /\ k + 1 # 0 /\ (k + 1) - 1 = k
      OBVIOUS
    <3> QED BY <3>1, PrefixEquations
  <2>2. Prefix(f, n + 1)[k + 1] = Prefix(f, n + 1)[k] + f[k + 1]
    <3>1. k + 1 \in 0..(n + 1) /\ k + 1 # 0 /\ (k + 1) - 1 = k /\ n + 1 \in Nat
      OBVIOUS
    <3> QED BY <3>1, PrefixEquations
  <2>3. Prefix(f, n)[k] = Prefix(f, n + 1)[k]
    BY <1>2
  <2> QED BY <2>1, <2>2, <2>3
<1> HIDE DEF S
<1>3. \A k \in Nat : k \in S
  BY <1>1, <1>2, SetInduction
<1> QED BY <1>3 DEF S

(* The two equations of a sum: none, and one more term. *)
THEOREM SumToZero == \A f : SumTo(f, 0) = 0
<1> TAKE f
<1>1. 0 \in 0..0 /\ 0 \in Nat
  OBVIOUS
<1> QED BY <1>1, PrefixEquations

(* One more entry adds its value. *)
THEOREM SumToStep ==
    ASSUME NEW f, NEW n \in Nat
    PROVE  SumTo(f, n + 1) = SumTo(f, n) + f[n + 1]
<1>1. n + 1 \in Nat /\ n + 1 \in 0..(n + 1) /\ n + 1 # 0 /\ (n + 1) - 1 = n /\ n \in 0..n
  OBVIOUS
<1>2. SumTo(f, n + 1) = Prefix(f, n + 1)[n + 1]
  BY <1>1, PrefixEquations
<1>3. Prefix(f, n + 1)[n + 1] = Prefix(f, n + 1)[n] + f[n + 1]
  BY <1>1, PrefixEquations
<1>4. Prefix(f, n + 1)[n] = Prefix(f, n)[n]
  BY <1>1, PrefixStable
<1>5. SumTo(f, n) = Prefix(f, n)[n]
  BY PrefixEquations
<1> QED BY <1>2, <1>3, <1>4, <1>5

(* Terms that are equal have equal sums. *)
THEOREM SumToEqual ==
    ASSUME NEW f, NEW g, NEW n \in Nat, \A k \in 1..n : f[k] = g[k]
    PROVE  SumTo(f, n) = SumTo(g, n)
<1> DEFINE S == {m \in Nat : m <= n => SumTo(f, m) = SumTo(g, m)}
<1>1. 0 \in S
  BY SumToZero
<1>2. ASSUME NEW m \in Nat, m \in S PROVE m + 1 \in S
  <2>1. SumTo(f, m + 1) = SumTo(f, m) + f[m + 1] /\ SumTo(g, m + 1) = SumTo(g, m) + g[m + 1]
    BY SumToStep
  <2>2. m + 1 <= n => f[m + 1] = g[m + 1] /\ SumTo(f, m) = SumTo(g, m)
    BY <1>2
  <2> QED BY <2>1, <2>2
<1> HIDE DEF S
<1>3. n \in S
  BY <1>1, <1>2, SetInduction
<1> QED BY <1>3 DEF S

(* A sum of integers is an integer. *)
THEOREM SumToInt ==
    ASSUME NEW f, NEW n \in Nat, \A k \in 1..n : f[k] \in Int
    PROVE  SumTo(f, n) \in Int
<1> DEFINE S == {m \in Nat : m <= n => SumTo(f, m) \in Int}
<1>1. 0 \in S
  BY SumToZero
<1>2. ASSUME NEW m \in Nat, m \in S PROVE m + 1 \in S
  <2>1. SumTo(f, m + 1) = SumTo(f, m) + f[m + 1]
    BY SumToStep
  <2>2. m + 1 <= n => f[m + 1] \in Int /\ SumTo(f, m) \in Int
    BY <1>2
  <2> QED BY <2>1, <2>2
<1> HIDE DEF S
<1>3. n \in S
  BY <1>1, <1>2, SetInduction
<1> QED BY <1>3 DEF S

(* Changing one term changes the sum by as much. *)
THEOREM SumToChange ==
    ASSUME NEW f, NEW g, NEW n \in Nat, NEW i \in 1..n,
           \A k \in 1..n : f[k] \in Int /\ g[k] \in Int,
           \A k \in 1..n : k # i => g[k] = f[k]
    PROVE  SumTo(g, n) = SumTo(f, n) + (g[i] - f[i])
<1> DEFINE d(m) == IF m < i THEN 0 ELSE g[i] - f[i]
           S == {m \in Nat : m <= n => /\ SumTo(f, m) \in Int
                                      /\ SumTo(g, m) = SumTo(f, m) + d(m)}
<1>1. 0 \in S
  BY SumToZero
<1>2. ASSUME NEW m \in Nat, m \in S PROVE m + 1 \in S
  <2> SUFFICES ASSUME m + 1 <= n PROVE m + 1 \in S
    OBVIOUS
  <2>1. SumTo(f, m + 1) = SumTo(f, m) + f[m + 1] /\ SumTo(g, m + 1) = SumTo(g, m) + g[m + 1]
    BY SumToStep
  <2>2. f[m + 1] \in Int /\ g[m + 1] \in Int /\ f[i] \in Int /\ g[i] \in Int
    OBVIOUS
  <2>3. SumTo(f, m) \in Int /\ SumTo(g, m) = SumTo(f, m) + d(m)
    BY <1>2
  <2>4. g[m + 1] + d(m) = f[m + 1] + d(m + 1)
    <3>1. CASE m + 1 = i
      BY <3>1, <2>2
    <3>2. CASE m + 1 # i
      <4>1. g[m + 1] = f[m + 1] /\ d(m) = d(m + 1)
        BY <3>2
      <4> QED BY <4>1
    <3> QED BY <3>1, <3>2
  <2>5. d(m) \in Int /\ d(m + 1) \in Int
    BY <2>2
  <2> HIDE DEF d
  <2>6. SumTo(f, m + 1) \in Int /\ SumTo(g, m + 1) = SumTo(f, m + 1) + d(m + 1)
    BY <2>1, <2>2, <2>3, <2>4, <2>5
  <2> QED BY <2>6
<1> HIDE DEF S
<1>3. n \in S
  BY <1>1, <1>2, SetInduction
<1>4. d(n) = g[i] - f[i]
  OBVIOUS
<1> QED BY <1>3, <1>4 DEF S

(* The sum of differences is the difference of the sums. *)
THEOREM SumToDifference ==
    ASSUME NEW f, NEW g, NEW h, NEW n \in Nat,
           \A k \in 1..n : f[k] \in Int /\ g[k] \in Int /\ h[k] = f[k] - g[k]
    PROVE  SumTo(h, n) = SumTo(f, n) - SumTo(g, n)
<1> DEFINE S == {m \in Nat : m <= n => /\ SumTo(f, m) \in Int /\ SumTo(g, m) \in Int
                                      /\ SumTo(h, m) = SumTo(f, m) - SumTo(g, m)}
<1>1. 0 \in S
  BY SumToZero
<1>2. ASSUME NEW m \in Nat, m \in S PROVE m + 1 \in S
  <2> SUFFICES ASSUME m + 1 <= n PROVE m + 1 \in S
    OBVIOUS
  <2>1. /\ SumTo(f, m + 1) = SumTo(f, m) + f[m + 1]
        /\ SumTo(g, m + 1) = SumTo(g, m) + g[m + 1]
        /\ SumTo(h, m + 1) = SumTo(h, m) + h[m + 1]
    BY SumToStep
  <2>2. f[m + 1] \in Int /\ g[m + 1] \in Int /\ h[m + 1] = f[m + 1] - g[m + 1]
    OBVIOUS
  <2>3. /\ SumTo(f, m) \in Int /\ SumTo(g, m) \in Int
        /\ SumTo(h, m) = SumTo(f, m) - SumTo(g, m)
    BY <1>2
  <2> QED BY <2>1, <2>2, <2>3
<1> HIDE DEF S
<1>3. n \in S
  BY <1>1, <1>2, SetInduction
<1> QED BY <1>3 DEF S

(* A sum of zeros is zero. *)
THEOREM SumToZeros ==
    ASSUME NEW f, NEW n \in Nat, \A k \in 1..n : f[k] = 0
    PROVE  SumTo(f, n) = 0
<1> DEFINE S == {m \in Nat : m <= n => SumTo(f, m) = 0}
<1>1. 0 \in S
  BY SumToZero
<1>2. ASSUME NEW m \in Nat, m \in S PROVE m + 1 \in S
  <2>1. SumTo(f, m + 1) = SumTo(f, m) + f[m + 1]
    BY SumToStep
  <2> QED BY <1>2, <2>1
<1> HIDE DEF S
<1>3. n \in S
  BY <1>1, <1>2, SetInduction
<1> QED BY <1>3 DEF S
====
