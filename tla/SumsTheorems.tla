---------------------------- MODULE SumsTheorems ----------------------------
(***************************************************************************)
(* Facts about SumBelow that the proofs about the game cite.  Each is by   *)
(* induction on the number of terms, stated over sets of naturals          *)
(* (NatSetInduction) so that it needs no theorem with an operator          *)
(* parameter.                                                              *)
(***************************************************************************)
EXTENDS Sums, WellFoundedInduction, TLAPS

(* Induction over the naturals, for a set instead of a predicate: if Nat   *)
(* is not inside S, the least natural outside S contradicts the step.      *)
LEMMA NatSetInduction ==
  ASSUME NEW S, 0 \in S, \A n \in Nat : n \in S => n + 1 \in S
  PROVE  Nat \subseteq S
<1> DEFINE T == Nat \ S
<1>1. SUFFICES ASSUME T # {} PROVE FALSE
  OBVIOUS
<1>2. PICK m \in T : \A k \in T : ~ (<<k, m>> \in OpToRel(<, Nat))
  BY <1>1, WFMin, NatLessThanWellFounded
<1>3. m - 1 \in Nat /\ m - 1 \notin T
  <2>1. m \in Nat /\ m # 0
    OBVIOUS
  <2>2. m - 1 \in Nat /\ m - 1 < m
    BY <2>1
  <2>3. <<m - 1, m>> \in OpToRel(<, Nat)
    BY <2>1, <2>2 DEF OpToRel
  <2> QED BY <2>2, <2>3, <1>2
<1> QED BY <1>3

-----------------------------------------------------------------------------
(* The recursive function in SumBelow exists, so the definition means what *)
(* it says.                                                                *)
IsPrefix(g, f, n) == g = [i \in 0..n |-> IF i = 0 THEN 0 ELSE g[i-1] + f[i-1]]

LEMMA PrefixExists ==
  ASSUME NEW f
  PROVE  \A n \in Nat : \E g : IsPrefix(g, f, n)
<1> DEFINE S == {n \in Nat : \E g : IsPrefix(g, f, n)}
<1>1. 0 \in S
  <2>1. IsPrefix([i \in 0..0 |-> 0], f, 0)
    BY DEF IsPrefix
  <2> QED BY <2>1
<1>2. ASSUME NEW n \in Nat, n \in S PROVE n + 1 \in S
  <2>1. PICK h : IsPrefix(h, f, n)
    BY <1>2
  <2> DEFINE g == [i \in 0..(n+1) |-> IF i = n + 1 THEN h[n] + f[n] ELSE h[i]]
  <2>2. ASSUME NEW i \in 0..(n+1)
        PROVE  g[i] = IF i = 0 THEN 0 ELSE g[i-1] + f[i-1]
    <3>1. CASE i = n + 1
      <4>1. g[i] = h[n] + f[n] /\ i # 0 /\ i - 1 = n /\ n \in 0..(n+1) /\ n # n + 1
        BY <3>1
      <4> QED BY <4>1
    <3>2. CASE i # n + 1
      <4>1. i \in 0..n /\ g[i] = h[i]
        BY <3>2
      <4>2. h[i] = IF i = 0 THEN 0 ELSE h[i-1] + f[i-1]
        BY <4>1, <2>1 DEF IsPrefix
      <4>3. i # 0 => i - 1 \in 0..(n+1) /\ i - 1 # n + 1
        BY <4>1
      <4> QED BY <4>1, <4>2, <4>3
    <3> QED BY <3>1, <3>2
  <2>3. g = [i \in 0..(n+1) |-> IF i = 0 THEN 0 ELSE g[i-1] + f[i-1]]
    BY <2>2
  <2>4. IsPrefix(g, f, n + 1)
    BY <2>3 DEF IsPrefix
  <2> QED BY <2>4
<1>3. Nat \subseteq S
  BY <1>1, <1>2, NatSetInduction
<1> QED BY <1>3

LEMMA SumIsPrefix ==
  ASSUME NEW f, NEW n \in Nat
  PROVE  \E g : IsPrefix(g, f, n) /\ SumBelow(f, n) = g[n]
<1> DEFINE G == CHOOSE g : g = [i \in 0..n |-> IF i = 0 THEN 0 ELSE g[i-1] + f[i-1]]
<1>1. IsPrefix(G, f, n)
  BY PrefixExists DEF IsPrefix
<1>2. SumBelow(f, n) = G[n]
  BY DEF SumBelow
<1> QED BY <1>1, <1>2

(* Two prefix sums of one function agree where both are defined. *)
LEMMA PrefixUnique ==
  ASSUME NEW f, NEW n \in Nat, NEW m \in Nat, NEW g, NEW h, n <= m,
         IsPrefix(g, f, n), IsPrefix(h, f, m)
  PROVE  g[n] = h[n]
<1> DEFINE S == {i \in Nat : i \in 0..n => g[i] = h[i]}
<1>1. 0 \in S
  <2>1. 0 \in 0..n /\ 0 \in 0..m
    OBVIOUS
  <2> QED BY <2>1 DEF IsPrefix
<1>2. ASSUME NEW i \in Nat, i \in S PROVE i + 1 \in S
  <2>1. SUFFICES ASSUME i + 1 \in 0..n PROVE g[i+1] = h[i+1]
    OBVIOUS
  <2>2. i \in 0..n /\ i + 1 \in 0..m /\ i + 1 # 0 /\ (i + 1) - 1 = i
    BY <2>1
  <2>3. g[i] = h[i]
    BY <1>2, <2>2
  <2>4. g[i+1] = g[i] + f[i]
    BY <2>1, <2>2 DEF IsPrefix
  <2>5. h[i+1] = h[i] + f[i]
    BY <2>2 DEF IsPrefix
  <2> QED BY <2>3, <2>4, <2>5
<1>3. Nat \subseteq S
  BY <1>1, <1>2, NatSetInduction
<1>4. n \in 0..n
  OBVIOUS
<1> QED BY <1>3, <1>4

-----------------------------------------------------------------------------
(* The two equations of a sum. *)
THEOREM SumZero ==
  ASSUME NEW f
  PROVE  SumBelow(f, 0) = 0
<1>1. PICK g : IsPrefix(g, f, 0) /\ SumBelow(f, 0) = g[0]
  BY SumIsPrefix
<1>2. 0 \in 0..0
  OBVIOUS
<1> QED BY <1>1, <1>2 DEF IsPrefix

THEOREM SumStep ==
  ASSUME NEW f, NEW n \in Nat
  PROVE  SumBelow(f, n + 1) = SumBelow(f, n) + f[n]
<1>1. PICK g : IsPrefix(g, f, n) /\ SumBelow(f, n) = g[n]
  BY SumIsPrefix
<1>2. PICK h : IsPrefix(h, f, n + 1) /\ SumBelow(f, n + 1) = h[n + 1]
  BY SumIsPrefix
<1>3. g[n] = h[n]
  BY <1>1, <1>2, PrefixUnique
<1>4. n + 1 \in 0..(n+1) /\ n + 1 # 0 /\ (n + 1) - 1 = n
  OBVIOUS
<1>5. h[n + 1] = h[n] + f[n]
  BY <1>2, <1>4 DEF IsPrefix
<1> QED BY <1>1, <1>2, <1>3, <1>5

-----------------------------------------------------------------------------
(* What sums of integers are and how they change. *)

THEOREM SumInt ==
  ASSUME NEW f, NEW n \in Nat, \A i \in 0..n-1 : f[i] \in Int
  PROVE  SumBelow(f, n) \in Int
<1> DEFINE S == {m \in Nat : m <= n => SumBelow(f, m) \in Int}
<1>1. 0 \in S
  BY SumZero
<1>2. ASSUME NEW m \in Nat, m \in S PROVE m + 1 \in S
  <2>1. CASE m + 1 <= n
    <3>1. m \in 0..n-1 /\ m <= n
      BY <2>1
    <3>2. SumBelow(f, m) \in Int
      BY <1>2, <3>1
    <3>3. SumBelow(f, m + 1) = SumBelow(f, m) + f[m]
      BY SumStep
    <3> QED BY <3>1, <3>2, <3>3
  <2>2. CASE ~ (m + 1 <= n)
    BY <2>2
  <2> QED BY <2>1, <2>2
<1>3. n \in S
  BY <1>1, <1>2, NatSetInduction
<1> QED BY <1>3

(* Sums compare term by term: this covers equality and monotonicity. *)
THEOREM SumMono ==
  ASSUME NEW f, NEW g, NEW n \in Nat,
         \A i \in 0..n-1 : f[i] \in Int /\ g[i] \in Int /\ f[i] <= g[i]
  PROVE  SumBelow(f, n) <= SumBelow(g, n)
<1> DEFINE S == {m \in Nat : m <= n => SumBelow(f, m) <= SumBelow(g, m)}
<1>1. 0 \in S
  BY SumZero
<1>2. ASSUME NEW m \in Nat, m \in S PROVE m + 1 \in S
  <2>1. CASE m + 1 <= n
    <3>1. m \in 0..n-1 /\ m <= n
      BY <2>1
    <3>2. SumBelow(f, m) <= SumBelow(g, m)
      BY <1>2, <3>1
    <3>3. SumBelow(f, m) \in Int /\ SumBelow(g, m) \in Int
      <4>1. \A i \in 0..m-1 : i \in 0..n-1
        BY <3>1
      <4> QED BY <4>1, SumInt
    <3>4. /\ SumBelow(f, m + 1) = SumBelow(f, m) + f[m]
          /\ SumBelow(g, m + 1) = SumBelow(g, m) + g[m]
      BY SumStep
    <3>5. f[m] \in Int /\ g[m] \in Int /\ f[m] <= g[m]
      BY <3>1
    <3> QED BY <3>2, <3>3, <3>4, <3>5
  <2>2. CASE ~ (m + 1 <= n)
    BY <2>2
  <2> QED BY <2>1, <2>2
<1>3. n \in S
  BY <1>1, <1>2, NatSetInduction
<1> QED BY <1>3

THEOREM SumSame ==
  ASSUME NEW f, NEW g, NEW n \in Nat,
         \A i \in 0..n-1 : f[i] = g[i]
  PROVE  SumBelow(f, n) = SumBelow(g, n)
<1> DEFINE S == {m \in Nat : m <= n => SumBelow(f, m) = SumBelow(g, m)}
<1>1. 0 \in S
  BY SumZero
<1>2. ASSUME NEW m \in Nat, m \in S PROVE m + 1 \in S
  <2>1. CASE m + 1 <= n
    <3>1. m \in 0..n-1 /\ m <= n
      BY <2>1
    <3>2. /\ SumBelow(f, m + 1) = SumBelow(f, m) + f[m]
          /\ SumBelow(g, m + 1) = SumBelow(g, m) + g[m]
      BY SumStep
    <3> QED BY <1>2, <3>1, <3>2
  <2>2. CASE ~ (m + 1 <= n)
    BY <2>2
  <2> QED BY <2>1, <2>2
<1>3. n \in S
  BY <1>1, <1>2, NatSetInduction
<1> QED BY <1>3

(* A sum of zeros is zero. *)
THEOREM SumZeros ==
  ASSUME NEW f, NEW n \in Nat, \A i \in 0..n-1 : f[i] = 0
  PROVE  SumBelow(f, n) = 0
<1> DEFINE S == {m \in Nat : m <= n => SumBelow(f, m) = 0}
<1>1. 0 \in S
  BY SumZero
<1>2. ASSUME NEW m \in Nat, m \in S PROVE m + 1 \in S
  <2>1. CASE m + 1 <= n
    <3>1. m \in 0..n-1 /\ m <= n
      BY <2>1
    <3>2. SumBelow(f, m + 1) = SumBelow(f, m) + f[m]
      BY SumStep
    <3> QED BY <1>2, <3>1, <3>2
  <2>2. CASE ~ (m + 1 <= n)
    BY <2>2
  <2> QED BY <2>1, <2>2
<1>3. n \in S
  BY <1>1, <1>2, NatSetInduction
<1> QED BY <1>3

THEOREM SumNat ==
  ASSUME NEW f, NEW n \in Nat, \A i \in 0..n-1 : f[i] \in Nat
  PROVE  SumBelow(f, n) \in Nat
<1> DEFINE z == [i \in 0..n-1 |-> 0]
<1>1. SumBelow(f, n) \in Int
  BY SumInt
<1>2. SumBelow(z, n) = 0
  BY SumZeros
<1>3. SumBelow(z, n) <= SumBelow(f, n)
  <2>1. \A i \in 0..n-1 : z[i] \in Int /\ f[i] \in Int /\ z[i] <= f[i]
    OBVIOUS
  <2> HIDE DEF z
  <2> QED BY <2>1, SumMono
<1> QED BY <1>1, <1>2, <1>3

(* Changing one term changes the sum by as much. *)
THEOREM SumAt ==
  ASSUME NEW f, NEW g, NEW n \in Nat, NEW k \in 0..n-1,
         \A i \in 0..n-1 : f[i] \in Int /\ g[i] \in Int,
         \A i \in 0..n-1 : i # k => g[i] = f[i]
  PROVE  SumBelow(g, n) = SumBelow(f, n) - f[k] + g[k]
<1> DEFINE S == {m \in Nat : m <= n =>
                   SumBelow(g, m) = SumBelow(f, m)
                                    + (IF k < m THEN g[k] - f[k] ELSE 0)}
<1>1. 0 \in S
  <2>1. ~ (k < 0)
    OBVIOUS
  <2> QED BY <2>1, SumZero
<1>2. ASSUME NEW m \in Nat, m \in S PROVE m + 1 \in S
  <2>1. CASE m + 1 <= n
    <3>1. m \in 0..n-1 /\ m <= n
      BY <2>1
    <3>2. SumBelow(g, m) = SumBelow(f, m) + (IF k < m THEN g[k] - f[k] ELSE 0)
      BY <1>2, <3>1
    <3>3. SumBelow(f, m) \in Int
      <4>1. \A i \in 0..m-1 : i \in 0..n-1
        BY <3>1
      <4> QED BY <4>1, SumInt
    <3>4. /\ SumBelow(f, m + 1) = SumBelow(f, m) + f[m]
          /\ SumBelow(g, m + 1) = SumBelow(g, m) + g[m]
      BY SumStep
    <3>5. f[m] \in Int /\ g[m] \in Int /\ f[k] \in Int /\ g[k] \in Int
      BY <3>1
    <3>6. CASE m = k
      <4>1. ~ (k < m) /\ k < m + 1
        BY <3>6
      <4> QED BY <3>2, <3>3, <3>4, <3>5, <3>6, <4>1
    <3>7. CASE m # k
      <4>1. (k < m) <=> (k < m + 1)
        BY <3>7
      <4>2. g[m] = f[m]
        BY <3>1, <3>7
      <4> QED BY <3>2, <3>3, <3>4, <3>5, <4>1, <4>2
    <3> QED BY <3>6, <3>7
  <2>2. CASE ~ (m + 1 <= n)
    BY <2>2
  <2> QED BY <2>1, <2>2
<1>3. n \in S
  BY <1>1, <1>2, NatSetInduction
<1>4. SumBelow(f, n) \in Int
  BY SumInt
<1> QED BY <1>3, <1>4

(* A sum of naturals is at least each of its terms. *)
THEOREM SumMember ==
  ASSUME NEW f, NEW n \in Nat, NEW k \in 0..n-1, \A i \in 0..n-1 : f[i] \in Nat
  PROVE  f[k] <= SumBelow(f, n)
<1> DEFINE g == [i \in 0..n-1 |-> IF i = k THEN 0 ELSE f[i]]
<1>1. /\ \A i \in 0..n-1 : f[i] \in Int /\ g[i] \in Nat
      /\ \A i \in 0..n-1 : i # k => g[i] = f[i]
      /\ g[k] = 0
  OBVIOUS
<1> HIDE DEF g
<1>2. SumBelow(g, n) = SumBelow(f, n) - f[k] + g[k]
  BY <1>1, SumAt
<1>3. SumBelow(g, n) \in Nat /\ SumBelow(f, n) \in Nat
  BY <1>1, SumNat
<1> QED BY <1>1, <1>2, <1>3

(* Sums are additive, and a common factor can be taken out. *)
THEOREM SumPlus ==
  ASSUME NEW f, NEW g, NEW h, NEW n \in Nat,
         \A i \in 0..n-1 : f[i] \in Int /\ g[i] \in Int /\ h[i] = f[i] + g[i]
  PROVE  SumBelow(h, n) = SumBelow(f, n) + SumBelow(g, n)
<1> DEFINE S == {m \in Nat : m <= n => SumBelow(h, m) = SumBelow(f, m) + SumBelow(g, m)}
<1>1. 0 \in S
  BY SumZero
<1>2. ASSUME NEW m \in Nat, m \in S PROVE m + 1 \in S
  <2>1. CASE m + 1 <= n
    <3>1. m \in 0..n-1 /\ m <= n /\ \A i \in 0..m-1 : i \in 0..n-1
      BY <2>1
    <3>2. SumBelow(f, m) \in Int /\ SumBelow(g, m) \in Int
      BY <3>1, SumInt
    <3>3. /\ SumBelow(f, m + 1) = SumBelow(f, m) + f[m]
          /\ SumBelow(g, m + 1) = SumBelow(g, m) + g[m]
          /\ SumBelow(h, m + 1) = SumBelow(h, m) + h[m]
      BY SumStep
    <3> QED BY <1>2, <3>1, <3>2, <3>3
  <2>2. CASE ~ (m + 1 <= n)
    BY <2>2
  <2> QED BY <2>1, <2>2
<1>3. n \in S
  BY <1>1, <1>2, NatSetInduction
<1> QED BY <1>3

THEOREM SumScale ==
  ASSUME NEW f, NEW g, NEW c \in Int, NEW n \in Nat,
         \A i \in 0..n-1 : f[i] \in Int /\ g[i] = c * f[i]
  PROVE  SumBelow(g, n) = c * SumBelow(f, n)
<1> DEFINE S == {m \in Nat : m <= n => SumBelow(g, m) = c * SumBelow(f, m)}
<1>1. 0 \in S
  BY SumZero
<1>2. ASSUME NEW m \in Nat, m \in S PROVE m + 1 \in S
  <2>1. CASE m + 1 <= n
    <3>1. m \in 0..n-1 /\ m <= n /\ \A i \in 0..m-1 : i \in 0..n-1
      BY <2>1
    <3>2. SumBelow(f, m) \in Int /\ f[m] \in Int
      BY <3>1, SumInt
    <3>3. /\ SumBelow(f, m + 1) = SumBelow(f, m) + f[m]
          /\ SumBelow(g, m + 1) = SumBelow(g, m) + g[m]
      BY SumStep
    <3>4. c * (SumBelow(f, m) + f[m]) = c * SumBelow(f, m) + c * f[m]
      BY <3>2
    <3> QED BY <1>2, <3>1, <3>3, <3>4
  <2>2. CASE ~ (m + 1 <= n)
    BY <2>2
  <2> QED BY <2>1, <2>2
<1>3. n \in S
  BY <1>1, <1>2, NatSetInduction
<1> QED BY <1>3

(* The order of a double sum does not matter: m rows of n terms. *)
THEOREM SumExchange ==
  ASSUME NEW M, NEW m \in Nat, NEW n \in Nat,
         \A i \in 0..m-1, j \in 0..n-1 : M[i][j] \in Int
  PROVE  SumBelow([i \in 0..m-1 |-> SumBelow(M[i], n)], m)
         = SumBelow([j \in 0..n-1 |-> SumBelow([i \in 0..m-1 |-> M[i][j]], m)], n)
<1> DEFINE Row(k) == [j \in 0..n-1 |-> SumBelow([i \in 0..m-1 |-> M[i][j]], k)]
           R      == [i \in 0..m-1 |-> SumBelow(M[i], n)]
           S      == {k \in Nat : k <= m => SumBelow(R, k) = SumBelow(Row(k), n)}
<1>1. 0 \in S
  <2>1. SumBelow(R, 0) = 0
    BY SumZero
  <2>2. \A j \in 0..n-1 : Row(0)[j] = 0
    BY SumZero
  <2>3. SumBelow(Row(0), n) = 0
    <3> HIDE DEF Row
    <3> QED BY <2>2, SumZeros
  <2> QED BY <2>1, <2>3
<1>2. ASSUME NEW k \in Nat, k \in S PROVE k + 1 \in S
  <2>1. CASE k + 1 <= m
    <3>1. k \in 0..m-1 /\ k <= m /\ \A i \in 0..k-1 : i \in 0..m-1
      BY <2>1
    <3>2. SumBelow(R, k + 1) = SumBelow(R, k) + SumBelow(M[k], n)
      <4>1. SumBelow(R, k + 1) = SumBelow(R, k) + R[k]
        BY SumStep
      <4> QED BY <4>1, <3>1
    <3>3. \A j \in 0..n-1 : /\ Row(k)[j] \in Int /\ M[k][j] \in Int
                            /\ Row(k+1)[j] = Row(k)[j] + M[k][j]
      <4> TAKE j \in 0..n-1
      <4> DEFINE C == [i \in 0..m-1 |-> M[i][j]]
      <4>1. SumBelow(C, k + 1) = SumBelow(C, k) + C[k]
        BY SumStep
      <4>2. \A i \in 0..k-1 : C[i] \in Int
        BY <3>1
      <4>3. SumBelow(C, k) \in Int
        <5> HIDE DEF C
        <5> QED BY <4>2, SumInt
      <4> QED BY <4>1, <4>3, <3>1
    <3>4. SumBelow(Row(k+1), n) = SumBelow(Row(k), n) + SumBelow(M[k], n)
      <4> HIDE DEF Row
      <4> QED BY <3>3, SumPlus
    <3>5. SumBelow(R, k) = SumBelow(Row(k), n)
      BY <1>2, <3>1
    <3> QED BY <3>2, <3>4, <3>5
  <2>2. CASE ~ (k + 1 <= m)
    BY <2>2
  <2> QED BY <2>1, <2>2
<1>3. m \in S
  <2> HIDE DEF S
  <2> QED BY <1>1, <1>2, NatSetInduction
<1> QED BY <1>3

-----------------------------------------------------------------------------
(* Shares that floor *)

(* Every share the program pays out is a quotient of this kind. *)
LEMMA DivNat ==
  ASSUME NEW a \in Nat, NEW d \in Nat \ {0}
  PROVE  a \div d \in Nat /\ d * (a \div d) <= a /\ a < d * (a \div d) + d
  OBVIOUS

(* A floor of a product at most the divisor times c is at most c. *)
LEMMA DivAtMost ==
  ASSUME NEW a \in Nat, NEW d \in Nat \ {0}, NEW c \in Nat, a <= d * c
  PROVE  a \div d <= c
<1>1. a \div d \in Nat /\ d * (a \div d) <= d * c
  BY DivNat
<1>2. ASSUME a \div d > c PROVE FALSE
  <2>1. a \div d >= c + 1
    BY <1>1, <1>2
  <2>2. d * (a \div d) >= d * (c + 1)
    BY <1>1, <2>1
  <2>3. d * (c + 1) = d * c + d
    OBVIOUS
  <2> QED BY <1>1, <2>2, <2>3
<1> QED BY <1>1, <1>2

(* A quotient is the greatest number that fits. *)
LEMMA DivAtLeast ==
  ASSUME NEW a \in Nat, NEW d \in Nat \ {0}, NEW c \in Nat, d * c <= a
  PROVE  c <= a \div d
<1> DEFINE q == a \div d
           m == a % d
<1>1. q \in Nat /\ m \in Nat /\ m < d /\ a = d * q + m
  OBVIOUS
<1> HIDE DEF q, m
<1>2. ASSUME c > q PROVE FALSE
  <2>1. c >= q + 1
    BY <1>1, <1>2
  <2>2. d * c >= d * (q + 1)
    BY <1>1, <2>1
  <2>3. d * (q + 1) = d * q + d
    BY <1>1
  <2> QED BY <1>1, <2>2, <2>3
<1>3. c <= q
  BY <1>1, <1>2
<1> QED BY <1>3 DEF q

(* Shares floored one by one never add up to more than the floor of the    *)
(* whole: rounding keeps every pro-rata division of a pot within the pot.  *)
THEOREM SumFloors ==
  ASSUME NEW w, NEW share, NEW n \in Nat, NEW c \in Nat, NEW d \in Nat \ {0},
         \A i \in 0..n-1 : w[i] \in Nat /\ share[i] = (c * w[i]) \div d
  PROVE  SumBelow(share, n) <= (c * SumBelow(w, n)) \div d
<1> DEFINE up   == [i \in 0..n-1 |-> d * share[i]]
           full == [i \in 0..n-1 |-> c * w[i]]
<1>1. \A i \in 0..n-1 : share[i] \in Nat /\ d * share[i] <= c * w[i]
  <2> TAKE i \in 0..n-1
  <2>1. c * w[i] \in Nat
    OBVIOUS
  <2> QED BY <2>1, DivNat
<1>2. \A i \in 0..n-1 : up[i] = d * share[i] /\ full[i] = c * w[i]
  OBVIOUS
<1> HIDE DEF up, full
<1>3. SumBelow(up, n) = d * SumBelow(share, n)
  BY <1>1, <1>2, SumScale
<1>4. SumBelow(full, n) = c * SumBelow(w, n)
  BY <1>2, SumScale
<1>5. SumBelow(up, n) <= SumBelow(full, n)
  <2>1. \A i \in 0..n-1 : up[i] \in Int /\ full[i] \in Int /\ up[i] <= full[i]
    BY <1>1, <1>2
  <2> QED BY <2>1, SumMono
<1>6. SumBelow(share, n) \in Nat /\ SumBelow(w, n) \in Nat
  BY <1>1, SumNat
<1>7. c * SumBelow(w, n) \in Nat /\ d * SumBelow(share, n) <= c * SumBelow(w, n)
  BY <1>3, <1>4, <1>5, <1>6
<1> QED BY <1>6, <1>7, DivAtLeast
==============================================================================
