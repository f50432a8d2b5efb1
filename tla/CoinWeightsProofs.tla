-------------------------- MODULE CoinWeightsProofs --------------------------
(***************************************************************************)
(* Sums and sorted vectors of any length, and what finalize decides for all  *)
(* amounts and fees: TLC's runs try a few.  Induction goes through sets of   *)
(* natural numbers: the least number outside a set has a predecessor in it.  *)
(***************************************************************************)
EXTENDS CoinWeights, FiniteSetTheorems, WellFoundedInduction, TLAPS

\* Induction on the natural numbers, for a set: a set that holds 0 and is closed
\* under successor holds every natural number.
LEMMA SetInduction ==
  ASSUME NEW S, 0 \in S, \A n \in Nat : n \in S => n + 1 \in S
  PROVE  \A n \in Nat : n \in S
<1> SUFFICES ASSUME Nat \ S # {} PROVE FALSE
  OBVIOUS
<1> DEFINE R == OpToRel(<, Nat)
<1>1. \E x \in Nat \ S : \A y \in Nat \ S : ~(<<y, x>> \in R)
  <2> HIDE DEF R
  <2>1. IsWellFoundedOn(R, Nat)
    BY NatLessThanWellFounded DEF R
  <2> QED BY <2>1, WFMin
<1>2. PICK x \in Nat \ S : \A y \in Nat \ S : ~(<<y, x>> \in R)
  BY <1>1
<1>3. \A y \in Nat \ S : ~(y < x)
  BY <1>2 DEF OpToRel
<1>4. x # 0
  OBVIOUS
<1>5. x - 1 \in Nat /\ x - 1 < x
  BY <1>4
<1>6. x - 1 \in S
  BY <1>3, <1>5
<1> QED BY <1>5, <1>6

-----------------------------------------------------------------------------
(* Sums. *)

\* f lists the partial sums of s.
IsSums(f, s, n) == f = [i \in 0..n |-> IF i = 0 THEN 0 ELSE f[i - 1] + s[i]]

\* A vector of length n is a sequence of length n.
LEMMA VectorLen ==
  ASSUME NEW T, NEW n \in Nat, NEW s \in [1..n -> T]
  PROVE  s \in Seq(T) /\ Len(s) = n
  OBVIOUS

\* Every vector has its partial sums.
LEMMA SumsExist ==
  ASSUME NEW n \in Nat, NEW s \in [1..n -> Int]
  PROVE  \E f \in [0..n -> Int] : IsSums(f, s, n)
<1> DEFINE S == {m \in Nat : m <= n => \E f \in [0..m -> Int] : IsSums(f, s, m)}
<1>1. 0 \in S
  <2> DEFINE f == [i \in 0..0 |-> 0]
  <2>1. f \in [0..0 -> Int] /\ IsSums(f, s, 0)
    BY DEF IsSums
  <2> QED BY <2>1
<1>2. ASSUME NEW m \in Nat, m \in S PROVE m + 1 \in S
  <2> SUFFICES ASSUME m + 1 <= n
               PROVE  \E f \in [0..(m + 1) -> Int] : IsSums(f, s, m + 1)
    OBVIOUS
  <2>1. PICK f \in [0..m -> Int] : IsSums(f, s, m)
    BY <1>2
  <2> DEFINE g == [i \in 0..(m + 1) |-> IF i = m + 1 THEN f[m] + s[m + 1] ELSE f[i]]
  <2>2. s[m + 1] \in Int /\ f[m] \in Int
    OBVIOUS
  <2>3. g \in [0..(m + 1) -> Int]
    BY <2>2
  <2>4. ASSUME NEW i \in 0..(m + 1)
        PROVE  g[i] = IF i = 0 THEN 0 ELSE g[i - 1] + s[i]
    <3>1. CASE i = m + 1
      BY <3>1
    <3>2. CASE i # m + 1
      <4>1. i \in 0..m /\ (i # 0 => i - 1 \in 0..m)
        BY <3>2
      <4>2. f[i] = IF i = 0 THEN 0 ELSE f[i - 1] + s[i]
        BY <4>1, <2>1 DEF IsSums
      <4> QED BY <4>1, <4>2, <3>2
    <3> QED BY <3>1, <3>2
  <2>5. IsSums(g, s, m + 1)
    BY <2>3, <2>4 DEF IsSums
  <2> QED BY <2>3, <2>5
<1>3. n \in S
  <2> HIDE DEF S
  <2> QED BY <1>1, <1>2, SetInduction
<1> QED BY <1>3

\* What SumOf computes, whatever the partial sums are called.
LEMMA SumOfSums ==
  ASSUME NEW n \in Nat, NEW s \in [1..n -> Int]
  PROVE  \E f \in [0..n -> Int] : IsSums(f, s, n) /\ SumOf(s) = f[n]
<1> DEFINE g == CHOOSE f : IsSums(f, s, n)
<1>1. Len(s) = n
  BY VectorLen
<1>2. IsSums(g, s, n)
  BY SumsExist
<1>3. SumOf(s) = g[n]
  BY <1>1 DEF SumOf, IsSums
<1>4. PICK f \in [0..n -> Int] : IsSums(f, s, n)
  BY SumsExist
<1>5. g = f
  <2> HIDE DEF g
  <2> DEFINE S == {m \in Nat : m <= n => g[m] = f[m]}
  <2>1. 0 \in S
    BY <1>2, <1>4 DEF IsSums
  <2>2. ASSUME NEW m \in Nat, m \in S PROVE m + 1 \in S
    BY <1>2, <1>4, <2>2 DEF IsSums
  <2>3. \A m \in Nat : m \in S
    <3> HIDE DEF S
    <3> QED BY <2>1, <2>2, SetInduction
  <2>4. \A m \in 0..n : g[m] = f[m]
    BY <2>3
  <2> QED BY <1>2, <1>4, <2>4 DEF IsSums
<1> QED BY <1>3, <1>4, <1>5

\* The sum of nothing.
LEMMA SumEmpty ==
  ASSUME NEW s \in [1..0 -> Int]
  PROVE  SumOf(s) = 0
<1>1. PICK f \in [0..0 -> Int] : IsSums(f, s, 0) /\ SumOf(s) = f[0]
  BY SumOfSums
<1> QED BY <1>1 DEF IsSums

\* One element more.
LEMMA SumStep ==
  ASSUME NEW n \in Nat, NEW s \in [1..(n + 1) -> Int], NEW t \in [1..n -> Int],
         \A i \in 1..n : t[i] = s[i]
  PROVE  SumOf(s) = SumOf(t) + s[n + 1] /\ SumOf(t) \in Int /\ SumOf(s) \in Int
<1>1. PICK f \in [0..(n + 1) -> Int] : IsSums(f, s, n + 1) /\ SumOf(s) = f[n + 1]
  BY SumOfSums
<1>2. PICK g \in [0..n -> Int] : IsSums(g, t, n) /\ SumOf(t) = g[n]
  BY SumOfSums
<1>3. \A i \in 0..(n + 1) : f[i] = IF i = 0 THEN 0 ELSE f[i - 1] + s[i]
  BY <1>1 DEF IsSums
<1>4. \A i \in 0..n : g[i] = IF i = 0 THEN 0 ELSE g[i - 1] + t[i]
  BY <1>2 DEF IsSums
<1> DEFINE S == {m \in Nat : m <= n => g[m] = f[m]}
<1>5. 0 \in S
  BY <1>3, <1>4
<1>6. ASSUME NEW m \in Nat, m \in S PROVE m + 1 \in S
  <2> SUFFICES ASSUME m + 1 <= n PROVE g[m + 1] = f[m + 1]
    OBVIOUS
  <2>1. m + 1 \in 0..(n + 1) /\ m + 1 \in 0..n /\ (m + 1) - 1 = m /\ g[m] = f[m]
    BY <1>6
  <2>2. f[m + 1] = IF m + 1 = 0 THEN 0 ELSE f[(m + 1) - 1] + s[m + 1]
    BY ONLY <1>3, <2>1
  <2>3. g[m + 1] = IF m + 1 = 0 THEN 0 ELSE g[(m + 1) - 1] + t[m + 1]
    BY ONLY <1>4, <2>1
  <2> QED BY <2>1, <2>2, <2>3
<1>7. n \in S
  <2> HIDE DEF S
  <2> QED BY <1>5, <1>6, SetInduction
<1>8. f[n + 1] = f[n] + s[n + 1]
  BY <1>3
<1> QED BY <1>1, <1>2, <1>7, <1>8

\* A sum of integers is one, of natural numbers too.
LEMMA SumType ==
  ASSUME NEW n \in Nat, NEW s \in [1..n -> Int]
  PROVE  SumOf(s) \in Int
<1>1. PICK f \in [0..n -> Int] : IsSums(f, s, n) /\ SumOf(s) = f[n]
  BY SumOfSums
<1> QED BY <1>1

\* The first m elements of s.
Prefix(s, m) == [i \in 1..m |-> s[i]]

\* Sums of prefixes: the facts every induction on sums rests on.
LEMMA PrefixSums ==
  ASSUME NEW n \in Nat, NEW s \in [1..n -> Int]
  PROVE  /\ SumOf(Prefix(s, 0)) = 0
         /\ Prefix(s, n) = s
         /\ \A m \in 0..n : SumOf(Prefix(s, m)) \in Int
         /\ \A m \in Nat : m + 1 <= n =>
              SumOf(Prefix(s, m + 1)) = SumOf(Prefix(s, m)) + s[m + 1]
<1>1. \A m \in 0..n : Prefix(s, m) \in [1..m -> Int]
  BY DEF Prefix
<1>2. SumOf(Prefix(s, 0)) = 0
  <2>1. Prefix(s, 0) \in [1..0 -> Int]
    BY <1>1
  <2> QED BY <2>1, SumEmpty
<1>3. Prefix(s, n) = s
  BY DEF Prefix
<1>4. \A m \in 0..n : SumOf(Prefix(s, m)) \in Int
  BY <1>1, SumType
<1>5. ASSUME NEW m \in Nat, m + 1 <= n
      PROVE  SumOf(Prefix(s, m + 1)) = SumOf(Prefix(s, m)) + s[m + 1]
  <2>1. Prefix(s, m) \in [1..m -> Int] /\ Prefix(s, m + 1) \in [1..(m + 1) -> Int]
    BY <1>1, <1>5
  <2>2. /\ \A i \in 1..m : Prefix(s, m)[i] = Prefix(s, m + 1)[i]
        /\ Prefix(s, m + 1)[m + 1] = s[m + 1]
    BY DEF Prefix
  <2> QED BY <2>1, <2>2, SumStep
<1> QED BY <1>2, <1>3, <1>4, <1>5

\* The sum of a + b, pointwise.
LEMMA SumAdd ==
  ASSUME NEW n \in Nat, NEW a \in [1..n -> Int], NEW b \in [1..n -> Int],
         NEW c \in [1..n -> Int], \A i \in 1..n : c[i] = a[i] + b[i]
  PROVE  SumOf(c) = SumOf(a) + SumOf(b)
<1> DEFINE S == {m \in Nat : m <= n =>
                   SumOf(Prefix(c, m)) = SumOf(Prefix(a, m)) + SumOf(Prefix(b, m))}
<1>1. 0 \in S
  <2>1. SumOf(Prefix(a, 0)) = 0 /\ SumOf(Prefix(b, 0)) = 0 /\ SumOf(Prefix(c, 0)) = 0
    BY PrefixSums
  <2> QED BY <2>1
<1>2. ASSUME NEW m \in Nat, m \in S PROVE m + 1 \in S
  <2> SUFFICES ASSUME m + 1 <= n
      PROVE  SumOf(Prefix(c, m + 1)) = SumOf(Prefix(a, m + 1)) + SumOf(Prefix(b, m + 1))
    OBVIOUS
  <2>1. SumOf(Prefix(c, m)) = SumOf(Prefix(a, m)) + SumOf(Prefix(b, m))
    BY <1>2
  <2>2. m + 1 \in 1..n /\ m \in 0..n
    OBVIOUS
  <2>3. a[m + 1] \in Int /\ b[m + 1] \in Int /\ c[m + 1] = a[m + 1] + b[m + 1]
    BY <2>2
  <2>4. SumOf(Prefix(a, m)) \in Int /\ SumOf(Prefix(b, m)) \in Int
    BY <2>2, PrefixSums
  <2>5. /\ SumOf(Prefix(a, m + 1)) = SumOf(Prefix(a, m)) + a[m + 1]
        /\ SumOf(Prefix(b, m + 1)) = SumOf(Prefix(b, m)) + b[m + 1]
        /\ SumOf(Prefix(c, m + 1)) = SumOf(Prefix(c, m)) + c[m + 1]
    BY PrefixSums
  <2> QED BY <2>1, <2>3, <2>4, <2>5
<1>3. n \in S
  <2> HIDE DEF S
  <2> QED BY <1>1, <1>2, SetInduction
<1>4. Prefix(a, n) = a /\ Prefix(b, n) = b /\ Prefix(c, n) = c
  BY PrefixSums
<1> QED BY <1>3, <1>4

\* Natural numbers sum up to one.
LEMMA SumNat ==
  ASSUME NEW n \in Nat, NEW s \in [1..n -> Int], \A i \in 1..n : s[i] >= 0
  PROVE  SumOf(s) >= 0
<1> DEFINE S == {m \in Nat : m <= n => SumOf(Prefix(s, m)) >= 0}
<1>1. 0 \in S
  BY PrefixSums
<1>2. ASSUME NEW m \in Nat, m \in S PROVE m + 1 \in S
  <2> SUFFICES ASSUME m + 1 <= n PROVE SumOf(Prefix(s, m + 1)) >= 0
    OBVIOUS
  <2>1. m \in 0..n /\ s[m + 1] >= 0 /\ s[m + 1] \in Int
    OBVIOUS
  <2>2. SumOf(Prefix(s, m)) \in Int /\ SumOf(Prefix(s, m)) >= 0
    BY <1>2, <2>1, PrefixSums
  <2>3. SumOf(Prefix(s, m + 1)) = SumOf(Prefix(s, m)) + s[m + 1]
    BY PrefixSums
  <2> QED BY <2>1, <2>2, <2>3
<1>3. n \in S
  <2> HIDE DEF S
  <2> QED BY <1>1, <1>2, SetInduction
<1> QED BY <1>3, PrefixSums

\* A vector with one entry.
LEMMA SumPoint ==
  ASSUME NEW n \in Nat, NEW s \in [1..n -> Int], NEW j \in 1..n,
         \A i \in 1..n : i # j => s[i] = 0
  PROVE  SumOf(s) = s[j]
<1> DEFINE S == {m \in Nat : m <= n => SumOf(Prefix(s, m)) = IF m < j THEN 0 ELSE s[j]}
<1>1. 0 \in S
  BY PrefixSums
<1>2. ASSUME NEW m \in Nat, m \in S PROVE m + 1 \in S
  <2> SUFFICES ASSUME m + 1 <= n
               PROVE  SumOf(Prefix(s, m + 1)) = IF m + 1 < j THEN 0 ELSE s[j]
    OBVIOUS
  <2>1. m + 1 \in 1..n /\ s[m + 1] \in Int /\ s[j] \in Int /\ (m + 1 # j => s[m + 1] = 0)
    OBVIOUS
  <2>2. SumOf(Prefix(s, m)) = IF m < j THEN 0 ELSE s[j]
    BY <1>2
  <2>3. SumOf(Prefix(s, m + 1)) = SumOf(Prefix(s, m)) + s[m + 1]
    BY PrefixSums
  <2> QED BY <2>1, <2>2, <2>3
<1>3. n \in S
  <2> HIDE DEF S
  <2> QED BY <1>1, <1>2, SetInduction
<1> QED BY <1>3, PrefixSums

\* Vectors that differ in one place.
LEMMA SumUpdate ==
  ASSUME NEW n \in Nat, NEW a \in [1..n -> Int], NEW b \in [1..n -> Int], NEW j \in 1..n,
         \A i \in 1..n : i # j => b[i] = a[i]
  PROVE  SumOf(b) = SumOf(a) + (b[j] - a[j])
<1> DEFINE d == [i \in 1..n |-> IF i = j THEN b[j] - a[j] ELSE 0]
<1>1. d \in [1..n -> Int] /\ d[j] = b[j] - a[j] /\ \A i \in 1..n : i # j => d[i] = 0
  OBVIOUS
<1>2. \A i \in 1..n : b[i] = a[i] + d[i]
  OBVIOUS
<1> HIDE DEF d
<1>3. SumOf(d) = d[j]
  BY <1>1, SumPoint
<1>4. SumOf(b) = SumOf(a) + SumOf(d)
  BY <1>1, <1>2, SumAdd
<1> QED BY <1>1, <1>3, <1>4

\* p permutes the positions of a vector of length n.
IsPerm(p, n) == p \in [1..n -> 1..n] /\ \A i, j \in 1..n : p[i] = p[j] => i = j

\* A permutation of m + 1 positions, with the last place filled from j, is one of m
\* positions of the vector in which j holds the last element.
LEMMA SumPermStep ==
  ASSUME NEW m \in Nat,
         \A t \in [1..m -> Int] : \A q : IsPerm(q, m) => SumOf(Take(t, q)) = SumOf(t),
         NEW t \in [1..(m + 1) -> Int], NEW q, IsPerm(q, m + 1)
  PROVE  SumOf(Take(t, q)) = SumOf(t)
<1>1. q \in [1..(m + 1) -> 1..(m + 1)] /\ \A i, j \in 1..(m + 1) : q[i] = q[j] => i = j
  BY DEF IsPerm
<1>2. PICK j \in 1..(m + 1) : j = q[m + 1]
  BY <1>1
<1> DEFINE r == [i \in 1..m |-> IF q[i] = m + 1 THEN j ELSE q[i]]
           u == [i \in 1..m |-> IF i = j THEN t[m + 1] ELSE t[i]]
           h == [i \in 1..m |-> t[i]]
<1>3. \A i \in 1..m : q[i] \in 1..(m + 1) /\ q[i] # j /\ i \in 1..(m + 1)
  <2> SUFFICES ASSUME NEW i \in 1..m
               PROVE  q[i] \in 1..(m + 1) /\ q[i] # j /\ i \in 1..(m + 1)
    OBVIOUS
  <2>1. i \in 1..(m + 1) /\ m + 1 \in 1..(m + 1) /\ i # m + 1
    OBVIOUS
  <2> QED BY <2>1, <1>1, <1>2
<1>4. ASSUME NEW i \in 1..m
      PROVE  r[i] \in 1..m
  <2>1. r[i] = IF q[i] = m + 1 THEN j ELSE q[i]
    OBVIOUS
  <2>2. q[i] \in 1..(m + 1) /\ q[i] # j
    BY <1>3
  <2>3. CASE q[i] = m + 1
    BY <2>1, <2>2, <2>3
  <2>4. CASE q[i] # m + 1
    BY <2>1, <2>2, <2>4
  <2> QED BY <2>3, <2>4
<1>5. ASSUME NEW i \in 1..m, NEW k \in 1..m, r[i] = r[k]
      PROVE  i = k
  <2>1. /\ r[i] = IF q[i] = m + 1 THEN j ELSE q[i]
        /\ r[k] = IF q[k] = m + 1 THEN j ELSE q[k]
    OBVIOUS
  <2> HIDE DEF r
  <2>2. q[i] = q[k]
    BY <2>1, <1>3, <1>5
  <2> QED BY <2>2, <1>1, <1>3
<1>6. IsPerm(r, m)
  BY <1>4, <1>5 DEF IsPerm
<1>7. u \in [1..m -> Int] /\ h \in [1..m -> Int] /\ t[m + 1] \in Int /\ t[j] \in Int
  OBVIOUS
<1>8. SumOf(Take(u, r)) = SumOf(u)
  <2> HIDE DEF u, r
  <2> QED BY <1>6, <1>7
<1>9. ASSUME NEW i \in 1..m
      PROVE  u[r[i]] = t[q[i]]
  <2>1. r[i] = IF q[i] = m + 1 THEN j ELSE q[i]
    OBVIOUS
  <2>2. \A k \in 1..m : u[k] = IF k = j THEN t[m + 1] ELSE t[k]
    OBVIOUS
  <2> HIDE DEF r, u
  <2> QED BY <2>1, <2>2, <1>3, <1>4
<1>10. /\ DOMAIN q = 1..(m + 1) /\ DOMAIN r = 1..m
  BY <1>1
<1> HIDE DEF u, r
<1>11. /\ \A i \in 1..(m + 1) : Take(t, q)[i] = t[q[i]] /\ t[q[i]] \in Int
       /\ \A i \in 1..m : Take(u, r)[i] = u[r[i]] /\ u[r[i]] \in Int
  BY <1>1, <1>4, <1>7, <1>10 DEF Take
<1>12. Take(t, q) \in [1..(m + 1) -> Int] /\ Take(u, r) \in [1..m -> Int]
  BY <1>10, <1>11 DEF Take
<1>13. \A i \in 1..m : Take(u, r)[i] = Take(t, q)[i]
  BY <1>3, <1>9, <1>11
<1>14. Take(t, q)[m + 1] = t[j]
  BY <1>2, <1>11
<1>15. SumOf(Take(t, q)) = SumOf(u) + t[j]
  BY <1>8, <1>12, <1>13, <1>14, SumStep
<1>16. SumOf(t) = SumOf(h) + t[m + 1] /\ SumOf(h) \in Int /\ SumOf(u) \in Int
  <2>1. \A i \in 1..m : h[i] = t[i]
    OBVIOUS
  <2> HIDE DEF h
  <2> QED BY <1>7, <2>1, SumStep, SumType
<1>17. CASE j = m + 1
  <2>1. u = h
    BY <1>17 DEF u
  <2> HIDE DEF h
  <2> QED BY <2>1, <1>7, <1>15, <1>16, <1>17
<1>18. CASE j # m + 1
  <2>1. j \in 1..m
    BY <1>18
  <2>2. u[j] = t[m + 1] /\ h[j] = t[j] /\ \A i \in 1..m : i # j => u[i] = h[i]
    BY <2>1 DEF u
  <2> HIDE DEF h
  <2>3. SumOf(u) = SumOf(h) + (u[j] - h[j])
    BY <2>1, <2>2, <1>7, SumUpdate
  <2> QED BY <2>2, <2>3, <1>7, <1>15, <1>16
<1> QED BY <1>17, <1>18

\* The order of the summands does not matter.
LEMMA SumPerm ==
  ASSUME NEW n \in Nat, NEW s \in [1..n -> Int], NEW p, IsPerm(p, n)
  PROVE  SumOf(Take(s, p)) = SumOf(s)
<1> DEFINE Q(m) == \A t \in [1..m -> Int] : \A q : IsPerm(q, m) => SumOf(Take(t, q)) = SumOf(t)
           S == {m \in Nat : Q(m)}
<1>1. 0 \in S
  <2> SUFFICES ASSUME NEW t \in [1..0 -> Int], NEW q, IsPerm(q, 0)
               PROVE  SumOf(Take(t, q)) = SumOf(t)
    OBVIOUS
  <2>1. Take(t, q) \in [1..0 -> Int]
    BY DEF Take, IsPerm
  <2> QED BY <2>1, SumEmpty
<1>2. ASSUME NEW m \in Nat, m \in S PROVE m + 1 \in S
  <2>1. Q(m)
    BY <1>2
  <2>2. Q(m + 1)
    BY <2>1, SumPermStep
  <2> HIDE DEF Q
  <2> QED BY <2>2
<1>3. n \in S
  <2> HIDE DEF S
  <2> QED BY <1>1, <1>2, SetInduction
<1> QED BY <1>3

\* The first element and the rest.
LEMMA SumHead ==
  ASSUME NEW n \in Nat, NEW s \in [1..(n + 1) -> Int], NEW t \in [1..n -> Int],
         \A i \in 1..n : t[i] = s[i + 1]
  PROVE  SumOf(s) = s[1] + SumOf(t)
<1> DEFINE p == [i \in 1..(n + 1) |-> IF i = n + 1 THEN 1 ELSE i + 1]
<1>1. \A i \in 1..(n + 1) : p[i] = IF i = n + 1 THEN 1 ELSE i + 1
  OBVIOUS
<1>2. DOMAIN p = 1..(n + 1) /\ p \in [1..(n + 1) -> 1..(n + 1)]
  OBVIOUS
<1> HIDE DEF p
<1>3. IsPerm(p, n + 1)
  <2>1. ASSUME NEW i \in 1..(n + 1), NEW j \in 1..(n + 1), p[i] = p[j] PROVE i = j
    <3>1. /\ p[i] = IF i = n + 1 THEN 1 ELSE i + 1
          /\ p[j] = IF j = n + 1 THEN 1 ELSE j + 1
      BY <1>1
    <3>2. i \in Nat /\ i >= 1 /\ j \in Nat /\ j >= 1 /\ i + 1 # 1 /\ j + 1 # 1
      OBVIOUS
    <3>3. i + 1 = j + 1 => i = j
      BY <3>2
    <3>4. CASE i = n + 1
      BY <2>1, <3>1, <3>2, <3>4
    <3>5. CASE i # n + 1
      BY <2>1, <3>1, <3>2, <3>3, <3>5
    <3> QED BY <3>4, <3>5
  <2> QED BY <1>2, <2>1 DEF IsPerm
<1>4. SumOf(Take(s, p)) = SumOf(s)
  <2>1. n + 1 \in Nat
    OBVIOUS
  <2> QED BY <2>1, <1>3, SumPerm
<1>5. Take(s, p) \in [1..(n + 1) -> Int]
  BY <1>2 DEF Take
<1>6. Take(s, p)[n + 1] = s[1] /\ \A i \in 1..n : t[i] = Take(s, p)[i]
  BY <1>1, <1>2 DEF Take
<1>7. SumOf(Take(s, p)) = SumOf(t) + s[1] /\ SumOf(t) \in Int
  BY <1>5, <1>6, SumStep
<1>8. s[1] \in Int
  OBVIOUS
<1> QED BY <1>4, <1>7, <1>8

\* A sum of zeros.
LEMMA SumZeros ==
  ASSUME NEW n \in Nat, NEW s \in [1..n -> Int], \A i \in 1..n : s[i] = 0
  PROVE  SumOf(s) = 0
<1>1. SumOf(s) = SumOf(s) + SumOf(s)
  BY SumAdd
<1>2. SumOf(s) \in Int
  BY SumType
<1> QED BY <1>1, <1>2

-----------------------------------------------------------------------------
(* Enumerations and sorting. *)

\* q lists the members of S, each once.
Enumerates(q, S) ==
    /\ q \in [1..Cardinality(S) -> S]
    /\ \A i, j \in 1..Cardinality(S) : q[i] = q[j] => i = j
    /\ \A x \in S : \E i \in 1..Cardinality(S) : q[i] = x

\* order is a strict total order of S.
TotalOrder(order, S) ==
    /\ \A i \in S : <<i, i>> \notin order
    /\ \A i, j \in S : i # j => <<i, j>> \in order \/ <<j, i>> \in order
    /\ \A i, j, k \in S : <<i, j>> \in order /\ <<j, k>> \in order => <<i, k>> \in order

\* Sorting by a total order lists every member once: the rank is a bijection.
LEMMA SortedEnumerates ==
  ASSUME NEW S, IsFiniteSet(S), NEW order, TotalOrder(order, S)
  PROVE  Enumerates(Sorted(S, order), S)
<1> DEFINE n == Cardinality(S)
           B(i) == Before(S, order, i)
           rank == [i \in S |-> Cardinality(B(i))]
<1>1. n \in Nat
  BY FS_CardinalityType
<1>2. \A i \in S : B(i) \in SUBSET (S \ {i})
  BY DEF Before, TotalOrder
<1>3. \A i \in S : IsFiniteSet(S \ {i}) /\ Cardinality(S \ {i}) = n - 1
  BY FS_RemoveElement
<1>4. \A i \in S : IsFiniteSet(B(i)) /\ Cardinality(B(i)) <= n - 1 /\ Cardinality(B(i)) \in Nat
  <2> SUFFICES ASSUME NEW i \in S
               PROVE  IsFiniteSet(B(i)) /\ Cardinality(B(i)) <= n - 1 /\ Cardinality(B(i)) \in Nat
    OBVIOUS
  <2> HIDE DEF B, n
  <2>1. IsFiniteSet(B(i)) /\ Cardinality(B(i)) <= Cardinality(S \ {i})
    BY <1>2, <1>3, FS_Subset
  <2> QED BY <2>1, <1>3, FS_CardinalityType
<1>5. ASSUME NEW i \in S, NEW j \in S, <<i, j>> \in order
      PROVE  Cardinality(B(i)) # Cardinality(B(j))
  <2>1. B(i) \in SUBSET B(j) /\ i \in B(j) /\ i \notin B(i)
    BY <1>5 DEF Before, TotalOrder
  <2> HIDE DEF B
  <2> QED BY <2>1, <1>4, FS_Subset
<1>6. \A i, j \in S : rank[i] = rank[j] => i = j
  BY <1>5 DEF TotalOrder
<1>7. rank \in [S -> 0..(n - 1)]
  <2> SUFFICES ASSUME NEW i \in S PROVE Cardinality(B(i)) \in 0..(n - 1)
    OBVIOUS
  <2> HIDE DEF B, n
  <2> QED BY <1>1, <1>4
<1>8. IsFiniteSet(0..(n - 1)) /\ Cardinality(0..(n - 1)) = n
  <2> HIDE DEF n
  <2>1. n - 1 \in Int /\ 0 \in Int
    BY <1>1
  <2>2. IsFiniteSet(0..(n - 1)) /\ Cardinality(0..(n - 1)) = IF 0 > n - 1 THEN 0 ELSE (n - 1) - 0 + 1
    BY <2>1, FS_Interval
  <2> QED BY <2>2, <1>1
<1>9. \A k \in 0..(n - 1) : \E i \in S : rank[i] = k
  <2>1. rank \in Injection(S, 0..(n - 1))
    <3> HIDE DEF rank, n
    <3> QED BY <1>6, <1>7 DEF Injection, IsInjective
  <2>2. rank \in Surjection(S, 0..(n - 1))
    <3> HIDE DEF rank
    <3> QED BY <2>1, <1>8, FS_Injection
  <2> HIDE DEF rank, n
  <2> QED BY <2>2 DEF Surjection
<1> DEFINE q == Sorted(S, order)
<1>10. /\ DOMAIN q = 1..n
       /\ \A k \in 1..n : q[k] = CHOOSE i \in S : Cardinality(B(i)) = k - 1
       /\ q = [k \in 1..n |-> q[k]]
  BY DEF Sorted
<1>11. \A k \in 1..n : q[k] \in S /\ rank[q[k]] = k - 1
  <2> SUFFICES ASSUME NEW k \in 1..n PROVE q[k] \in S /\ Cardinality(B(q[k])) = k - 1
    OBVIOUS
  <2>1. \E i \in S : Cardinality(B(i)) = k - 1
    <3>1. k - 1 \in 0..(n - 1)
      BY <1>1
    <3> QED BY <3>1, <1>9
  <2>2. q[k] = CHOOSE i \in S : Cardinality(B(i)) = k - 1
    BY <1>10
  <2> HIDE DEF B, q
  <2> QED BY <2>1, <2>2
<1> HIDE DEF rank, q, B, n
<1>12. q \in [1..n -> S]
  BY <1>10, <1>11
<1>13. \A i, j \in 1..n : q[i] = q[j] => i = j
  <2> SUFFICES ASSUME NEW i \in 1..n, NEW j \in 1..n, q[i] = q[j] PROVE i = j
    OBVIOUS
  <2>1. i - 1 = j - 1
    BY <1>11
  <2> QED BY <2>1, <1>1
<1>14. ASSUME NEW x \in S PROVE \E i \in 1..n : q[i] = x
  <2>1. PICK k \in 1..n : k - 1 = rank[x]
    <3>1. rank[x] + 1 \in 1..n /\ (rank[x] + 1) - 1 = rank[x]
      BY <1>1, <1>7
    <3> QED BY <3>1
  <2>2. q[k] \in S /\ rank[q[k]] = rank[x]
    BY <1>11, <2>1
  <2> QED BY <2>2, <1>6
<1> QED BY <1>12, <1>13, <1>14 DEF Enumerates, q, n

\* The order of positions, and the stable order by a key, are total.
LEMMA InOrderEnumerates ==
  ASSUME NEW S \in SUBSET Int, IsFiniteSet(S)
  PROVE  Enumerates(InOrder(S), S)
<1> DEFINE order == {p \in S \X S : p[1] < p[2]}
<1>1. TotalOrder(order, S)
  <2>1. \A i, j \in S : <<i, j>> \in order <=> i < j
    OBVIOUS
  <2> HIDE DEF order
  <2> QED BY <2>1 DEF TotalOrder
<1> HIDE DEF order
<1>2. Enumerates(Sorted(S, order), S)
  BY <1>1, SortedEnumerates
<1> QED BY <1>2 DEF InOrder, order

\* A stable sort by a key lists every position once.
LEMMA ByKeyEnumerates ==
  ASSUME NEW S \in SUBSET Int, IsFiniteSet(S), NEW key \in [S -> Int]
  PROVE  Enumerates(ByKey(S, key), S)
<1> DEFINE order == {p \in S \X S : \/ key[p[1]] < key[p[2]]
                                    \/ key[p[1]] = key[p[2]] /\ p[1] < p[2]}
<1>1. TotalOrder(order, S)
  <2>1. \A i, j \in S : <<i, j>> \in order <=> (key[i] < key[j] \/ (key[i] = key[j] /\ i < j))
    OBVIOUS
  <2> HIDE DEF order
  <2> QED BY <2>1 DEF TotalOrder
<1> HIDE DEF order
<1>2. Enumerates(Sorted(S, order), S)
  BY <1>1, SortedEnumerates
<1> QED BY <1>2 DEF ByKey, order

\* What an enumeration of n positions is: a permutation of them.
LEMMA EnumeratesPerm ==
  ASSUME NEW n \in Nat, NEW q, Enumerates(q, 1..n)
  PROVE  IsPerm(q, n)
<1>1. Cardinality(1..n) = n
  BY FS_Interval
<1> QED BY <1>1 DEF Enumerates, IsPerm

\* A permutation reaches every position.
LEMMA PermEnumerates ==
  ASSUME NEW n \in Nat, NEW p, IsPerm(p, n)
  PROVE  Enumerates(p, 1..n)
<1>1. IsFiniteSet(1..n) /\ Cardinality(1..n) = n
  BY FS_Interval
<1>2. p \in Injection(1..n, 1..n)
  BY DEF IsPerm, Injection, IsInjective
<1>3. p \in Surjection(1..n, 1..n)
  BY <1>1, <1>2, FS_Injection
<1> QED BY <1>1, <1>3 DEF IsPerm, Enumerates, Surjection

\* Positions in a list.
LEMMA FinitePositions ==
  ASSUME NEW n \in Nat, NEW P \in SUBSET (1..n)
  PROVE  P \in SUBSET Int /\ IsFiniteSet(P) /\ Cardinality(P) \in Nat
<1>1. IsFiniteSet(1..n)
  BY FS_Interval
<1>2. IsFiniteSet(P)
  BY <1>1, FS_Subset
<1>3. P \in SUBSET Int
  OBVIOUS
<1> QED BY <1>2, <1>3, FS_CardinalityType

\* Other names for the members of a set, and a list of them.
Named(g, P) == {g[x] : x \in P}

\* A list of positions, read through an injective vector, lists what the vector names.
LEMMA MapEnumerates ==
  ASSUME NEW P, IsFiniteSet(P), NEW q, Enumerates(q, P),
         NEW g, \A i, j \in P : g[i] = g[j] => i = j
  PROVE  Enumerates(Take(g, q), Named(g, P))
<1> DEFINE T == {g[x] : x \in P}
           m == Cardinality(P)
<1>1. m \in Nat
  BY FS_CardinalityType
<1>2. Cardinality(T) = m
  <2> DEFINE b == [k \in P |-> g[k]]
  <2>1. b \in Bijection(P, T)
    BY DEF Bijection, Injection, IsInjective, Surjection
  <2>2. ExistsBijection(P, T)
    BY <2>1 DEF ExistsBijection
  <2> HIDE DEF T
  <2> QED BY <2>2, FS_Bijection
<1>3. /\ q \in [1..m -> P] /\ \A i, j \in 1..m : q[i] = q[j] => i = j
      /\ \A x \in P : \E i \in 1..m : q[i] = x
  BY DEF Enumerates
<1> HIDE DEF m
<1>4. Take(g, q) \in [1..m -> T]
  BY <1>3 DEF Take
<1>5. \A i \in 1..m : Take(g, q)[i] = g[q[i]] /\ q[i] \in P
  BY <1>3 DEF Take
<1>6. \A i, j \in 1..m : Take(g, q)[i] = Take(g, q)[j] => i = j
  BY <1>3, <1>5
<1>7. \A x \in T : \E i \in 1..m : Take(g, q)[i] = x
  BY <1>3, <1>5
<1> HIDE DEF T
<1> QED BY <1>2, <1>4, <1>6, <1>7 DEF Enumerates, Named, m, T

\* The members of a list at some positions, in order.
LEMMA TakeEnumerates ==
  ASSUME NEW U, IsFiniteSet(U), NEW s, Enumerates(s, U), NEW P \in SUBSET DOMAIN s
  PROVE  Enumerates(Take(s, InOrder(P)), Named(s, P))
<1> DEFINE n == Cardinality(U)
<1>1. n \in Nat
  BY FS_CardinalityType
<1>2. s \in [1..n -> U] /\ \A i, j \in 1..n : s[i] = s[j] => i = j
  BY DEF Enumerates
<1> HIDE DEF n
<1>3. P \in SUBSET (1..n) /\ P \in SUBSET Int /\ IsFiniteSet(P)
  <2>1. P \in SUBSET (1..n) /\ P \in SUBSET Int
    BY <1>1, <1>2
  <2> QED BY <2>1, <1>1, FinitePositions
<1>4. Enumerates(InOrder(P), P)
  BY <1>3, InOrderEnumerates
<1>5. \A i, j \in P : s[i] = s[j] => i = j
  BY <1>2, <1>3
<1> QED BY <1>3, <1>4, <1>5, MapEnumerates

\* A list in another order.
LEMMA TakePerm ==
  ASSUME NEW S, IsFiniteSet(S), NEW s, Enumerates(s, S), NEW p, IsPerm(p, Cardinality(S))
  PROVE  Enumerates(Take(s, p), S)
<1> DEFINE n == Cardinality(S)
<1>1. n \in Nat
  BY FS_CardinalityType
<1>2. /\ s \in [1..n -> S] /\ \A i, j \in 1..n : s[i] = s[j] => i = j
      /\ \A x \in S : \E i \in 1..n : s[i] = x
  BY DEF Enumerates
<1>3. p \in [1..n -> 1..n] /\ \A i, j \in 1..n : p[i] = p[j] => i = j
  BY DEF IsPerm
<1>4. \A i \in 1..n : \E j \in 1..n : p[j] = i
  <2>1. Enumerates(p, 1..n) /\ Cardinality(1..n) = n
    BY <1>1, PermEnumerates, FS_Interval
  <2> QED BY <2>1 DEF Enumerates
<1> HIDE DEF n
<1>5. \A i \in 1..n : Take(s, p)[i] = s[p[i]] /\ p[i] \in 1..n
  BY <1>3 DEF Take
<1>6. Take(s, p) \in [1..n -> S]
  BY <1>2, <1>3 DEF Take
<1>7. \A i, j \in 1..n : Take(s, p)[i] = Take(s, p)[j] => i = j
  BY <1>2, <1>3, <1>5
<1>8. \A x \in S : \E i \in 1..n : Take(s, p)[i] = x
  <2> SUFFICES ASSUME NEW x \in S PROVE \E i \in 1..n : Take(s, p)[i] = x
    OBVIOUS
  <2>1. PICK i \in 1..n : s[i] = x
    BY <1>2
  <2>2. PICK j \in 1..n : p[j] = i
    BY <1>4
  <2> QED BY <2>1, <2>2, <1>5
<1> QED BY <1>6, <1>7, <1>8 DEF Enumerates, n

\* The same numbers listed in two orders have the same sum.
LEMMA SumEnumerated ==
  ASSUME NEW S, IsFiniteSet(S), NEW g \in [S -> Int],
         NEW p, Enumerates(p, S), NEW q, Enumerates(q, S)
  PROVE  SumOf(Take(g, p)) = SumOf(Take(g, q))
<1> DEFINE n == Cardinality(S)
<1>1. n \in Nat
  BY FS_CardinalityType
<1> HIDE DEF n
<1>2. /\ p \in [1..n -> S] /\ \A i, j \in 1..n : p[i] = p[j] => i = j
      /\ q \in [1..n -> S] /\ \A i, j \in 1..n : q[i] = q[j] => i = j
      /\ \A x \in S : \E i \in 1..n : q[i] = x
  BY DEF Enumerates, n
<1> DEFINE r == [i \in 1..n |-> CHOOSE j \in 1..n : q[j] = p[i]]
<1>3. \A i \in 1..n : r[i] \in 1..n /\ q[r[i]] = p[i]
  BY <1>2
<1>4. IsPerm(r, n)
  <2>1. r \in [1..n -> 1..n]
    BY <1>3
  <2> HIDE DEF r
  <2> QED BY <2>1, <1>2, <1>3 DEF IsPerm
<1>5. DOMAIN r = 1..n
  OBVIOUS
<1> HIDE DEF r
<1>6. Take(g, q) \in [1..n -> Int]
  BY <1>2 DEF Take
<1>7. Take(Take(g, q), r) = Take(g, p)
  BY <1>2, <1>3, <1>5 DEF Take
<1>8. SumOf(Take(Take(g, q), r)) = SumOf(Take(g, q))
  BY <1>1, <1>4, <1>6, SumPerm
<1> QED BY <1>7, <1>8

-----------------------------------------------------------------------------
(* finalize and the fee. *)

\* What coinselect/finalize.rs promises of its answer f: the inputs are spent to
\* the last satoshi, the fee covers the transaction that comes out, and there
\* is no change below the dust limit.
Sound(f, inSum, outSum, feeWithout, feeWith, dust) ==
    /\ f.fee \in Nat /\ f.change \in Nat
    /\ inSum = outSum + f.fee + f.change
    /\ f.change = 0 => f.fee >= feeWithout
    /\ f.change > 0 => f.fee = feeWith /\ f.change >= dust

\* finalize: whenever it accepts, the books balance, whatever the amounts are.
THEOREM FinalizeSound ==
  ASSUME NEW inSum \in Nat, NEW outSum \in Nat, NEW feeWithout \in Nat,
         NEW feeWith \in Nat, NEW dust \in Nat \ {0},
         Finalize(inSum, outSum, feeWithout, feeWith, dust).ok
  PROVE  Sound(Finalize(inSum, outSum, feeWithout, feeWith, dust),
               inSum, outSum, feeWithout, feeWith, dust)
<1> DEFINE f == Finalize(inSum, outSum, feeWithout, feeWith, dust)
<1>1. inSum >= outSum + feeWithout
  BY DEF Finalize, NotFinal
<1>2. CASE inSum < outSum + feeWith \/ inSum - outSum - feeWith < dust
  <2>1. f.fee = inSum - outSum /\ f.change = 0
    BY <1>1, <1>2 DEF Finalize
  <2> QED BY <1>1, <2>1 DEF Sound
<1>3. CASE ~(inSum < outSum + feeWith \/ inSum - outSum - feeWith < dust)
  <2>1. f.fee = feeWith /\ f.change = inSum - outSum - feeWith
    BY <1>1, <1>3 DEF Finalize
  <2> QED BY <1>1, <1>3, <2>1 DEF Sound
<1> QED BY <1>2, <1>3

\* finalize: it accepts exactly the inputs that pay for the outputs and for the
\* transaction without change, so adding a UTXO that is worth its own fee never
\* turns an accepted selection into a refused one.
THEOREM FinalizeAccepts ==
  ASSUME NEW inSum \in Nat, NEW outSum \in Nat, NEW feeWithout \in Nat,
         NEW feeWith \in Nat, NEW dust \in Nat,
         Finalize(inSum, outSum, feeWithout, feeWith, dust).ok,
         NEW amount \in Nat, NEW cost \in Nat, amount >= cost
  PROVE  Finalize(inSum + amount, outSum, feeWithout + cost, feeWith + cost, dust).ok
<1>1. inSum >= outSum + feeWithout
  BY DEF Finalize, NotFinal
<1>2. inSum + amount >= outSum + (feeWithout + cost)
  BY <1>1
<1> QED BY <1>2 DEF Finalize

\* weight_to_vbytes rounds up, and by less than a virtual byte.
THEOREM VbytesRoundUp ==
  ASSUME NEW weight \in Nat
  PROVE  /\ WeightToVbytes(weight) \in Nat
         /\ 4 * WeightToVbytes(weight) >= weight
         /\ 4 * WeightToVbytes(weight) < weight + 4
  BY DEF WeightToVbytes

\* calculate_fee rounds up: the fee is never less than the rate, in quarters of
\* a satoshi, for the virtual bytes, nor a whole satoshi more.
THEOREM FeeRoundsUp ==
  ASSUME NEW rate \in Nat, NEW weight \in Nat
  PROVE  /\ CalculateFee(rate, weight) \in Nat
         /\ 4 * CalculateFee(rate, weight) >= rate * WeightToVbytes(weight)
         /\ 4 * CalculateFee(rate, weight) < rate * WeightToVbytes(weight) + 4
<1> DEFINE p == rate * WeightToVbytes(weight)
<1>1. p \in Nat
  BY VbytesRoundUp
<1>2. CalculateFee(rate, weight) = (p + 3) \div 4
  BY DEF CalculateFee
<1> HIDE DEF p
<1>3. (p + 3) \div 4 \in Nat /\ 4 * ((p + 3) \div 4) >= p /\ 4 * ((p + 3) \div 4) < p + 4
  BY <1>1
<1> QED BY <1>2, <1>3 DEF p
=============================================================================
