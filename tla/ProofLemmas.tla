--------------------------- MODULE ProofLemmas ---------------------------
(***************************************************************************)
(* Facts that the proofs of several modules use: about indices that run    *)
(* round a buffer and places in a cyclic stream of samples (what a step    *)
(* gives, when two are equal, and how far they are apart), and about loops *)
(* (what a loop preserves; the least element of a set of numbers, from     *)
(* which induction follows).                                               *)
(***************************************************************************)
EXTENDS Integers, WellFoundedInduction, TLAPS

\* Stepping a cyclic index: what (x + 1) % n is for an x below n.
LEMMA CyclicStep ==
  ASSUME NEW n \in Nat \ {0}, NEW x \in 0 .. n - 1
  PROVE  (x + 1) % n = IF x = n - 1 THEN 0 ELSE x + 1
<1>1. CASE x = n - 1
  BY <1>1
<1>2. CASE x # n - 1
  BY <1>2
<1>. QED BY <1>1, <1>2

\* Quotient and remainder.
LEMMA Division ==
  ASSUME NEW n \in Nat \ {0}, NEW x \in Int
  PROVE  \E q \in Int, r \in 0 .. n - 1 : r = x % n /\ x = n * q + r
<1>1. x \div n \in Int /\ x % n \in 0 .. n - 1
  OBVIOUS
<1>2. x = n * (x \div n) + (x % n)
  OBVIOUS
<1>. QED BY <1>1, <1>2, Zenon

\* A multiple of n strictly between -n and n is 0.
LEMMA SmallMultiple ==
  ASSUME NEW n \in Nat \ {0}, NEW d \in Int, n * d < n, n * d > -n
  PROVE  d = 0
<1>1. d < 1
  <2>1. SUFFICES ASSUME d >= 1 PROVE n * d >= n
    OBVIOUS
  <2>. QED BY <2>1
<1>2. d > -1
  <2>1. SUFFICES ASSUME d <= -1 PROVE n * d <= -n
    OBVIOUS
  <2>. QED BY <2>1
<1>. QED BY <1>1, <1>2

\* Remainders are unique.
LEMMA UniqueRemainder ==
  ASSUME NEW n \in Nat \ {0}, NEW p \in Int, NEW q \in Int,
         NEW r \in 0 .. n - 1, NEW s \in 0 .. n - 1, n * p + r = n * q + s
  PROVE  r = s
<1>1. n * (p - q) = n * p - n * q
  OBVIOUS
<1>2. n * (p - q) < n /\ n * (p - q) > -n
  BY <1>1
<1>3. p - q = 0
  BY <1>2, SmallMultiple
<1>. QED BY <1>1, <1>3

\* Stepping a cyclic index that is itself a remainder.
LEMMA RemainderStep ==
  ASSUME NEW n \in Nat \ {0}, NEW x \in Int, NEW y \in Int, y = x + 1
  PROVE  /\ x % n \in 0 .. n - 1
         /\ y % n = IF x % n = n - 1 THEN 0 ELSE (x % n) + 1
<1>1. PICK q \in Int, r \in 0 .. n - 1 : r = x % n /\ x = n * q + r
  BY Division
<1>2. PICK p \in Int, s \in 0 .. n - 1 : s = y % n /\ y = n * p + s
  BY Division
<1>3. CASE r = n - 1
  <2>1. n * (q + 1) = n * q + n
    BY <1>1
  <2>2. n * p + s = n * (q + 1) + 0
    BY <1>1, <1>2, <1>3, <2>1
  <2>3. s = 0
    BY <2>2, UniqueRemainder
  <2>. QED BY <1>1, <1>2, <1>3, <2>3
<1>4. CASE r # n - 1
  <2>1. n * p + s = n * q + (r + 1) /\ r + 1 \in 0 .. n - 1
    BY <1>1, <1>2, <1>4
  <2>2. s = r + 1
    BY <2>1, UniqueRemainder
  <2>. QED BY <1>1, <1>2, <1>4, <2>2
<1>. QED BY <1>3, <1>4

\* A remainder is what is left after taking off the right multiple.
LEMMA RemainderIs ==
  ASSUME NEW n \in Nat \ {0}, NEW x \in Int, NEW k \in Int,
         n * k <= x, x < n * k + n
  PROVE  x % n = x - n * k
<1>1. PICK q \in Int, r \in 0 .. n - 1 : r = x % n /\ x = n * q + r
  BY Division
<1>2. x - n * k \in 0 .. n - 1 /\ x = n * k + (x - n * k)
  OBVIOUS
<1>3. r = x - n * k
  BY <1>1, <1>2, UniqueRemainder
<1>. QED BY <1>1, <1>3

\* An index a few turns past a buffer of n slots.
LEMMA Turns ==
  ASSUME NEW n \in Nat \ {0}, NEW x \in Int, -n <= x, x < 3 * n
  PROVE  x % n = IF x < 0 THEN x + n
                 ELSE IF x < n THEN x
                 ELSE IF x < 2 * n THEN x - n ELSE x - 2 * n
<1>1. CASE x < 0
  BY <1>1, RemainderIs, n * (-1) = -n
<1>2. CASE 0 <= x /\ x < n
  BY <1>2, RemainderIs, n * 0 = 0
<1>3. CASE n <= x /\ x < 2 * n
  BY <1>3, RemainderIs, n * 1 = n
<1>4. CASE 2 * n <= x
  BY <1>4, RemainderIs, n * 2 = 2 * n
<1>. QED BY <1>1, <1>2, <1>3, <1>4

\* Numbers that differ by a multiple of n have the same remainder.
LEMMA Congruent ==
  ASSUME NEW n \in Nat \ {0}, NEW x \in Int, NEW y \in Int, NEW k \in Int,
         x = y + n * k
  PROVE  x % n = y % n
<1>1. PICK p \in Int, r \in 0 .. n - 1 : r = x % n /\ x = n * p + r
  BY Division
<1>2. PICK q \in Int, s \in 0 .. n - 1 : s = y % n /\ y = n * q + s
  BY Division
<1>3. n * (q + k) = n * q + n * k
  OBVIOUS
<1>4. n * p + r = n * (q + k) + s /\ q + k \in Int
  BY <1>1, <1>2, <1>3
<1>5. r = s
  BY <1>4, UniqueRemainder
<1>. QED BY <1>1, <1>2, <1>5

\* Numbers with the same remainder differ by a multiple of n.
LEMMA Differ ==
  ASSUME NEW n \in Nat \ {0}, NEW x \in Int, NEW y \in Int, x % n = y % n
  PROVE  \E k \in Int : x = y + n * k
<1>1. PICK p \in Int, r \in 0 .. n - 1 : r = x % n /\ x = n * p + r
  BY Division
<1>2. PICK q \in Int, s \in 0 .. n - 1 : s = y % n /\ y = n * q + s
  BY Division
<1>3. n * (p - q) = n * p - n * q
  OBVIOUS
<1>4. x = y + n * (p - q) /\ p - q \in Int
  BY <1>1, <1>2, <1>3
<1>. QED BY <1>4, Zenon

\* A number below n is its own remainder.
LEMMA Small ==
  ASSUME NEW n \in Int, NEW x \in 0 .. n - 1
  PROVE  x % n = x
OBVIOUS

\* Adding to a remainder.
LEMMA AddRemainder ==
  ASSUME NEW n \in Nat \ {0}, NEW x \in Int, NEW d \in Int
  PROVE  ((x % n) + d) % n = (x + d) % n
<1>1. PICK q \in Int, r \in 0 .. n - 1 : r = x % n /\ x = n * q + r
  BY Division
<1>2. x + d = ((x % n) + d) + n * q
  BY <1>1
<1>. DEFINE y == (x % n) + d
            z == x + d
<1>3. y \in Int /\ z \in Int /\ z = y + n * q
  BY <1>1, <1>2
<1>. HIDE DEF y, z
<1>4. z % n = y % n
  BY <1>1, <1>3, Congruent
<1>. QED BY <1>4, Zenon DEF y, z

LEMMA Distributed ==
  ASSUME NEW n \in Int, NEW a \in Int, NEW b \in Int
  PROVE  n * (a - b) = n * a - n * b
OBVIOUS

\* The remainders of two numbers are as far apart as the numbers are.
LEMMA StepApart ==
  ASSUME NEW n \in Nat \ {0}, NEW x \in Int, NEW d \in 0 .. n - 1
  PROVE  (((x + d) % n) - (x % n)) % n = d
<1>1. x + d \in Int /\ d \in Int
  OBVIOUS
<1>2. (x + d) % n \in 0 .. n - 1 /\ x % n \in 0 .. n - 1
  BY <1>1
<1>3. PICK k \in Int : x % n = x + n * k
  <2>1. PICK q \in Int, r \in 0 .. n - 1 : r = x % n /\ x = n * q + r
    BY Division
  <2>2. x % n = x + n * (-q) /\ -q \in Int
    BY <2>1
  <2>. QED BY <2>2
<1>4. PICK l \in Int : (x + d) % n = x + d + n * l
  <2>1. PICK q \in Int, r \in 0 .. n - 1 : r = (x + d) % n /\ x + d = n * q + r
    BY <1>1, Division
  <2>2. (x + d) % n = x + d + n * (-q) /\ -q \in Int
    BY <2>1
  <2>. QED BY <2>2
<1>. DEFINE a == x % n
            b == (x + d) % n
<1>5. n * (l - k) = n * l - n * k
  BY n \in Int, Distributed
<1>6. a \in Int /\ b \in Int /\ a = x + n * k /\ b = x + d + n * l
  BY <1>2, <1>3, <1>4
<1>. HIDE DEF a, b
<1>7. n * k \in Int /\ n * l \in Int /\ l - k \in Int
  OBVIOUS
<1>8. b - a = d + n * (l - k) /\ b - a \in Int
  BY <1>1, <1>5, <1>6, <1>7
<1>9. (b - a) % n = d % n
  BY <1>1, <1>7, <1>8, Congruent
<1>10. d % n = d
  BY Small
<1>. QED BY <1>9, <1>10, Zenon DEF a, b

\* A set of natural numbers has a least element.
LEMMA Least ==
  ASSUME NEW S \in SUBSET Nat, S # {}
  PROVE  \E m \in S : \A k \in S : m <= k
<1>. DEFINE R == {p \in Nat \X Nat : p[1] < p[2]}
<1>1. IsWellFoundedOn(R, Nat)
  BY NatLessThanWellFounded, Zenon DEF OpToRel
<1>2. \A k, m \in Nat : <<k, m>> \in R <=> k < m
  OBVIOUS
<1>3. \E m \in S : \A k \in S : ~(<<k, m>> \in R)
  <2>. HIDE DEF R
  <2>. QED BY <1>1, WFMin
<1>. HIDE DEF R
<1>4. PICK m \in S : \A k \in S : ~(<<k, m>> \in R)
  BY <1>3
<1>5. \A k \in S : ~(k < m)
  BY <1>2, <1>4
<1>6. \A k \in S : k \in Int
  OBVIOUS
<1>. QED BY <1>5, <1>6

\* Induction from 0 to n, as a fact about a set of numbers.
LEMMA Upwards ==
  ASSUME NEW n \in Nat, NEW S, 0 \in S, \A k \in 0 .. n - 1 : k \in S => k + 1 \in S
  PROVE  \A k \in 0 .. n : k \in S
<1>. DEFINE T == {k \in 0 .. n : k \notin S}
<1>1. SUFFICES ASSUME T # {} PROVE FALSE
  OBVIOUS
<1>2. PICK m \in T : \A k \in T : m <= k
  <2>1. T \in SUBSET Nat
    OBVIOUS
  <2>. HIDE DEF T
  <2>. QED BY <1>1, <2>1, Least
<1>3. m - 1 \in 0 .. n - 1 /\ m - 1 \notin T
  BY <1>2
<1>. QED BY <1>2, <1>3

\* The values t that a loop of n rounds goes through: it begins with d, and
\* round i takes the value b, which is in S, to F[b][i], which is in S again.
Goes(t, n, S, d, F) ==
  t \in [0 .. n -> S] /\ t[0] = d /\ \A i \in 1 .. n : t[i] = F[t[i - 1]][i]

LEMMA Rounds ==
  ASSUME NEW n \in Nat, NEW S, NEW d \in S, NEW F \in [S -> [1 .. n -> S]]
  PROVE  \E t : Goes(t, n, S, d, F)
<1>. DEFINE N == {m \in 0 .. n : \E t : Goes(t, m, S, d, F)}
<1>1. 0 \in N
  <2>. DEFINE t == [i \in 0 .. 0 |-> d]
  <2>1. Goes(t, 0, S, d, F)
    BY DEF Goes
  <2>. HIDE DEF t
  <2>. QED BY <2>1
<1>2. ASSUME NEW m \in 0 .. n - 1, m \in N
      PROVE  m + 1 \in N
  <2>1. PICK t : Goes(t, m, S, d, F)
    BY <1>2
  <2>2. t \in [0 .. m -> S] /\ t[0] = d /\ \A i \in 1 .. m : t[i] = F[t[i - 1]][i]
    BY <2>1 DEF Goes
  <2>. DEFINE v == [i \in 0 .. m + 1 |-> IF i = m + 1 THEN F[t[m]][m + 1] ELSE t[i]]
  <2>3. v \in [0 .. m + 1 -> S]
    BY <2>2
  <2>4. v[0] = d /\ v[m + 1] = F[v[(m + 1) - 1]][m + 1]
    <3>1. m \in 0 .. m + 1 /\ m # m + 1 /\ (m + 1) - 1 = m
      OBVIOUS
    <3>2. v[0] = t[0] /\ v[m] = t[m] /\ v[m + 1] = F[t[m]][m + 1]
      BY <3>1
    <3>. HIDE DEF v
    <3>. QED BY <2>2, <3>1, <3>2
  <2>5. ASSUME NEW i \in 1 .. m PROVE v[i] = F[v[i - 1]][i]
    <3>1. v[i] = t[i] /\ v[i - 1] = t[i - 1]
      OBVIOUS
    <3>. HIDE DEF v
    <3>. QED BY <2>2, <3>1
  <2>. HIDE DEF v
  <2>6. Goes(v, m + 1, S, d, F)
    <3>1. ASSUME NEW i \in 1 .. m + 1 PROVE v[i] = F[v[i - 1]][i]
      <4>1. CASE i = m + 1
        BY <2>4, <4>1, Zenon
      <4>2. CASE i # m + 1
        BY <2>5, <4>2
      <4>. QED BY <4>1, <4>2
    <3>. QED BY <2>3, <2>4, <3>1, Zenon DEF Goes
  <2>. QED BY <2>6
<1>3. \A m \in 0 .. n : m \in N
  <2>. HIDE DEF N
  <2>. QED BY <1>1, <1>2, Upwards, Zenon
<1>. QED BY <1>3

\* What holds before a loop and is preserved by every round holds at its end.
LEMMA AfterRounds ==
  ASSUME NEW n \in Nat, NEW S, NEW t, t[0] \in S,
         \A i \in 1 .. n : t[i - 1] \in S => t[i] \in S
  PROVE  t[n] \in S
<1>. DEFINE G == {i \in 0 .. n : t[i] \in S}
<1>1. 0 \in G /\ \A k \in 0 .. n - 1 : k \in G => k + 1 \in G
  <2>1. ASSUME NEW k \in 0 .. n - 1, t[k] \in S PROVE t[k + 1] \in S
    <3>1. k + 1 \in 1 .. n /\ (k + 1) - 1 = k
      OBVIOUS
    <3>. QED BY <2>1, <3>1
  <2>. QED BY <2>1
<1>2. \A k \in 0 .. n : k \in G
  <2>. HIDE DEF G
  <2>. QED BY <1>1, Upwards, Zenon
<1>. QED BY <1>2
=============================================================================
