--------------------------- MODULE Compute_proofs ---------------------------
(* The bodies of the three loops take the state of a cursor to the state   *)
(* of the next one, and reading a file yields the state that was written.  *)
EXTENDS StateFormat, FiniteSetTheorems, WellFoundedInduction, TLAPS

\* Leaves that name no prover are for SMT or Zenon.
USE SMTT(15), Z3T(15), Zenon

\* A sequence over a set is one over any larger set.
LEMMA SeqWider ==
  ASSUME NEW S, NEW T, S \subseteq T
  PROVE  Seq(S) \subseteq Seq(T)
OBVIOUS

-----------------------------------------------------------------------------
(* Arithmetic.                                                             *)

\* Quotient and remainder.
LEMMA DivMod ==
  ASSUME NEW a \in Nat, NEW m \in Nat \ {0}
  PROVE  /\ a % m \in 0 .. m - 1 /\ a \div m \in Nat
         /\ a = m * (a \div m) + (a % m)
OBVIOUS

\* There is only one remainder.
LEMMA ModUnique ==
  ASSUME NEW m \in Nat \ {0}, NEW q \in Int, NEW r \in 0 .. m - 1, NEW a \in Nat,
         a = m * q + r
  PROVE  a % m = r /\ a \div m = q
<1>1. a % m \in 0 .. m - 1 /\ a = m * (a \div m) + (a % m) /\ a \div m \in Int
  OBVIOUS
<1> DEFINE d == q - (a \div m)
<1>2. m * d = (a % m) - r /\ d \in Int
  BY <1>1
<1>3. CASE d = 0
  BY <1>1, <1>2, <1>3
<1>4. CASE d >= 1
  <2>1. m * d >= m
    BY <1>2, <1>4
  <2> QED BY <1>1, <1>2, <2>1
<1>5. CASE d <= -1
  <2>1. m * d <= -m
    BY <1>2, <1>5
  <2> QED BY <1>1, <1>2, <2>1
<1> QED BY <1>2, <1>3, <1>4, <1>5

\* A uint64_t.
LEMMA WrapFacts ==
  /\ Root \in Nat /\ Root >= 2 /\ Root * Root \in Nat \ {0} /\ Root * Root >= 4
  /\ \A n \in Nat : Wrap(n) \in Nat
  /\ \A n \in Nat : n < Root * Root => Wrap(n) = n
<1>1. Root \in Nat /\ Root >= 2
  BY RootAssumption
<1>2. Root * Root >= 2 * Root /\ Root * Root \in Nat
  BY <1>1
<1>3. Root * Root >= 4
  BY <1>1, <1>2
<1> DEFINE m == Root * Root
<1>4. m \in Nat \ {0}
  BY <1>2, <1>3
<1>5. \A n \in Nat : Wrap(n) = n % m
  BY DEF Wrap
<1> HIDE DEF m
<1>6. \A n \in Nat : n % m \in Nat /\ (n < m => n % m = n)
  BY <1>4
<1>7. /\ \A n \in Nat : Wrap(n) \in Nat
      /\ \A n \in Nat : n < m => Wrap(n) = n
  BY <1>5, <1>6, Zenon
<1> QED BY <1>1, <1>2, <1>3, <1>7, <1>4 DEF m

\* Sums may wrap on the way.
LEMMA WrapSum ==
  ASSUME NEW a \in Nat, NEW b \in Nat
  PROVE  Wrap(Wrap(a) + b) = Wrap(a + b)
<1> DEFINE m == Root * Root
<1>1. m \in Nat \ {0}
  BY WrapFacts
<1>2. \A n \in Nat : Wrap(n) = n % m
  BY DEF Wrap
<1> HIDE DEF m
<1>3. /\ a % m \in Nat /\ a \div m \in Nat /\ a = m * (a \div m) + (a % m)
      /\ (a + b) % m \in 0 .. m - 1 /\ (a + b) \div m \in Nat
      /\ a + b = m * ((a + b) \div m) + ((a + b) % m)
  BY <1>1, DivMod
<1> DEFINE q == ((a + b) \div m) - (a \div m)
           r == (a + b) % m
           c == (a % m) + b
<1>4. c \in Nat /\ q \in Int /\ r \in 0 .. m - 1 /\ c = m * q + r
  BY <1>1, <1>3
<1>5. Wrap(Wrap(a) + b) = c % m /\ Wrap(a + b) = r
  BY <1>2, <1>4
<1> HIDE DEF q, r, c
<1>6. c % m = r
  BY <1>1, <1>4, ModUnique
<1> QED BY <1>5, <1>6

-----------------------------------------------------------------------------
(* is_prime_trial.                                                         *)

\* A multiple leaves no rest.
LEMMA Multiple ==
  ASSUME NEW m \in Nat \ {0}, NEW q \in Nat
  PROVE  (m * q) % m = 0
<1> DEFINE a == m * q
<1>1. a \in Nat /\ a = m * q + 0 /\ 0 \in 0 .. m - 1 /\ q \in Int
  OBVIOUS
<1> HIDE DEF a
<1>2. a % m = 0
  BY <1>1, ModUnique
<1> QED BY <1>2 DEF a

\* A factor of an odd number is odd.
LEMMA OddFactor ==
  ASSUME NEW d \in Nat, NEW e \in Nat, (d * e) % 2 # 0
  PROVE  d % 2 = 1
<1>1. SUFFICES ASSUME d % 2 # 1 PROVE FALSE
  OBVIOUS
<1>2. PICK x \in Nat : d = 2 * x
  <2>1. d = 2 * (d \div 2) + (d % 2) /\ d % 2 = 0 /\ d \div 2 \in Nat
    BY <1>1
  <2> QED BY <2>1
<1>3. d * e = 2 * (x * e) /\ x * e \in Nat
  BY <1>2
<1>4. (2 * (x * e)) % 2 = 0
  BY <1>3, Multiple
<1> QED BY <1>3, <1>4, Zenon

\* An odd number that is no prime has an odd factor up to its root.
LEMMA SmallFactor ==
  ASSUME NEW n \in Nat, n % 2 # 0, NEW d \in 2 .. n - 1, n % d = 0
  PROVE  \E m \in 3 .. n - 1 : m % 2 = 1 /\ m * m <= n /\ n % m = 0
<1> DEFINE e == n \div d
<1>1. d \in Nat /\ d >= 2 /\ d < n
  OBVIOUS
<1>2. e \in Nat /\ n = d * e
  BY <1>1
<1> HIDE DEF e
<1>3. e # 0 /\ e # 1
  BY <1>1, <1>2
<1>4. e >= 2 /\ e < n
  <2>1. e >= 2
    BY <1>2, <1>3
  <2>2. d * e >= 2 * e
    BY <1>1, <1>2
  <2> QED BY <1>2, <2>1, <2>2
<1>5. n = e * d
  BY <1>1, <1>2
<1>6. d % 2 = 1 /\ e % 2 = 1
  BY <1>1, <1>2, <1>5, OddFactor, Zenon
<1>7. n % e = 0
  <2>1. e \in Nat \ {0} /\ d \in Nat
    BY <1>1, <1>2, <1>4
  <2>2. (e * d) % e = 0
    BY <2>1, Multiple
  <2> QED BY <1>5, <2>2
<1>8. CASE d <= e
  <2>1. d * d <= d * e
    BY <1>1, <1>2, <1>8
  <2>2. d # 2
    BY <1>6
  <2> QED BY <1>1, <1>2, <1>6, <1>7, <2>1, <2>2
<1>9. CASE e <= d
  <2>1. e * e <= e * d
    BY <1>1, <1>2, <1>9
  <2>2. e # 2
    BY <1>6
  <2> QED BY <1>2, <1>4, <1>5, <1>6, <1>7, <2>1, <2>2
<1> QED BY <1>1, <1>2, <1>8, <1>9

\* The squares that the loop takes do not wrap below the root of n, and one
\* of them stops it before n.
LEMMA SquaresStop ==
  ASSUME NEW n \in Nat, n < (Root - 1) * (Root - 1), n >= 4, n % 2 # 0
  PROVE  /\ \A k \in 3 .. n : k * k <= n => Wrap(k * k) <= n
         /\ \E k \in 3 .. n : k % 2 = 1 /\ Wrap(k * k) > n
<1>1. /\ Root \in Nat /\ Root >= 2 /\ Root % 2 = 0
      /\ \A k \in Nat : k < Root * Root => Wrap(k) = k
  BY WrapFacts, RootAssumption
<1> DEFINE r == Root - 1
<1>2. r \in Nat /\ r < Root /\ r % 2 = 1
  BY <1>1
<1>3. r * r < Root * Root
  <2>1. r * r <= r * Root /\ r * Root < Root * Root
    BY <1>1, <1>2
  <2> QED BY <1>1, <1>2, <2>1
<1>4. n < r * r
  OBVIOUS
<1> HIDE DEF r
<1>5. ASSUME NEW k \in 3 .. n, k * k <= n PROVE Wrap(k * k) <= n
  <2>1. k * k \in Nat /\ k * k < Root * Root
    BY <1>1, <1>2, <1>3, <1>4, <1>5
  <2>2. Wrap(k * k) = k * k
    BY <1>1, <2>1
  <2> QED BY <1>5, <2>2
<1>6. CASE n < r
  <2>1. n * n > n /\ n * n \in Nat
    OBVIOUS
  <2>2. n * n <= n * r /\ n * r <= r * r
    BY <1>2, <1>6
  <2>3. n * n < Root * Root
    BY <1>1, <1>2, <1>3, <2>1, <2>2
  <2>4. Wrap(n * n) = n * n
    BY <1>1, <2>1, <2>3
  <2>5. n \in 3 .. n /\ n % 2 = 1
    OBVIOUS
  <2> QED BY <1>5, <2>1, <2>4, <2>5
<1>7. CASE n >= r
  <2>1. r * r \in Nat /\ Wrap(r * r) = r * r
    BY <1>1, <1>2, <1>3
  <2>2. r >= 3
    <3>1. r # 1
      BY <1>4
    <3> QED BY <1>2, <3>1
  <2>3. r \in 3 .. n /\ Wrap(r * r) > n
    BY <1>2, <1>4, <1>7, <2>1, <2>2
  <2> QED BY <1>2, <1>5, <2>3
<1> QED BY <1>2, <1>6, <1>7

\* is_prime_trial (compute.cpp:5-13) is right up to where the square wraps.
THEOREM TrialExact ==
  ASSUME NEW n \in Nat, n < (Root - 1) * (Root - 1)
  PROVE  Trial(n) <=> n \in Primes(n)
<1> DEFINE reached(i) == \A k \in 3 .. i : k % 2 = 1 => Wrap(k * k) <= n
           divides == \A i \in 3 .. n : i % 2 = 1 /\ reached(i) => n % i # 0
<1>1. Trial(n) <=> n >= 2 /\ (n < 4 \/ (n % 2 # 0 /\ divides))
  BY DEF Trial
<1>2. n \in Primes(n) <=> n >= 2 /\ \A d \in 2 .. n - 1 : n % d # 0
  BY DEF Primes
<1>3. CASE n < 4
  <2>1. n >= 2 => \A d \in 2 .. n - 1 : n % d # 0
    BY <1>3
  <2> HIDE DEF divides
  <2> QED BY <1>1, <1>2, <1>3, <2>1
<1>4. CASE n >= 4 /\ n % 2 = 0
  <2>1. 2 \in 2 .. n - 1
    BY <1>4
  <2> HIDE DEF divides
  <2> QED BY <1>1, <1>2, <1>4, <2>1
<1>5. CASE n >= 4 /\ n % 2 # 0
  <2>1. /\ \A k \in 3 .. n : k * k <= n => Wrap(k * k) <= n
        /\ \E k \in 3 .. n : k % 2 = 1 /\ Wrap(k * k) > n
    BY <1>5, SquaresStop
  <2>2. ASSUME \A d \in 2 .. n - 1 : n % d # 0 PROVE divides
    <3>1. SUFFICES ASSUME NEW i \in 3 .. n, reached(i) PROVE n % i # 0
      BY Zenon
    <3>2. i # n
      <4>1. PICK k \in 3 .. n : k % 2 = 1 /\ Wrap(k * k) > n
        BY <2>1
      <4>2. Wrap(k * k) \in Nat
        <5>1. k * k \in Nat
          OBVIOUS
        <5> QED BY <5>1, WrapFacts
      <4>3. ~reached(n)
        BY <4>1, <4>2
      <4> HIDE DEF reached
      <4> QED BY <3>1, <4>3
    <3>3. i \in 2 .. n - 1
      BY <3>2
    <3> QED BY <2>2, <3>3, Zenon
  <2>3. ASSUME NEW d \in 2 .. n - 1, n % d = 0 PROVE ~divides
    <3>1. PICK m \in 3 .. n - 1 : m % 2 = 1 /\ m * m <= n /\ n % m = 0
      BY <1>5, <2>3, SmallFactor, Zenon
    <3>2. reached(m)
      <4>1. SUFFICES ASSUME NEW k \in 3 .. m PROVE Wrap(k * k) <= n
        OBVIOUS
      <4>2. k * k <= k * m /\ k * m <= m * m
        OBVIOUS
      <4>3. k \in 3 .. n /\ k * k <= n
        BY <3>1, <4>2
      <4> QED BY <2>1, <4>3
    <3>3. m \in 3 .. n
      OBVIOUS
    <3> HIDE DEF reached
    <3> QED BY <3>1, <3>2, <3>3
  <2> HIDE DEF divides
  <2>4. (\A d \in 2 .. n - 1 : n % d # 0) <=> divides
    BY <2>2, <2>3, Zenon
  <2> QED BY <1>1, <1>2, <1>5, <2>4
<1> QED BY <1>3, <1>4, <1>5

-----------------------------------------------------------------------------
(* Sorting.                                                                *)

\* The ranks of the elements of a set are the numbers up to its size.
LEMMA RankFacts ==
  ASSUME NEW S \in SUBSET Int, IsFiniteSet(S)
  PROVE  /\ \A x \in S : Rank(S, x) \in 1 .. Cardinality(S)
         /\ \A x, y \in S : Rank(S, x) = Rank(S, y) => x = y
<1> DEFINE upto(x) == {y \in S : y <= x}
<1>1. ASSUME NEW x \in S
      PROVE  /\ IsFiniteSet(upto(x)) /\ Cardinality(upto(x)) \in Nat
             /\ Cardinality(upto(x)) <= Cardinality(S)
             /\ x \in upto(x)
  <2>1. upto(x) \in SUBSET S /\ x \in upto(x)
    OBVIOUS
  <2> HIDE DEF upto
  <2> QED BY <2>1, FS_Subset, FS_CardinalityType
<1>2. \A x \in S : Rank(S, x) = Cardinality(upto(x))
  BY DEF Rank
<1>3. ASSUME NEW x \in S, NEW y \in S, x < y
      PROVE  Rank(S, x) # Rank(S, y)
  <2>1. upto(x) \in SUBSET upto(y) /\ y \notin upto(x) /\ y \in upto(y)
    <3>1. x \in Int /\ y \in Int /\ \A z \in S : z \in Int
      OBVIOUS
    <3>2. (\A z \in S : z <= x => z <= y) /\ ~(y <= x) /\ y <= y
      BY <1>3, <3>1
    <3> QED BY <3>2, Zenon
  <2>2. IsFiniteSet(upto(y))
    BY <1>1, Zenon
  <2> HIDE DEF upto
  <2>3. Cardinality(upto(y)) = Cardinality(upto(x)) => upto(y) = upto(x)
    BY <2>1, <2>2, FS_Subset
  <2> QED BY <1>2, <2>1, <2>3, Zenon
<1>4. ASSUME NEW x \in S PROVE Rank(S, x) \in 1 .. Cardinality(S)
  <2>1. Cardinality(upto(x)) # 0
    <3>1. upto(x) # {} /\ IsFiniteSet(upto(x))
      BY <1>1, Zenon
    <3> HIDE DEF upto
    <3> QED BY <3>1, FS_EmptySet
  <2>2. Cardinality(S) \in Nat
    BY FS_CardinalityType
  <2>3. Rank(S, x) = Cardinality(upto(x))
    BY <1>2, Zenon
  <2> DEFINE c == Cardinality(upto(x))
  <2>4. c # 0 /\ c \in Nat /\ c <= Cardinality(S)
    BY <1>1, <2>1, Zenon
  <2> HIDE DEF c
  <2>5. c \in 1 .. Cardinality(S)
    BY <2>2, <2>4
  <2> QED BY <2>3, <2>5, Zenon DEF c
<1>5. ASSUME NEW x \in S, NEW y \in S, Rank(S, x) = Rank(S, y) PROVE x = y
  <2>1. ~(x < y) /\ ~(y < x)
    BY <1>3, <1>5, Zenon
  <2> QED BY <2>1
<1> QED BY <1>4, <1>5, Zenon

\* Every element is where its rank says, and there is one at every place.
LEMMA SortedFacts ==
  ASSUME NEW S \in SUBSET Int, IsFiniteSet(S)
  PROVE  /\ Cardinality(S) \in Nat
         /\ Sorted(S) \in Seq(S) /\ Len(Sorted(S)) = Cardinality(S)
         /\ \A i \in 1 .. Cardinality(S) : /\ Sorted(S)[i] \in S
                                          /\ Rank(S, Sorted(S)[i]) = i
         /\ \A x \in S : Sorted(S)[Rank(S, x)] = x
<1> DEFINE n == Cardinality(S)
           rank == [x \in S |-> Rank(S, x)]
<1>1. n \in Nat /\ IsFiniteSet(1 .. n) /\ Cardinality(1 .. n) = n
  <2>1. n \in Nat
    BY FS_CardinalityType
  <2> HIDE DEF n
  <2> QED BY <2>1, FS_Interval
<1>2. rank \in Injection(S, 1 .. n)
  BY RankFacts, Zenon DEF Injection, IsInjective
<1>3. rank \in Surjection(S, 1 .. n)
  <2> HIDE DEF rank
  <2> QED BY <1>1, <1>2, FS_Injection DEF n
<1>4. \A i \in 1 .. n : \E x \in S : Rank(S, x) = i
  BY <1>3, Zenon DEF Surjection
<1>5. \A i \in 1 .. n : Sorted(S)[i] = CHOOSE x \in S : Rank(S, x) = i
  BY Zenon DEF Sorted
<1>6. \A i \in 1 .. n : Sorted(S)[i] \in S /\ Rank(S, Sorted(S)[i]) = i
  BY <1>4, <1>5, Zenon
<1>7. ASSUME NEW x \in S PROVE Sorted(S)[Rank(S, x)] = x
  <2>1. Rank(S, x) \in 1 .. n
    BY RankFacts, Zenon
  <2>2. /\ Sorted(S)[Rank(S, x)] \in S
        /\ Rank(S, Sorted(S)[Rank(S, x)]) = Rank(S, x)
    BY <1>6, <2>1, Zenon
  <2>3. \A u, v \in S : Rank(S, u) = Rank(S, v) => u = v
    BY RankFacts, Zenon
  <2> QED BY <2>2, <2>3, Zenon
<1>8. Sorted(S) \in [1 .. n -> S]
  BY <1>4, Zenon DEF Sorted
<1> HIDE DEF n
<1>9. Sorted(S) \in Seq(S) /\ Len(Sorted(S)) = n
  BY <1>1, <1>8
<1> QED BY <1>1, <1>6, <1>7, <1>9, Zenon DEF n

\* A new largest element comes last.
LEMMA SortedAppend ==
  ASSUME NEW S \in SUBSET Int, IsFiniteSet(S), NEW x \in Int, \A y \in S : y < x
  PROVE  /\ Sorted(S \cup {x}) = Append(Sorted(S), x)
         /\ Cardinality(S \cup {x}) = Cardinality(S) + 1
<1> DEFINE T == S \cup {x}
           n == Cardinality(S)
<1>1. x \notin S /\ T \in SUBSET Int
  OBVIOUS
<1>2. IsFiniteSet(T) /\ Cardinality(T) = n + 1
  BY <1>1, FS_AddElement
<1>3. \A y \in S : Rank(T, y) = Rank(S, y)
  <2>1. ASSUME NEW y \in S PROVE {z \in T : z <= y} = {z \in S : z <= y}
    OBVIOUS
  <2> QED BY <2>1, Zenon DEF Rank
<1>4. Rank(T, x) = n + 1
  <2>1. {z \in T : z <= x} = T
    <3>1. \A z \in T : z <= x
      BY <1>1
    <3> QED BY <3>1, Zenon
  <2> QED BY <1>2, <2>1, Zenon DEF Rank
<1> HIDE DEF T
<1>5. /\ n \in Nat /\ Sorted(S) \in Seq(S) /\ Len(Sorted(S)) = n
      /\ \A i \in 1 .. n : Sorted(S)[i] \in S /\ Rank(S, Sorted(S)[i]) = i
  BY SortedFacts, Zenon
<1>6. /\ Sorted(T) \in Seq(T) /\ Len(Sorted(T)) = n + 1
      /\ \A y \in T : Sorted(T)[Rank(T, y)] = y
  BY <1>1, <1>2, SortedFacts, Zenon
<1> HIDE DEF n
<1>7. Sorted(T)[n + 1] = x
  BY <1>4, <1>6, Zenon DEF T
<1>8. ASSUME NEW i \in 1 .. n PROVE Sorted(T)[i] = Sorted(S)[i]
  <2>1. Sorted(S)[i] \in T /\ Rank(T, Sorted(S)[i]) = i
    BY <1>3, <1>5, Zenon DEF T
  <2> QED BY <1>6, <2>1, Zenon
<1> DEFINE a == Append(Sorted(S), x)
           s == Sorted(T)
<1>9. /\ a \in Seq(T) /\ Len(a) = n + 1 /\ a[n + 1] = x
      /\ \A i \in 1 .. n : a[i] = Sorted(S)[i]
  BY <1>5 DEF T
<1> HIDE DEF a
<1>10. s \in Seq(T) /\ Len(s) = n + 1 /\ \A i \in 1 .. n + 1 : s[i] = a[i]
  <2>1. \A i \in 1 .. n + 1 : i \in 1 .. n \/ i = n + 1
    BY <1>5
  <2> QED BY <1>6, <1>7, <1>8, <1>9, <2>1, Zenon
<1> HIDE DEF s
<1>11. s = a
  BY <1>5, <1>9, <1>10
<1> QED BY <1>2, <1>11, Zenon DEF s, a, n, T

-----------------------------------------------------------------------------
(* run_sieve.                                                              *)

\* The last RecentCap elements of a list, as the ring holds them.
Ring(q) ==
  SubSeq(q, IF Len(q) > RecentCap THEN Len(q) - RecentCap + 1 ELSE 1, Len(q))

\* How many of n elements are no longer in the ring.
Dropped(n) == IF n > RecentCap THEN n - RecentCap ELSE 0

\* The ring is full from RecentCap elements on.
LEMMA DroppedFacts ==
  ASSUME NEW n \in Nat
  PROVE  /\ Dropped(n) \in Nat /\ Dropped(n) <= n /\ n - Dropped(n) <= RecentCap
         /\ n < RecentCap => Dropped(n) = 0 /\ Dropped(n + 1) = 0
         /\ n >= RecentCap => /\ Dropped(n + 1) = Dropped(n) + 1
                              /\ n - Dropped(n) = RecentCap
BY RecentCapAssumption DEF Dropped

\* What the ring holds.
LEMMA RingIs ==
  ASSUME NEW S, NEW q \in Seq(S)
  PROVE  LET n == Len(q)
             d == Dropped(n) IN
         /\ n \in Nat /\ d \in Nat /\ d <= n /\ n - d <= RecentCap
         /\ Ring(q) \in Seq(S) /\ Len(Ring(q)) = n - d
         /\ \A i \in 1 .. n - d : Ring(q)[i] = q[d + i]
<1> DEFINE n == Len(q)
           d == Dropped(n)
<1>1. n \in Nat /\ RecentCap \in Nat /\ RecentCap >= 1
  BY RecentCapAssumption
<1>2. d \in Nat /\ d <= n /\ n - d <= RecentCap
  BY <1>1, DroppedFacts
<1>3. Ring(q) = SubSeq(q, d + 1, n)
  BY <1>1 DEF Ring, Dropped
<1> HIDE DEF n, d
<1>4. /\ SubSeq(q, d + 1, n) \in Seq(S) /\ Len(SubSeq(q, d + 1, n)) = n - d
      /\ \A i \in 1 .. n - d : SubSeq(q, d + 1, n)[i] = q[d + i]
  BY <1>1, <1>2 DEF n
<1> QED BY <1>1, <1>2, <1>3, <1>4, Zenon DEF n, d

\* push_back, and pop_front when the ring is full.
LEMMA RingAppend ==
  ASSUME NEW S, NEW q \in Seq(S), NEW x \in S
  PROVE  LET ring == Append(Ring(q), x) IN
         (IF Len(ring) > RecentCap THEN Tail(ring) ELSE ring) = Ring(Append(q, x))
<1> DEFINE n == Len(q)
           d == Dropped(n)
           r == Ring(q)
           ring == Append(r, x)
           p == Append(q, x)
           e == Dropped(n + 1)
           goal == Ring(p)
<1>1. /\ n \in Nat /\ d \in Nat /\ d <= n /\ r \in Seq(S) /\ Len(r) = n - d
      /\ n - d <= RecentCap /\ \A i \in 1 .. n - d : r[i] = q[d + i]
  BY RingIs, Zenon
<1>2. /\ p \in Seq(S) /\ Len(p) = n + 1 /\ p[n + 1] = x
      /\ \A i \in 1 .. n : p[i] = q[i]
  OBVIOUS
<1>3. RecentCap \in Nat /\ RecentCap >= 1
  BY RecentCapAssumption
<1> HIDE DEF r, p
<1>4. /\ e \in Nat /\ e <= n + 1 /\ goal \in Seq(S) /\ Len(goal) = n + 1 - e
      /\ \A i \in 1 .. n + 1 - e : goal[i] = p[e + i]
  <2>1. Len(p) = n + 1 /\ p \in Seq(S)
    BY <1>2
  <2> QED BY <2>1, RingIs
<1>5. /\ n < RecentCap => d = 0 /\ e = 0
      /\ n >= RecentCap => e = d + 1 /\ n - d = RecentCap
  BY <1>1, DroppedFacts, Zenon
<1> HIDE DEF n, d, e, goal
<1>6. /\ ring \in Seq(S) /\ Len(ring) = n - d + 1 /\ ring[n - d + 1] = x
      /\ \A i \in 1 .. n - d : ring[i] = r[i]
  BY <1>1
<1> HIDE DEF ring
<1>7. /\ Tail(ring) \in Seq(S) /\ Len(Tail(ring)) = n - d
      /\ \A i \in 1 .. n - d : Tail(ring)[i] = ring[i + 1]
  <2> DEFINE m == n - d
  <2>1. m \in Nat /\ ring \in Seq(S) /\ Len(ring) = m + 1
    BY <1>1, <1>6
  <2> HIDE DEF m
  <2>2. ring # <<>>
    BY <2>1
  <2>3. /\ Tail(ring) \in Seq(S) /\ Len(Tail(ring)) = m
        /\ \A i \in 1 .. m : Tail(ring)[i] = ring[i + 1]
    BY <2>1, <2>2
  <2> QED BY <2>3 DEF m
<1>8. CASE n < RecentCap
  <2>1. d = 0 /\ e = 0 /\ ~(Len(ring) > RecentCap)
    BY <1>1, <1>3, <1>5, <1>6, <1>8
  <2>2. \A i \in 1 .. n + 1 : ring[i] = goal[i]
    <3>1. SUFFICES ASSUME NEW i \in 1 .. n + 1 PROVE ring[i] = goal[i]
      OBVIOUS
    <3>2. CASE i = n + 1
      BY <1>1, <1>2, <1>4, <1>6, <2>1, <3>2
    <3>3. CASE i \in 1 .. n
      BY <1>1, <1>2, <1>4, <1>6, <2>1, <3>3
    <3> QED BY <1>1, <3>2, <3>3
  <2>3. ring = goal
    BY <1>1, <1>4, <1>6, <2>1, <2>2
  <2> QED BY <2>1, <2>3 DEF goal, ring, r, p
<1>9. CASE n >= RecentCap
  <2> DEFINE m == n - d
             t == Tail(ring)
  <2>1. e = d + 1 /\ m = RecentCap /\ Len(ring) > RecentCap
    BY <1>1, <1>3, <1>5, <1>6, <1>9
  <2>2. /\ m \in Nat /\ m >= 1 /\ n = m + d /\ n + 1 - e = m
        /\ Len(goal) = m /\ \A i \in 1 .. m : goal[i] = p[d + 1 + i]
    BY <1>1, <1>3, <1>4, <2>1
  <2>3. /\ t \in Seq(S) /\ Len(t) = m
        /\ \A i \in 1 .. m - 1 : t[i] = q[d + i + 1]
        /\ t[m] = x
    BY <1>1, <1>6, <1>7, <2>2
  <2> HIDE DEF m, t
  <2>4. \A i \in 1 .. m : t[i] = goal[i]
    <3>1. SUFFICES ASSUME NEW i \in 1 .. m PROVE t[i] = goal[i]
      OBVIOUS
    <3>2. CASE i = m
      <4>1. goal[m] = p[n + 1]
        BY <1>1, <2>2
      <4> QED BY <1>2, <2>3, <3>2, <4>1
    <3>3. CASE i \in 1 .. m - 1
      <4>1. d + 1 + i \in 1 .. n /\ d + i + 1 = d + 1 + i
        BY <1>1, <2>2, <3>3
      <4> QED BY <1>2, <2>2, <2>3, <3>3, <4>1
    <3> QED BY <2>2, <3>2, <3>3
  <2>5. t = goal
    BY <1>4, <2>2, <2>3, <2>4
  <2> QED BY <2>1, <2>5 DEF t, goal, ring, r, p
<1> QED BY <1>1, <1>3, <1>8, <1>9

\* There are finitely many primes up to a number.
LEMMA PrimesFacts ==
  ASSUME NEW n \in Nat
  PROVE  /\ Primes(n) \in SUBSET Int /\ \A p \in Primes(n) : p \in Nat /\ p <= n
         /\ IsFiniteSet(Primes(n)) /\ Cardinality(Primes(n)) \in Nat
         /\ Cardinality(Primes(n)) <= n
<1>1. Primes(n) \in SUBSET (1 .. n)
  BY DEF Primes
<1>2. IsFiniteSet(1 .. n) /\ Cardinality(1 .. n) = n
  BY FS_Interval
<1>3. IsFiniteSet(Primes(n)) /\ Cardinality(Primes(n)) <= n
  BY <1>1, <1>2, FS_Subset
<1>4. Cardinality(Primes(n)) \in Nat
  BY <1>3, FS_CardinalityType
<1> QED BY <1>1, <1>3, <1>4

\* Between two cursors there is at most one prime, the first of them.
LEMMA PrimesNext ==
  ASSUME NEW n \in Nat, n = 2 \/ (n >= 3 /\ n % 2 = 1)
  PROVE  LET next == IF n = 2 THEN 3 ELSE n + 2 IN
         Primes(next - 1) = Primes(n - 1) \cup (IF n \in Primes(n) THEN {n} ELSE {})
<1>1. CASE n = 2
  BY <1>1 DEF Primes
<1>2. CASE n >= 3 /\ n % 2 = 1
  <2>1. ASSUME NEW p \in 2 .. n + 1
        PROVE  p \in 2 .. n - 1 \/ p = n \/ p = n + 1
    OBVIOUS
  <2>2. n + 1 \notin Primes(n + 1)
    <3>1. (n + 1) % 2 = 0 /\ 2 \in 2 .. n + 1 - 1
      BY <1>2
    <3> QED BY <3>1 DEF Primes
  <2> DEFINE prime(p) == \A d \in 2 .. p - 1 : p % d # 0
  <2>3. \A m \in Nat : Primes(m) = {p \in 2 .. m : prime(p)}
    BY DEF Primes
  <2>4. n + 1 \in Nat /\ n - 1 \in Nat /\ n + 1 \in 2 .. n + 1 /\ n \in 2 .. n + 1 /\ n \in 2 .. n
    BY <1>2
  <2>5. \A p \in 2 .. n - 1 : p \in 2 .. n + 1
    BY <1>2
  <2> HIDE DEF prime
  <2>6. Primes(n + 1) = Primes(n - 1) \cup (IF n \in Primes(n) THEN {n} ELSE {})
    <3>1. Primes(n + 1) = {p \in 2 .. n + 1 : prime(p)} /\ ~prime(n + 1)
      BY <2>2, <2>3, <2>4, Zenon
    <3>2. Primes(n - 1) = {p \in 2 .. n - 1 : prime(p)}
      BY <2>3, <2>4, Zenon
    <3>3. n \in Primes(n) <=> prime(n)
      BY <2>3, <2>4, Zenon
    <3> QED BY <2>1, <2>4, <2>5, <3>1, <3>2, <3>3
  <2>7. n # 2 /\ n + 2 - 1 = n + 1
    BY <1>2
  <2> QED BY <2>6, <2>7
<1> QED BY <1>1, <1>2

\* A state of the sieve in its loop.
SieveState(l, n, f, r) ==
  [limit |-> l, next |-> n, found |-> f, seeded |-> TRUE, recent |-> r]

\* What the body of the loop makes of such a state.
LEMMA SieveBodyIs ==
  ASSUME NEW l, NEW n, NEW f, NEW r
  PROVE  LET ring == Append(r, n)
             next == IF n = 2 THEN 3 ELSE Wrap(n + 2)
             new == IF Len(ring) > RecentCap THEN Tail(ring) ELSE ring IN
         /\ Trial(n) => SieveBody(SieveState(l, n, f, r))
                          = SieveState(l, next, Wrap(f + 1), new)
         /\ ~Trial(n) => SieveBody(SieveState(l, n, f, r)) = SieveState(l, next, f, r)
<1> DEFINE s == SieveState(l, n, f, r)
           ring == Append(r, n)
           next == IF n = 2 THEN 3 ELSE Wrap(n + 2)
           new == IF Len(ring) > RecentCap THEN Tail(ring) ELSE ring
           g == Wrap(f + 1)
           t == TRUE
           rec(u, v, w) == [limit |-> l, next |-> u, found |-> v, seeded |-> t, recent |-> w]
<1>0. \A u, v, w : SieveState(l, u, v, w) = rec(u, v, w)
  BY Zenon DEF SieveState
<1> HIDE DEF t, s
<1>1. s = rec(n, f, r)
  BY <1>0, Zenon DEF s
<1>2. s.next = n /\ s.found = f /\ s.recent = r
  BY <1>1
<1> HIDE DEF next, new, g
<1> DEFINE s1 == [s EXCEPT !.next = next]
           s2 == [s1 EXCEPT !.found = g]
           s3 == [s2 EXCEPT !.recent = new]
<1>3. SieveBody(s) = IF Trial(n) THEN s3 ELSE s1
  BY <1>2 DEF SieveBody, next, new, g
<1>4. s1 = rec(next, f, r)
  BY <1>1
<1> HIDE DEF s1
<1>5. s2 = rec(next, g, r)
  BY <1>4
<1> HIDE DEF s2
<1>6. s3 = rec(next, g, new)
  BY <1>5
<1> HIDE DEF s3, rec
<1>7. /\ s1 = SieveState(l, next, f, r)
      /\ s3 = SieveState(l, next, g, new)
  BY <1>0, <1>4, <1>6, Zenon
<1> QED BY <1>3, <1>7, Zenon DEF s, next, new, g

\* The state of the sieve at cursor n.
LEMMA SieveIs ==
  ASSUME NEW limit, NEW n \in Nat \ {0}
  PROVE  LET P == Primes(n - 1) IN
         Reference("primes", limit, n)
           = SieveState(limit, n, Cardinality(P), Ring(Sorted(P)))
<1> DEFINE P == Primes(n - 1)
<1>1. Len(Sorted(P)) = Cardinality(P)
  <2>1. n - 1 \in Nat
    OBVIOUS
  <2> QED BY <2>1, PrimesFacts, SortedFacts
<1>2. Reference("primes", limit, n)
        = SieveState(limit, n, Len(Sorted(P)), Ring(Sorted(P)))
  BY DEF Reference, Ring, SieveState
<1> QED BY <1>1, <1>2

\* Where the sieve looks after n.
SieveAfter(n) == IF n = 2 THEN 3 ELSE n + 2

\* The cursors of the sieve are 2 and the odd numbers.
LEMMA SieveCursor ==
  ASSUME NEW limit \in Nat, NEW n \in Cursors("primes", limit)
  PROVE  /\ n \in Nat /\ n >= 2 /\ (n = 2 \/ (n >= 3 /\ n % 2 = 1))
         /\ n <= limit => SieveAfter(n) \in Cursors("primes", limit)
         /\ limit < (Root - 1) * (Root - 1) => n + 2 < Root * Root \/ n > limit
<1>1. n = 2 \/ (n \in 3 .. limit + 2 /\ n % 2 = 1 /\ limit >= 2)
  BY DEF Cursors
<1>2. n \in Nat /\ n >= 2 /\ (n = 2 \/ (n >= 3 /\ n % 2 = 1))
  BY <1>1
<1>3. ASSUME n <= limit PROVE SieveAfter(n) \in Cursors("primes", limit)
  <2>1. SieveAfter(n) \in 3 .. limit + 2 /\ SieveAfter(n) % 2 = 1 /\ limit >= 2
    BY <1>2, <1>3 DEF SieveAfter
  <2> QED BY <2>1 DEF Cursors
<1>4. ASSUME limit < (Root - 1) * (Root - 1), n <= limit PROVE n + 2 < Root * Root
  <2>1. Root \in Nat /\ Root >= 2
    BY WrapFacts
  <2>2. (Root - 1) * (Root - 1) = Root * Root - 2 * Root + 1
    BY <2>1
  <2>3. Root * Root \in Nat
    BY <2>1
  <2> DEFINE m == Root * Root
             l == (Root - 1) * (Root - 1)
  <2>4. m \in Nat /\ l = m - 2 * Root + 1 /\ limit < l
    BY <1>4, <2>2, <2>3
  <2> HIDE DEF m, l
  <2>5. n + 2 < m
    BY <1>2, <1>4, <2>1, <2>4
  <2> QED BY <2>5 DEF m
<1> QED BY <1>2, <1>3, <1>4

\* One turn of run_sieve takes the state of a cursor to that of the next: a
\* prime is counted once and enters the ring, whichever turn a worker starts
\* with.
LEMMA SieveNext ==
  ASSUME NEW limit \in Nat, limit < (Root - 1) * (Root - 1),
         NEW n \in Cursors("primes", limit), n <= limit
  PROVE  SieveBody(Reference("primes", limit, n))
           = Reference("primes", limit, SieveAfter(n))
<1> DEFINE m == SieveAfter(n)
           P == Primes(n - 1)
           Q == Primes(m - 1)
           s == Reference("primes", limit, n)
           ring == Append(Ring(Sorted(P)), n)
<1>1. /\ n \in Nat /\ n >= 2 /\ (n = 2 \/ (n >= 3 /\ n % 2 = 1))
      /\ n + 2 < Root * Root
  BY SieveCursor
<1>2. m \in Nat \ {0} /\ n \in Nat \ {0} /\ n - 1 \in Nat
  BY <1>1 DEF SieveAfter
<1>3. (IF n = 2 THEN 3 ELSE Wrap(n + 2)) = m
  BY <1>1, WrapFacts DEF SieveAfter
<1>4. s = SieveState(limit, n, Cardinality(P), Ring(Sorted(P)))
  BY <1>2, SieveIs, Zenon
<1>5. Reference("primes", limit, m)
        = SieveState(limit, m, Cardinality(Q), Ring(Sorted(Q)))
  BY <1>2, SieveIs, Zenon
<1>6. Q = P \cup (IF n \in Primes(n) THEN {n} ELSE {})
  BY <1>1, PrimesNext DEF SieveAfter
<1>7. n < (Root - 1) * (Root - 1)
  BY <1>1, WrapFacts
<1>8. Trial(n) <=> n \in Primes(n)
  BY <1>1, <1>7, TrialExact
<1>9. /\ P \in SUBSET Int /\ IsFiniteSet(P) /\ Cardinality(P) \in Nat
      /\ Cardinality(P) <= n - 1 /\ \A p \in P : p < n
  BY <1>2, PrimesFacts
<1>10. Sorted(P) \in Seq(Int)
  <2>1. Sorted(P) \in Seq(P)
    BY <1>9, SortedFacts
  <2> HIDE DEF P
  <2> QED BY <1>9, <2>1, SeqWider, Zenon
<1> HIDE DEF m, P, Q, s
<1>11. /\ Trial(n) => SieveBody(s) =
              SieveState(limit, m, Wrap(Cardinality(P) + 1),
                         IF Len(ring) > RecentCap THEN Tail(ring) ELSE ring)
       /\ ~Trial(n) => SieveBody(s) = SieveState(limit, m, Cardinality(P), Ring(Sorted(P)))
  <2> DEFINE c == Cardinality(P)
             r == Ring(Sorted(P))
             next == IF n = 2 THEN 3 ELSE Wrap(n + 2)
             new == IF Len(Append(r, n)) > RecentCap THEN Tail(Append(r, n))
                    ELSE Append(r, n)
  <2> HIDE DEF c, r
  <2>1. /\ Trial(n) => SieveBody(SieveState(limit, n, c, r))
                         = SieveState(limit, next, Wrap(c + 1), new)
        /\ ~Trial(n) => SieveBody(SieveState(limit, n, c, r))
                         = SieveState(limit, next, c, r)
    BY SieveBodyIs
  <2> HIDE DEF next, new
  <2>2. next = m
    BY <1>3, Zenon DEF next
  <2>3. s = SieveState(limit, n, c, r)
    BY <1>4, Zenon DEF c, r
  <2>4. /\ Trial(n) => SieveBody(s) = SieveState(limit, m, Wrap(c + 1), new)
        /\ ~Trial(n) => SieveBody(s) = SieveState(limit, m, c, r)
    BY <2>1, <2>2, <2>3, Zenon
  <2> QED BY <2>4, Zenon DEF c, r, new
<1>12. CASE Trial(n)
  <2>1. Q = P \cup {n}
    BY <1>6, <1>8, <1>12
  <2>2. Sorted(Q) = Append(Sorted(P), n) /\ Cardinality(Q) = Cardinality(P) + 1
    <3>1. n \in Int
      BY <1>1
    <3> QED BY <1>9, <2>1, <3>1, SortedAppend, Zenon
  <2>3. Wrap(Cardinality(P) + 1) = Cardinality(P) + 1
    BY <1>1, <1>9, WrapFacts
  <2>4. (IF Len(ring) > RecentCap THEN Tail(ring) ELSE ring) = Ring(Sorted(Q))
    <3>1. n \in Int
      BY <1>1
    <3> QED BY <1>10, <2>2, <3>1, RingAppend, Zenon
  <2> QED BY <1>5, <1>11, <1>12, <2>2, <2>3, <2>4, Zenon DEF m, s
<1>13. CASE ~Trial(n)
  <2>1. Q = P
    BY <1>6, <1>8, <1>13
  <2> QED BY <1>5, <1>11, <1>13, <2>1, Zenon DEF m, s
<1> QED BY <1>12, <1>13

-----------------------------------------------------------------------------
(* wordcount.                                                              *)

\* What the body of the loop makes of a state.
LEMMA WordCountBodyIs ==
  ASSUME NEW t, NEW n, NEW c
  PROVE  LET w == WordAt[n]
             had == IF w \in DOMAIN c THEN c[w] ELSE 0 IN
         WordCountBody([total |-> t, next |-> n, counts |-> c])
           = [total |-> t, next |-> Wrap(n + 1),
              counts |-> [v \in DOMAIN c \cup {w} |->
                            IF v = w THEN Wrap(had + 1) ELSE c[v]]]
<1> DEFINE s == [total |-> t, next |-> n, counts |-> c]
           w == WordAt[n]
           had == IF w \in DOMAIN c THEN c[w] ELSE 0
           m == Wrap(n + 1)
           d == [v \in DOMAIN c \cup {w} |-> IF v = w THEN Wrap(had + 1) ELSE c[v]]
<1>1. s.next = n /\ s.counts = c
  OBVIOUS
<1> DEFINE s1 == [s EXCEPT !.next = m]
           s2 == [s1 EXCEPT !.counts = d]
<1> HIDE DEF m, d
<1>2. s1 = [total |-> t, next |-> m, counts |-> c]
  OBVIOUS
<1>3. s1.counts = c
  BY <1>2
<1> HIDE DEF s1, s
<1>4. s2 = [total |-> t, next |-> m, counts |-> d]
  BY <1>2
<1>5. WordCountBody(s) = s2
  BY <1>1, <1>3 DEF WordCountBody, s1, m, d
<1> QED BY <1>4, <1>5, Zenon DEF s, m, d

\* One turn counts one word: the histogram of the first n words becomes that
\* of the first n + 1.
LEMMA WordCountNext ==
  ASSUME NEW limit \in Nat, limit < Root * Root, NEW n \in 0 .. limit - 1
  PROVE  WordCountBody(Reference("wordcount", limit, n))
           = Reference("wordcount", limit, n + 1)
<1> DEFINE c == Histogram(n)
           w == WordAt[n]
           had == IF w \in DOMAIN c THEN c[w] ELSE 0
           d == [v \in DOMAIN c \cup {w} |-> IF v = w THEN Wrap(had + 1) ELSE c[v]]
           at(k, v) == {i \in 0 .. k - 1 : WordAt[i] = v}
           words(k) == {WordAt[i] : i \in 0 .. k - 1}
<1>1. \A k : Reference("wordcount", limit, k) =
        [total |-> limit, next |-> k, counts |-> Histogram(k)]
  BY DEF Reference
<1>2. n \in Nat /\ n + 1 < Root * Root /\ n + 1 \in Nat
  BY WrapFacts
<1>3. Wrap(n + 1) = n + 1
  BY <1>2, WrapFacts
<1>4. WordCountBody([total |-> limit, next |-> n, counts |-> c])
        = [total |-> limit, next |-> Wrap(n + 1), counts |-> d]
  BY WordCountBodyIs
<1>5. \A k \in Nat : Histogram(k) = [v \in words(k) |-> Cardinality(at(k, v))]
  BY DEF Histogram
<1>6. ASSUME NEW v
      PROVE  /\ IsFiniteSet(at(n, v)) /\ Cardinality(at(n, v)) \in Nat
             /\ Cardinality(at(n, v)) <= n
  <2>1. at(n, v) \in SUBSET (0 .. n - 1)
    OBVIOUS
  <2> HIDE DEF at
  <2>2. IsFiniteSet(0 .. n - 1) /\ Cardinality(0 .. n - 1) = n
    <3>1. 0 \in Int /\ n - 1 \in Int
      BY <1>2
    <3>2. /\ IsFiniteSet(0 .. n - 1)
          /\ Cardinality(0 .. n - 1) = IF 0 > n - 1 THEN 0 ELSE n - 1 - 0 + 1
      BY <3>1, FS_Interval
    <3> QED BY <1>2, <3>2
  <2> QED BY <2>1, <2>2, FS_Subset, FS_CardinalityType
<1> DEFINE old == 0 .. n - 1
           all == 0 .. (n + 1) - 1
<1>7. all = old \cup {n} /\ n \notin old
  BY <1>2
<1>8. /\ words(n) = {WordAt[i] : i \in old}
      /\ words(n + 1) = {WordAt[i] : i \in all}
      /\ \A v : /\ at(n, v) = {i \in old : WordAt[i] = v}
               /\ at(n + 1, v) = {i \in all : WordAt[i] = v}
  OBVIOUS
<1> HIDE DEF words, at, old, all
<1>9. words(n + 1) = words(n) \cup {w}
  BY <1>7, <1>8
<1>10. ASSUME NEW v, v # w PROVE at(n + 1, v) = at(n, v)
  <2>1. /\ at(n, v) = {i \in old : WordAt[i] = v}
        /\ at(n + 1, v) = {i \in old \cup {n} : WordAt[i] = v}
    BY <1>7, <1>8, Zenon
  <2> QED BY <1>10, <2>1, Zenon
<1>11. at(n + 1, w) = at(n, w) \cup {n} /\ n \notin at(n, w)
  BY <1>7, <1>8
<1>12. had = Cardinality(at(n, w))
  <2>1. CASE w \in words(n)
    BY <1>2, <1>5, <2>1
  <2>2. CASE w \notin words(n)
    <3>1. at(n, w) = {}
      BY <1>8, <2>2
    <3>2. DOMAIN c = words(n)
      BY <1>2, <1>5
    <3>3. Cardinality({}) = 0
      BY FS_EmptySet
    <3> QED BY <2>2, <3>1, <3>2, <3>3
  <2> QED BY <2>1, <2>2
<1>13. Cardinality(at(n + 1, w)) = had + 1
  BY <1>6, <1>11, <1>12, FS_AddElement
<1>14. Wrap(had + 1) = had + 1
  <2>1. had \in Nat /\ had <= n
    BY <1>6, <1>12, Zenon
  <2> HIDE DEF had
  <2> QED BY <1>2, <2>1, WrapFacts
<1>15. Histogram(n + 1) = d
  <2>1. c = [v \in words(n) |-> Cardinality(at(n, v))]
    BY <1>2, <1>5, Zenon
  <2>2. Histogram(n + 1) = [v \in words(n + 1) |-> Cardinality(at(n + 1, v))]
    BY <1>2, <1>5, Zenon
  <2> HIDE DEF had, c, w
  <2>3. DOMAIN c = words(n)
    BY <2>1, Zenon
  <2>4. ASSUME NEW v \in words(n) \cup {w}
        PROVE  Cardinality(at(n + 1, v)) = IF v = w THEN Wrap(had + 1) ELSE c[v]
    <3>1. CASE v = w
      BY <1>13, <1>14, <3>1
    <3>2. CASE v # w
      BY <1>10, <2>1, <3>2
    <3> QED BY <3>1, <3>2
  <2> QED BY <1>9, <2>2, <2>3, <2>4
<1> QED BY <1>1, <1>3, <1>4, <1>15, Zenon

-----------------------------------------------------------------------------
(* Sums.  A sum of numbers is the size of as many things as each says.     *)

\* There is a least number.
LEMMA LeastNat ==
  ASSUME NEW T, T \subseteq Nat, T # {}
  PROVE  \E n \in T : \A m \in T : n <= m
<1> DEFINE R == OpToRel(<, Nat)
<1>1. \A x, y \in Nat : x < y => <<x, y>> \in R
  BY DEF OpToRel
<1>2. IsWellFoundedOn(R, Nat)
  BY NatLessThanWellFounded, Zenon
<1> HIDE DEF R
<1>3. PICK n \in T : \A y \in T : ~(<<y, n>> \in R)
  BY <1>2, WFMin, Zenon
<1>4. \A m \in T : ~(m < n)
  BY <1>1, <1>3, Zenon
<1>5. \A m \in T : n <= m
  BY <1>4
<1> QED BY <1>5

\* f[x] things for each x of S.
Layer(f, x) == {x} \X (1 .. f[x])
Heap(f, S) == UNION {Layer(f, x) : x \in S}

\* There are f[x] of them for one x.
LEMMA LayerFacts ==
  ASSUME NEW f, NEW x, f[x] \in Nat
  PROVE  IsFiniteSet(Layer(f, x)) /\ Cardinality(Layer(f, x)) = f[x]
<1> DEFINE n == f[x]
           A == {x}
           B == 1 .. n
<1> HIDE DEF n
<1>0. n \in Nat
  BY DEF n
<1>1. IsFiniteSet(A) /\ Cardinality(A) = 1
  BY FS_Singleton, Zenon
<1>2. IsFiniteSet(B) /\ Cardinality(B) = n
  <2>1. Cardinality(B) = IF 1 > n THEN 0 ELSE n - 1 + 1
    BY <1>0, FS_Interval
  <2>2. IsFiniteSet(B)
    BY <1>0, FS_Interval
  <2> QED BY <1>0, <2>1, <2>2
<1> HIDE DEF A, B
<1>3. IsFiniteSet(A \X B) /\ Cardinality(A \X B) = 1 * n
  BY <1>1, <1>2, FS_Product, Zenon
<1>4. 1 * n = n
  BY <1>0
<1> QED BY <1>3, <1>4, Zenon DEF Layer, A, B, n

\* The thing says to which x it belongs.
LEMMA InLayer ==
  ASSUME NEW f, NEW x, NEW p
  PROVE  p \in Layer(f, x) <=> p = <<p[1], p[2]>> /\ p[1] = x /\ p[2] \in 1 .. f[x]
<1> DEFINE B == 1 .. f[x]
<1> HIDE DEF B
<1>1. p \in {x} \X B <=> p = <<p[1], p[2]>> /\ p[1] = x /\ p[2] \in B
  OBVIOUS
<1> QED BY <1>1, Zenon DEF Layer, B

\* A heap over a finite set is finite.
LEMMA HeapFinite ==
  ASSUME NEW f, NEW S, IsFiniteSet(S), \A x \in S : f[x] \in Nat
  PROVE  IsFiniteSet(Heap(f, S)) /\ Cardinality(Heap(f, S)) \in Nat
<1> DEFINE T == {Layer(f, x) : x \in S}
           g == [x \in S |-> Layer(f, x)]
<1>1. g \in Surjection(S, T)
  BY Zenon DEF Surjection
<1>2. IsFiniteSet(T)
  <2> HIDE DEF g, T
  <2> QED BY <1>1, FS_Surjection, Zenon
<1>3. \A L \in T : IsFiniteSet(L)
  BY LayerFacts, Zenon
<1> HIDE DEF T
<1>4. IsFiniteSet(UNION T)
  BY <1>2, <1>3, FS_UNION, Zenon
<1>5. IsFiniteSet(Heap(f, S))
  BY <1>4, Zenon DEF Heap, T
<1> QED BY <1>5, FS_CardinalityType, Zenon

\* Heaps over disjoint sets.
LEMMA HeapUnion ==
  ASSUME NEW f, NEW S, NEW T, IsFiniteSet(S), IsFiniteSet(T), S \cap T = {},
         \A x \in S \cup T : f[x] \in Nat
  PROVE  Cardinality(Heap(f, S \cup T)) = Cardinality(Heap(f, S)) + Cardinality(Heap(f, T))
<1> DEFINE A == Heap(f, S)
           B == Heap(f, T)
<1>1. IsFiniteSet(A) /\ IsFiniteSet(B) /\ Cardinality(A) \in Nat /\ Cardinality(B) \in Nat
  BY HeapFinite, Zenon
<1>2. Heap(f, S \cup T) = A \cup B
  BY Zenon DEF Heap
<1>3. A \cap B = {}
  <2>1. SUFFICES ASSUME NEW p, p \in A, p \in B PROVE FALSE
    BY Zenon
  <2>2. PICK x \in S : p \in Layer(f, x)
    BY <2>1, Zenon DEF Heap
  <2>3. PICK y \in T : p \in Layer(f, y)
    BY <2>1, Zenon DEF Heap
  <2>4. p[1] = x /\ p[1] = y
    BY <2>2, <2>3, InLayer, Zenon
  <2> QED BY <2>4, Zenon
<1> HIDE DEF A, B
<1>4. Cardinality(A \cup B) = Cardinality(A) + Cardinality(B) - Cardinality({})
  <2>1. Cardinality(A \cup B) = Cardinality(A) + Cardinality(B) - Cardinality(A \cap B)
    BY <1>1, FS_Union, Zenon
  <2> QED BY <1>3, <2>1, Zenon
<1>5. Cardinality({}) = 0
  BY FS_EmptySet, Zenon
<1>6. Cardinality(A \cup B) = Cardinality(A) + Cardinality(B)
  BY <1>1, <1>4, <1>5
<1> QED BY <1>2, <1>6, Zenon DEF A, B

\* A heap over one more.
LEMMA HeapAdd ==
  ASSUME NEW f, NEW S, IsFiniteSet(S), NEW x, x \notin S,
         \A y \in S \cup {x} : f[y] \in Nat
  PROVE  Cardinality(Heap(f, S \cup {x})) = Cardinality(Heap(f, S)) + f[x]
<1> DEFINE T == {x}
<1>1. IsFiniteSet(T) /\ S \cap T = {}
  BY FS_Singleton, Zenon
<1>2. Heap(f, T) = Layer(f, x)
  BY Zenon DEF Heap
<1>3. Cardinality(Layer(f, x)) = f[x]
  BY LayerFacts, Zenon
<1>4. Cardinality(Heap(f, S \cup T)) = Cardinality(Heap(f, S)) + Cardinality(Heap(f, T))
  <2> HIDE DEF T
  <2>1. \A y \in S \cup T : f[y] \in Nat
    BY Zenon DEF T
  <2> QED BY <1>1, <2>1, HeapUnion, Zenon
<1> QED BY <1>2, <1>3, <1>4, Zenon

\* SumFunctionOnSet goes through the set in some order.
LEMMA SumUnfold ==
  ASSUME NEW f, NEW S
  PROVE  LET pick(s) == CHOOSE x \in s : TRUE
             iter == CHOOSE g : g = [s \in SUBSET S |-> IF s = {} THEN 0
                                       ELSE f[pick(s)] + g[s \ {pick(s)}]]
         IN  SumFunctionOnSet(f, S) = iter[S]
BY DEF SumFunctionOnSet, FoldFunctionOnSet, MapThenFoldSet

\* A sum of numbers is the size of a heap, in whatever order it is taken.
LEMMA SumIsHeap ==
  ASSUME NEW f, NEW S, IsFiniteSet(S), \A x \in S : f[x] \in Nat
  PROVE  /\ SumFunctionOnSet(f, S) = Cardinality(Heap(f, S))
         /\ SumFunctionOnSet(f, S) \in Nat
<1> DEFINE pick(s) == CHOOSE x \in s : TRUE
           step(g) == [s \in SUBSET S |-> IF s = {} THEN 0
                                          ELSE f[pick(s)] + g[s \ {pick(s)}]]
           iter == CHOOSE g : g = step(g)
           h == [s \in SUBSET S |-> Cardinality(Heap(f, s))]
<1>1. SumFunctionOnSet(f, S) = iter[S]
  BY SumUnfold, Zenon
<1>2. ASSUME NEW s \in SUBSET S, s # {}
      PROVE  /\ pick(s) \in s /\ s \ {pick(s)} \in SUBSET S
             /\ IsFiniteSet(s) /\ IsFiniteSet(s \ {pick(s)})
             /\ Cardinality(s \ {pick(s)}) = Cardinality(s) - 1
             /\ Cardinality(s) \in Nat
             /\ h[s] = f[pick(s)] + h[s \ {pick(s)}]
  <2> DEFINE x == pick(s)
             r == s \ {x}
  <2>1. x \in s
    BY <1>2, Zenon
  <2> HIDE DEF x
  <2>2. r \in SUBSET S /\ x \notin r /\ s = r \cup {x} /\ x \in S
    BY <2>1, Zenon
  <2>3. IsFiniteSet(s)
    BY FS_Subset, Zenon
  <2>4. IsFiniteSet(r) /\ Cardinality(r) = Cardinality(s) - 1
    BY <2>1, <2>3, FS_RemoveElement, Zenon
  <2> HIDE DEF r
  <2>5. Cardinality(Heap(f, r \cup {x})) = Cardinality(Heap(f, r)) + f[x]
    BY <2>2, <2>4, HeapAdd, Zenon
  <2>6. Cardinality(Heap(f, r)) \in Nat /\ f[x] \in Nat /\ Cardinality(s) \in Nat
    BY <2>2, <2>3, <2>4, HeapFinite, FS_CardinalityType, Zenon
  <2>7. Cardinality(Heap(f, r)) + f[x] = f[x] + Cardinality(Heap(f, r))
    BY <2>6
  <2>8. h[s] = f[x] + h[r]
    BY <2>2, <2>5, <2>7, Zenon
  <2> QED BY <2>1, <2>2, <2>3, <2>4, <2>6, <2>8, Zenon DEF x, r
<1>3. h[{}] = 0
  <2>1. Heap(f, {}) = {}
    BY Zenon DEF Heap
  <2>2. Cardinality({}) = 0
    BY FS_EmptySet, Zenon
  <2> QED BY <2>1, <2>2, Zenon
<1>4. h = step(h)
  <2> HIDE DEF pick
  <2>1. ASSUME NEW s \in SUBSET S
        PROVE  h[s] = IF s = {} THEN 0 ELSE f[pick(s)] + h[s \ {pick(s)}]
    BY <1>2, <1>3, Zenon
  <2>2. h = [s \in SUBSET S |-> h[s]]
    BY Zenon
  <2> HIDE DEF h
  <2> QED BY <2>1, <2>2, Zenon
<1> HIDE DEF pick
<1>5. iter = step(iter)
  <2> HIDE DEF step, h
  <2> QED BY <1>4, Zenon DEF iter
<1> HIDE DEF iter
<1>6. /\ iter[{}] = 0
      /\ \A s \in SUBSET S : s # {} => iter[s] = f[pick(s)] + iter[s \ {pick(s)}]
  BY <1>5, Zenon
<1> HIDE DEF step, h
<1>7. ASSUME NEW s0 \in SUBSET S, iter[s0] # h[s0]
      PROVE  FALSE
  <2> DEFINE T == {Cardinality(s) : s \in {u \in SUBSET S : iter[u] # h[u]}}
  <2>1. T \subseteq Nat
    <3>1. ASSUME NEW s \in SUBSET S, iter[s] # h[s] PROVE Cardinality(s) \in Nat
      BY <1>2, <1>3, <1>6, <3>1, Zenon
    <3> QED BY <3>1, Zenon
  <2>2. T # {}
    BY <1>7, Zenon
  <2>3. PICK n \in T : \A m \in T : n <= m
    <3> HIDE DEF T
    <3> QED BY <2>1, <2>2, LeastNat, Zenon
  <2>4. PICK s \in SUBSET S : iter[s] # h[s] /\ n = Cardinality(s)
    BY <2>3, Zenon
  <2>5. s # {}
    BY <1>3, <1>6, <2>4, Zenon
  <2> DEFINE r == s \ {pick(s)}
  <2>6. r \in SUBSET S /\ Cardinality(r) = n - 1 /\ n \in Nat
    BY <1>2, <2>4, <2>5, Zenon
  <2>7. iter[r] # h[r]
    BY <1>2, <1>6, <2>4, <2>5, Zenon
  <2> HIDE DEF r
  <2>8. n <= n - 1
    BY <2>3, <2>6, <2>7, Zenon
  <2> QED BY <2>6, <2>8
<1>8. iter[S] = h[S]
  BY <1>7, Zenon
<1>9. h[S] = Cardinality(Heap(f, S)) /\ Cardinality(Heap(f, S)) \in Nat
  BY HeapFinite, Zenon DEF h
<1> QED BY <1>1, <1>8, <1>9, Zenon

\* Sums over disjoint sets.
LEMMA SumUnion ==
  ASSUME NEW f, NEW S, NEW T, IsFiniteSet(S), IsFiniteSet(T), S \cap T = {},
         \A x \in S \cup T : f[x] \in Nat
  PROVE  SumFunctionOnSet(f, S \cup T) = SumFunctionOnSet(f, S) + SumFunctionOnSet(f, T)
<1>1. IsFiniteSet(S \cup T)
  BY FS_Union, Zenon
<1>2. /\ SumFunctionOnSet(f, S \cup T) = Cardinality(Heap(f, S \cup T))
      /\ SumFunctionOnSet(f, S) = Cardinality(Heap(f, S))
      /\ SumFunctionOnSet(f, T) = Cardinality(Heap(f, T))
  BY <1>1, SumIsHeap, Zenon
<1>3. Cardinality(Heap(f, S \cup T)) = Cardinality(Heap(f, S)) + Cardinality(Heap(f, T))
  BY HeapUnion, Zenon
<1> QED BY <1>2, <1>3, Zenon

\* b takes the numbers f of S, one by one, to the numbers g of T.
Renames(b, f, S, g, T) ==
  /\ \A x \in S : b[x] \in T /\ g[b[x]] = f[x]
  /\ \A x, y \in S : b[x] = b[y] => x = y
  /\ \A y \in T : \E x \in S : b[x] = y

\* The same numbers under other names have the same sum.
LEMMA SumRename ==
  ASSUME NEW f, NEW S, IsFiniteSet(S), \A x \in S : f[x] \in Nat,
         NEW g, NEW T, IsFiniteSet(T), NEW b, Renames(b, f, S, g, T)
  PROVE  SumFunctionOnSet(g, T) = SumFunctionOnSet(f, S)
<1>1. /\ \A x \in S : b[x] \in T
      /\ \A x, y \in S : b[x] = b[y] => x = y
      /\ \A y \in T : \E x \in S : b[x] = y
      /\ \A x \in S : g[b[x]] = f[x]
  BY Zenon DEF Renames
<1>2. ASSUME NEW y \in T PROVE g[y] \in Nat
  <2>1. PICK x \in S : b[x] = y
    BY <1>1, Zenon
  <2>2. g[b[x]] = f[x]
    BY <1>1, Zenon
  <2> QED BY <2>1, <2>2, Zenon
<1> DEFINE A == Heap(f, S)
           B == Heap(g, T)
           m == [p \in A |-> <<b[p[1]], p[2]>>]
<1>3. ASSUME NEW p \in A
      PROVE  p[1] \in S /\ p[2] \in 1 .. f[p[1]] /\ p = <<p[1], p[2]>>
  <2>1. PICK x \in S : p \in Layer(f, x)
    BY <1>3, Zenon DEF Heap
  <2>2. p = <<p[1], p[2]>> /\ p[1] = x /\ p[2] \in 1 .. f[x]
    BY <2>1, InLayer, Zenon
  <2> QED BY <2>2, Zenon
<1>4. ASSUME NEW p \in A PROVE m[p] \in B
  <2> DEFINE q == <<b[p[1]], p[2]>>
  <2>1. q[1] = b[p[1]] /\ q[2] = p[2]
    OBVIOUS
  <2>2. b[p[1]] \in T /\ g[b[p[1]]] = f[p[1]]
    BY <1>1, <1>3, Zenon
  <2>3. q \in Layer(g, b[p[1]])
    BY <1>3, <2>1, <2>2, InLayer, Zenon
  <2> QED BY <2>2, <2>3, Zenon DEF Heap
<1>5. ASSUME NEW p \in A, NEW q \in A, m[p] = m[q] PROVE p = q
  <2>1. <<b[p[1]], p[2]>> = <<b[q[1]], q[2]>>
    BY <1>5, Zenon
  <2>2. b[p[1]] = b[q[1]] /\ p[2] = q[2]
    BY <2>1
  <2>3. p[1] = q[1]
    BY <1>1, <1>3, <2>2, Zenon
  <2>4. p = <<p[1], p[2]>> /\ q = <<q[1], q[2]>>
    BY <1>3, Zenon
  <2> QED BY <2>2, <2>3, <2>4, Zenon
<1>6. ASSUME NEW q \in B PROVE \E p \in A : m[p] = q
  <2>1. PICK y \in T : q \in Layer(g, y)
    BY <1>6, Zenon DEF Heap
  <2>2. q = <<q[1], q[2]>> /\ q[1] = y /\ q[2] \in 1 .. g[y]
    BY <2>1, InLayer, Zenon
  <2>3. PICK x \in S : b[x] = y
    BY <1>1, Zenon
  <2> DEFINE p == <<x, q[2]>>
  <2>4. p[1] = x /\ p[2] = q[2]
    OBVIOUS
  <2>5. g[y] = f[x]
    BY <1>1, <2>3, Zenon
  <2>6. p \in Layer(f, x)
    BY <2>2, <2>4, <2>5, InLayer, Zenon
  <2>7. p \in A
    BY <2>6, Zenon DEF Heap
  <2> HIDE DEF p
  <2>8. m[p] = q
    BY <2>2, <2>3, <2>4, <2>7, Zenon
  <2> QED BY <2>7, <2>8, Zenon
<1>7. m \in Bijection(A, B)
  <2>1. m \in [A -> B]
    <3> SUFFICES ASSUME NEW p \in A PROVE <<b[p[1]], p[2]>> \in B
      BY Zenon
    <3> HIDE DEF A, B
    <3> QED BY <1>4, Zenon DEF m
  <2> HIDE DEF m, A, B
  <2>2. m \in Injection(A, B)
    BY <1>5, <2>1 DEF Injection, IsInjective
  <2>3. m \in Surjection(A, B)
    BY <1>6, <2>1 DEF Surjection
  <2> QED BY <2>2, <2>3, Zenon DEF Bijection
<1>8. IsFiniteSet(A)
  BY HeapFinite, Zenon
<1>9. Cardinality(A) = Cardinality(B)
  <2> HIDE DEF A, B, m
  <2>1. ExistsBijection(A, B)
    BY <1>7, Zenon DEF ExistsBijection
  <2> QED BY <1>8, <2>1, FS_Bijection, Zenon
<1> QED BY <1>2, <1>9, SumIsHeap, Zenon

-----------------------------------------------------------------------------
(* matmul.                                                                 *)

\* The numbers below the size, cells, and the products that make a cell.
Below(n) == 0 .. n - 1
Triples(n) == Below(n) \X Below(n) \X Below(n)
Before(n, c) == {t \in Triples(n) : t[1] * n + t[2] < c}
Factor(n, t) == CellA[t[1] * n + t[3]] * CellB[t[3] * n + t[2]]
Factors(n) == [t \in Triples(n) |-> Factor(n, t)]

\* The inputs of a product are numbers (InputAssumption of WorkerRun).
CellsOK(n) == \A i \in 0 .. n * n - 1 : CellA[i] \in Nat /\ CellB[i] \in Nat

\* A cell has a place, row by row.
LEMMA CellPlace ==
  ASSUME NEW n \in Nat, NEW i \in Below(n), NEW j \in Below(n)
  PROVE  i * n + j \in 0 .. n * n - 1
<1>1. i \in Nat /\ j \in Nat /\ i + 1 <= n /\ j + 1 <= n
  BY DEF Below
<1>2. n * (i + 1) <= n * n /\ i * n \in Nat /\ n * n \in Nat
  BY <1>1
<1>3. n * (i + 1) = i * n + n
  BY <1>1
<1> DEFINE p == i * n
           q == n * n
<1>4. p + n <= q /\ p \in Nat /\ q \in Nat
  BY <1>1, <1>2, <1>3
<1> HIDE DEF p, q
<1>5. p + j \in 0 .. q - 1
  BY <1>1, <1>4
<1> QED BY <1>5 DEF p, q

\* The cell at a cursor is the only one in its place.
LEMMA CellAt ==
  ASSUME NEW n \in Nat, NEW c \in 0 .. n * n - 1
  PROVE  LET i == c \div n
             j == c % n IN
         /\ n > 0 /\ i \in Below(n) /\ j \in Below(n) /\ i * n + j = c
         /\ \A a, b \in Below(n) : a * n + b = c => a = i /\ b = j
<1> DEFINE i == c \div n
           j == c % n
<1>1. n > 0
  <2>1. CASE n = 0
    BY <2>1
  <2> QED BY <2>1
<1>2. c \in Nat /\ c < n * n /\ n * n \in Nat
  BY <1>1
<1>3. j \in 0 .. n - 1 /\ i \in Nat /\ c = n * i + j
  BY <1>1, <1>2, DivMod
<1> HIDE DEF i, j
<1>4. i < n
  <2>1. CASE i >= n
    <3>1. n * i >= n * n
      BY <1>1, <1>3, <2>1
    <3>2. n * i \in Nat
      BY <1>1, <1>3
    <3> QED BY <1>2, <1>3, <3>1, <3>2
  <2> QED BY <1>1, <1>3, <2>1
<1>5. i \in Below(n) /\ j \in Below(n)
  BY <1>1, <1>3, <1>4 DEF Below
<1>6. i * n + j = c
  BY <1>1, <1>3
<1>7. ASSUME NEW a \in Below(n), NEW b \in Below(n), a * n + b = c
      PROVE  a = i /\ b = j
  <2>1. a \in Int /\ b \in 0 .. n - 1 /\ n \in Nat \ {0}
    BY <1>1 DEF Below
  <2>2. c = n * a + b
    BY <1>7, <2>1
  <2>3. c % n = b /\ c \div n = a
    BY <1>2, <2>1, <2>2, ModUnique, Zenon
  <2> QED BY <2>3, Zenon DEF i, j
<1> QED BY <1>1, <1>5, <1>6, <1>7, Zenon DEF i, j

\* A triple by its parts.
LEMMA TripleFacts ==
  ASSUME NEW n, NEW t
  PROVE  t \in Triples(n) <=> /\ t = <<t[1], t[2], t[3]>>
                              /\ t[1] \in Below(n) /\ t[2] \in Below(n) /\ t[3] \in Below(n)
<1> DEFINE B == Below(n)
<1> HIDE DEF B
<1>1. t \in B \X B \X B <=> /\ t = <<t[1], t[2], t[3]>>
                           /\ t[1] \in B /\ t[2] \in B /\ t[3] \in B
  OBVIOUS
<1> QED BY <1>1, Zenon DEF B, Triples

\* There are finitely many triples, and their products are numbers.
LEMMA FactorFacts ==
  ASSUME NEW n \in Nat, CellsOK(n)
  PROVE  /\ IsFiniteSet(Triples(n)) /\ IsFiniteSet(Below(n))
         /\ \A t \in Triples(n) : Factor(n, t) \in Nat
<1> DEFINE B == Below(n)
<1>1. IsFiniteSet(B)
  <2>1. n - 1 \in Int
    OBVIOUS
  <2> QED BY <2>1, FS_Interval DEF Below
<1> HIDE DEF B
<1>2. IsFiniteSet(Triples(n))
  <2> DEFINE m == [r \in (B \X B) \X B |-> <<r[1][1], r[1][2], r[2]>>]
  <2>1. IsFiniteSet((B \X B) \X B)
    BY <1>1, FS_Product, Zenon
  <2>2. m \in Surjection((B \X B) \X B, B \X B \X B)
    <3>1. m \in [(B \X B) \X B -> B \X B \X B]
      OBVIOUS
    <3>2. ASSUME NEW t \in B \X B \X B
          PROVE  \E r \in (B \X B) \X B : m[r] = t
      <4> DEFINE r == <<<<t[1], t[2]>>, t[3]>>
      <4>1. r \in (B \X B) \X B /\ <<r[1][1], r[1][2], r[2]>> = t
        OBVIOUS
      <4> HIDE DEF r
      <4>2. m[r] = t
        BY <4>1, Zenon
      <4> QED BY <4>1, <4>2, Zenon
    <3> HIDE DEF m
    <3> QED BY <3>1, <3>2, Zenon DEF Surjection
  <2> HIDE DEF m
  <2>3. IsFiniteSet(B \X B \X B)
    BY <2>1, <2>2, FS_Surjection, Zenon
  <2> QED BY <2>3, Zenon DEF Triples, B
<1>3. ASSUME NEW t \in Triples(n) PROVE Factor(n, t) \in Nat
  <2>1. t[1] \in Below(n) /\ t[2] \in Below(n) /\ t[3] \in Below(n)
    BY TripleFacts, Zenon
  <2> DEFINE a == CellA[t[1] * n + t[3]]
             b == CellB[t[3] * n + t[2]]
  <2>2. t[1] * n + t[3] \in 0 .. n * n - 1 /\ t[3] * n + t[2] \in 0 .. n * n - 1
    BY <2>1, CellPlace, Zenon
  <2>3. a \in Nat /\ b \in Nat
    BY <2>2, Zenon DEF CellsOK
  <2> HIDE DEF a, b
  <2>4. a * b \in Nat
    BY <2>3
  <2> QED BY <2>4, Zenon DEF Factor, a, b
<1> QED BY <1>1, <1>2, <1>3, Zenon DEF B

\* A sum depends on the numbers alone.
LEMMA SumSame ==
  ASSUME NEW f, NEW g, NEW S, IsFiniteSet(S), \A x \in S : f[x] \in Nat,
         \A x \in S : g[x] = f[x]
  PROVE  SumFunctionOnSet(g, S) = SumFunctionOnSet(f, S)
<1> DEFINE b == [x \in S |-> x]
<1>1. Renames(b, f, S, g, S)
  BY Zenon DEF Renames
<1> HIDE DEF b
<1> QED BY <1>1, SumRename

\* The fingerprint at a cursor, as a part of the sum of all products.
LEMMA ProductIs ==
  ASSUME NEW n \in Nat, CellsOK(n), NEW c
  PROVE  /\ Product(n, c) = Wrap(SumFunctionOnSet(Factors(n), Before(n, c)))
         /\ SumFunctionOnSet(Factors(n), Before(n, c)) \in Nat
         /\ IsFiniteSet(Before(n, c))
<1> DEFINE S == Before(n, c)
           f == Factors(n)
           g == [t \in S |-> Factor(n, t)]
<1>1. S \subseteq Triples(n)
  BY Zenon DEF Before
<1>2. IsFiniteSet(S)
  BY <1>1, FactorFacts, FS_Subset, Zenon
<1>3. \A t \in S : f[t] \in Nat /\ g[t] = f[t]
  BY <1>1, FactorFacts, Zenon DEF Factors
<1>4. Product(n, c) = Wrap(SumFunctionOnSet(g, S))
  <2>1. Product(n, c) = Wrap(SumFunction(g))
    BY DEF Product, Before, Triples, Below, Factor
  <2>2. DOMAIN g = S
    BY Zenon
  <2> HIDE DEF g, S
  <2> QED BY <2>1, <2>2, Zenon DEF SumFunction
<1> HIDE DEF S, f, g
<1>5. SumFunctionOnSet(g, S) = SumFunctionOnSet(f, S)
  BY <1>2, <1>3, SumSame, Zenon
<1>6. SumFunctionOnSet(f, S) \in Nat
  BY <1>2, <1>3, SumIsHeap, Zenon
<1> QED BY <1>2, <1>4, <1>5, <1>6, Zenon DEF S, f

\* What the body of the loop makes of a state.
LEMMA MatMulBodyIs ==
  ASSUME NEW n, NEW c, NEW p
  PROVE  LET i == c \div n
             j == c % n
             terms == [k \in Below(n) |-> CellA[i * n + k] * CellB[k * n + j]] IN
         MatMulBody([n |-> n, next |-> c, sum |-> p])
           = [n |-> n, next |-> Wrap(c + 1),
              sum |-> Wrap(p + SumFunction(terms))]
<1> DEFINE s == [n |-> n, next |-> c, sum |-> p]
           i == c \div n
           j == c % n
           terms == [k \in Below(n) |-> CellA[i * n + k] * CellB[k * n + j]]
           m == Wrap(c + 1)
           q == Wrap(p + SumFunction(terms))
<1>1. s.next = c /\ s.n = n /\ s.sum = p
  OBVIOUS
<1> DEFINE s1 == [s EXCEPT !.next = m]
           s2 == [s1 EXCEPT !.sum = q]
<1> HIDE DEF m, q
<1>2. s1 = [n |-> n, next |-> m, sum |-> p]
  OBVIOUS
<1>3. s1.sum = p
  BY <1>2
<1> HIDE DEF s1, s
<1>4. s2 = [n |-> n, next |-> m, sum |-> q]
  BY <1>2
<1>5. MatMulBody(s) = s2
  BY <1>1, <1>3 DEF MatMulBody, s1, m, q, Below
<1> QED BY <1>4, <1>5, Zenon DEF s, m, q

\* One turn adds one cell of the product: whichever turn a worker starts
\* with, the fingerprint of the first c cells becomes that of c + 1.
LEMMA MatMulNext ==
  ASSUME NEW n \in Nat, n * n < Root * Root, CellsOK(n), NEW c \in 0 .. n * n - 1
  PROVE  MatMulBody(Reference("matmul", n, c)) = Reference("matmul", n, c + 1)
<1> DEFINE i == c \div n
           j == c % n
           terms == [k \in Below(n) |-> CellA[i * n + k] * CellB[k * n + j]]
           row == [k \in Below(n) |-> <<i, j, k>>]
           R == {<<i, j, k>> : k \in Below(n)}
           B == Before(n, c)
           f == Factors(n)
<1>1. /\ n > 0 /\ i \in Below(n) /\ j \in Below(n) /\ i * n + j = c
      /\ \A a, b \in Below(n) : a * n + b = c => a = i /\ b = j
  BY CellAt, Zenon
<1> HIDE DEF i, j
<1>2. \A t \in Triples(n) : t[1] * n + t[2] \in Int
  <2> SUFFICES ASSUME NEW t \in Triples(n) PROVE t[1] * n + t[2] \in Int
    OBVIOUS
  <2>1. t[1] \in Below(n) /\ t[2] \in Below(n)
    BY TripleFacts, Zenon
  <2>2. t[1] * n + t[2] \in 0 .. n * n - 1
    BY <2>1, CellPlace, Zenon
  <2> QED BY <2>2
<1>3. R \subseteq Triples(n)
  BY <1>1 DEF Triples
<1>4. \A k \in Below(n) : LET t == <<i, j, k>> IN t[1] = i /\ t[2] = j /\ t[3] = k
  OBVIOUS
<1>5. c \in Int
  OBVIOUS
<1>6. ASSUME NEW t \in R PROVE t[1] * n + t[2] = c
  <2>1. PICK k \in Below(n) : t = <<i, j, k>>
    BY <1>6, Zenon
  <2>2. t[1] = i /\ t[2] = j
    BY <2>1
  <2> QED BY <1>1, <2>2, Zenon
<1>7. ASSUME NEW t \in Triples(n), t[1] * n + t[2] = c PROVE t \in R
  <2>1. /\ t = <<t[1], t[2], t[3]>>
        /\ t[1] \in Below(n) /\ t[2] \in Below(n) /\ t[3] \in Below(n)
    BY TripleFacts, Zenon
  <2>2. t[1] = i /\ t[2] = j
    BY <1>1, <1>7, <2>1, Zenon
  <2>3. t = <<i, j, t[3]>>
    BY <2>1, <2>2, Zenon
  <2> QED BY <2>1, <2>3, Zenon
<1> HIDE DEF R
<1>8. \A t \in Triples(n) : t[1] * n + t[2] < c + 1
                              <=> t[1] * n + t[2] < c \/ t[1] * n + t[2] = c
  BY <1>2, <1>5
<1>9. Before(n, c + 1) = B \cup R
  <2>1. ASSUME NEW t \in Before(n, c + 1) PROVE t \in B \cup R
    BY <1>7, <1>8, <2>1, Zenon DEF Before
  <2>2. ASSUME NEW t \in B PROVE t \in Before(n, c + 1)
    BY <1>8, <2>2, Zenon DEF Before
  <2>3. ASSUME NEW t \in R PROVE t \in Before(n, c + 1)
    <3>1. t \in Triples(n) /\ t[1] * n + t[2] = c
      BY <1>3, <1>6, <2>3, Zenon
    <3>2. t[1] * n + t[2] < c + 1
      BY <1>5, <3>1
    <3> QED BY <3>1, <3>2, Zenon DEF Before
  <2> QED BY <2>1, <2>2, <2>3, Zenon
<1>10. B \cap R = {}
  <2>1. ~(c < c)
    BY <1>5
  <2> QED BY <1>6, <2>1, Zenon DEF Before
<1>11. \A t \in B \cup R : f[t] \in Nat
  BY <1>3, FactorFacts, Zenon DEF Before, Factors
<1>12. IsFiniteSet(B) /\ IsFiniteSet(R)
  BY <1>3, FactorFacts, FS_Subset, ProductIs, Zenon
<1>13. Renames(row, terms, Below(n), f, R)
  <2>1. ASSUME NEW k \in Below(n) PROVE row[k] \in R /\ f[row[k]] = terms[k]
    <3> DEFINE t == <<i, j, k>>
    <3>1. t[1] = i /\ t[2] = j /\ t[3] = k /\ row[k] = t
      BY <1>4, Zenon
    <3>2. t \in R
      BY Zenon DEF R
    <3>3. t \in Triples(n)
      BY <1>3, <3>2, Zenon
    <3> HIDE DEF t, row
    <3>4. f[t] = Factor(n, t)
      BY <3>3, Zenon DEF Factors
    <3>5. Factor(n, t) = CellA[i * n + k] * CellB[k * n + j]
      BY <3>1, Zenon DEF Factor
    <3> QED BY <3>1, <3>2, <3>4, <3>5, Zenon
  <2>2. ASSUME NEW k \in Below(n), NEW l \in Below(n), row[k] = row[l] PROVE k = l
    <3>1. <<i, j, k>> = <<i, j, l>>
      BY <2>2, Zenon
    <3> QED BY <3>1
  <2>3. ASSUME NEW t \in R PROVE \E k \in Below(n) : row[k] = t
    BY <2>3, Zenon DEF R
  <2> HIDE DEF row, terms, f
  <2> QED BY <2>1, <2>2, <2>3, Zenon DEF Renames
<1>14. \A k \in Below(n) : terms[k] \in Nat
  <2> HIDE DEF terms, row
  <2> QED BY <1>11, <1>13, Zenon DEF Renames
<1>15. IsFiniteSet(Below(n))
  BY FactorFacts, Zenon
<1>16. SumFunction(terms) = SumFunctionOnSet(terms, Below(n))
  <2>1. DOMAIN terms = Below(n)
    BY Zenon
  <2> HIDE DEF terms
  <2> QED BY <2>1, Zenon DEF SumFunction
<1> DEFINE a == SumFunctionOnSet(f, B)
           b == SumFunctionOnSet(f, R)
<1> HIDE DEF terms, row, f
<1>17. SumFunction(terms) = b
  <2>1. SumFunctionOnSet(f, R) = SumFunctionOnSet(terms, Below(n))
    BY <1>12, <1>13, <1>14, <1>15, SumRename
  <2> QED BY <1>16, <2>1, Zenon
<1>18. SumFunctionOnSet(f, Before(n, c + 1)) = a + b
  <2> HIDE DEF B
  <2>1. SumFunctionOnSet(f, B \cup R) = SumFunctionOnSet(f, B) + SumFunctionOnSet(f, R)
    BY <1>10, <1>11, <1>12, SumUnion, Zenon
  <2> QED BY <1>9, <2>1, Zenon
<1>19. a \in Nat /\ b \in Nat
  BY <1>11, <1>12, SumIsHeap, Zenon
<1>20. Product(n, c) = Wrap(a) /\ Product(n, c + 1) = Wrap(a + b)
  BY <1>18, ProductIs, Zenon DEF f
<1>21. Wrap(Product(n, c) + b) = Product(n, c + 1)
  <2> HIDE DEF a, b
  <2>1. Wrap(Wrap(a) + b) = Wrap(a + b)
    BY <1>19, WrapSum, Zenon
  <2> QED BY <1>20, <2>1, Zenon
<1>22. Wrap(c + 1) = c + 1
  <2> DEFINE m == n * n
  <2>1. m \in Nat /\ c \in 0 .. m - 1 /\ m < Root * Root
    OBVIOUS
  <2> HIDE DEF m
  <2>2. c + 1 \in Nat /\ c + 1 < Root * Root
    BY <2>1, WrapFacts
  <2> QED BY <2>2, WrapFacts, Zenon
<1>23. \A k : Reference("matmul", n, k) = [n |-> n, next |-> k, sum |-> Product(n, k)]
  BY DEF Reference
<1>24. MatMulBody([n |-> n, next |-> c, sum |-> Product(n, c)])
         = [n |-> n, next |-> Wrap(c + 1), sum |-> Wrap(Product(n, c) + SumFunction(terms))]
  <2> DEFINE p == Product(n, c)
  <2> HIDE DEF p
  <2>1. MatMulBody([n |-> n, next |-> c, sum |-> p])
         = [n |-> n, next |-> Wrap(c + 1), sum |-> Wrap(p + SumFunction(terms))]
    BY MatMulBodyIs, Zenon DEF terms, i, j
  <2> QED BY <2>1, Zenon DEF p
<1> QED BY <1>17, <1>21, <1>22, <1>23, <1>24, Zenon

-----------------------------------------------------------------------------
(* The three computations alike.                                           *)

\* The numbers of a job fit (LimitAssumption and InputAssumption of
\* WorkerRun).
Fits(kind, limit) ==
  /\ limit \in Nat
  /\ kind = "primes" => limit < (Root - 1) * (Root - 1)
  /\ kind = "matmul" => limit * limit < Root * Root /\ CellsOK(limit)
  /\ kind = "wordcount" => /\ limit < Root * Root
                           /\ \A i \in 0 .. limit - 1 : WordAt[i] \in 0 .. DictSize - 1

\* The states on the way, by their parts.
LEMMA ReferenceIs ==
  ASSUME NEW limit, NEW n
  PROVE  /\ Reference("matmul", limit, n)
              = [n |-> limit, next |-> n, sum |-> Product(limit, n)]
         /\ Reference("wordcount", limit, n)
              = [total |-> limit, next |-> n, counts |-> Histogram(n)]
         /\ n \in Nat \ {0} => Reference("primes", limit, n)
              = SieveState(limit, n, Cardinality(Primes(n - 1)), Ring(Sorted(Primes(n - 1))))
<1>1. Reference("matmul", limit, n)
        = [n |-> limit, next |-> n, sum |-> Product(limit, n)]
  BY DEF Reference
<1>2. Reference("wordcount", limit, n)
        = [total |-> limit, next |-> n, counts |-> Histogram(n)]
  BY DEF Reference
<1> QED BY <1>1, <1>2, SieveIs, Zenon

\* s is such a state.
SieveHas(s, l, n, f, r) ==
  /\ s.limit = l /\ s.next = n /\ s.found = f /\ s.seeded = TRUE /\ s.recent = r
  /\ Entered("primes", s) = s

\* The fields of a state of the sieve.
LEMMA SieveFields ==
  ASSUME NEW l, NEW n, NEW f, NEW r
  PROVE  SieveHas(SieveState(l, n, f, r), l, n, f, r)
<1> DEFINE t == TRUE
           s == SieveState(l, n, f, r)
<1>1. s = [limit |-> l, next |-> n, found |-> f, seeded |-> t, recent |-> r]
  BY Zenon DEF SieveState
<1> HIDE DEF t, s
<1>2. /\ s.limit = l /\ s.next = n /\ s.found = f /\ s.seeded = t /\ s.recent = r
      /\ [s EXCEPT !.seeded = t] = s
  BY <1>1
<1>3. Entered("primes", s) = [s EXCEPT !.seeded = t]
  BY Zenon DEF Entered, t
<1> QED BY <1>2, <1>3, Zenon DEF t, s, SieveHas

\* A state knows its cursor and its --limit, and entering the loop again
\* leaves it as it is.
LEMMA ReferenceFields ==
  ASSUME NEW kind \in Kinds, NEW limit \in Nat, NEW n \in Cursors(kind, limit)
  PROVE  LET s == Reference(kind, limit, n) IN
         s.next = n /\ LimitOf(kind, s) = limit /\ Entered(kind, s) = s
<1> DEFINE s == Reference(kind, limit, n)
<1>1. CASE kind = "primes"
  <2>1. n \in Nat \ {0}
    BY <1>1, SieveCursor
  <2> DEFINE c == Cardinality(Primes(n - 1))
             r == Ring(Sorted(Primes(n - 1)))
  <2>2. s = SieveState(limit, n, c, r)
    BY <1>1, <2>1, ReferenceIs, Zenon
  <2> HIDE DEF c, r, s
  <2>3. s.limit = limit /\ s.next = n /\ Entered("primes", s) = s
    <3>1. SieveHas(s, limit, n, c, r)
      BY <2>2, SieveFields, Zenon
    <3> QED BY <3>1, Zenon DEF SieveHas
  <2>4. LimitOf(kind, s) = s.limit
    BY <1>1 DEF LimitOf
  <2> QED BY <1>1, <2>3, <2>4, Zenon DEF s
<1>2. CASE kind = "matmul"
  <2> DEFINE p == Product(limit, n)
  <2>1. s = [n |-> limit, next |-> n, sum |-> p]
    BY <1>2, ReferenceIs, Zenon
  <2> HIDE DEF p, s
  <2>2. s.next = n /\ LimitOf(kind, s) = limit /\ Entered(kind, s) = s
    BY <1>2, <2>1 DEF LimitOf, Entered
  <2> QED BY <2>2, Zenon DEF s
<1>3. CASE kind = "wordcount"
  <2> DEFINE p == Histogram(n)
  <2>1. s = [total |-> limit, next |-> n, counts |-> p]
    BY <1>3, ReferenceIs, Zenon
  <2> HIDE DEF p, s
  <2>2. s.next = n /\ LimitOf(kind, s) = limit /\ Entered(kind, s) = s
    BY <1>3, <2>1 DEF LimitOf, Entered
  <2> QED BY <2>2, Zenon DEF s
<1> QED BY <1>1, <1>2, <1>3 DEF Kinds

\* Does the loop go on at a cursor?
LEMMA MoreAt ==
  ASSUME NEW kind \in Kinds, NEW limit, Fits(kind, limit), NEW n \in Cursors(kind, limit)
  PROVE  LET more == More(kind, Reference(kind, limit, n)) IN
         /\ kind = "primes" => (more <=> n <= limit)
         /\ kind = "matmul" => (more <=> n < limit * limit)
         /\ kind = "wordcount" => (more <=> n < limit)
<1> DEFINE s == Reference(kind, limit, n)
<1>0. limit \in Nat
  BY Zenon DEF Fits
<1>1. s.next = n /\ LimitOf(kind, s) = limit
  BY <1>0, ReferenceFields, Zenon
<1> HIDE DEF s
<1>2. CASE kind = "primes"
  BY <1>1, <1>2 DEF LimitOf, More, s
<1>3. CASE kind = "matmul"
  <2>1. limit * limit \in Nat /\ limit * limit < Root * Root
    BY <1>0, <1>3 DEF Fits
  <2>2. Wrap(limit * limit) = limit * limit
    BY <2>1, WrapFacts, Zenon
  <2>3. More(kind, s) <=> n < limit * limit
    BY <1>1, <1>3, <2>2 DEF LimitOf, More
  <2> QED BY <1>3, <2>3 DEF s
<1>4. CASE kind = "wordcount"
  BY <1>1, <1>4 DEF LimitOf, More, s
<1> QED BY <1>2, <1>3, <1>4 DEF Kinds

\* A turn of the loop of run_sieve, matmul::run or wordcount::run takes the
\* reference state of a cursor to that of another cursor.
THEOREM BodyNext ==
  ASSUME NEW kind \in Kinds, NEW limit, Fits(kind, limit), NEW n \in Cursors(kind, limit),
         More(kind, Reference(kind, limit, n))
  PROVE  \E m \in Cursors(kind, limit) :
           Body(kind, Reference(kind, limit, n)) = Reference(kind, limit, m)
<1> DEFINE s == Reference(kind, limit, n)
<1>0. limit \in Nat
  BY Zenon DEF Fits
<1>1. CASE kind = "primes"
  <2>1. n <= limit /\ limit < (Root - 1) * (Root - 1)
    BY <1>1, MoreAt DEF Fits
  <2>2. SieveAfter(n) \in Cursors(kind, limit)
    BY <1>0, <1>1, <2>1, SieveCursor, Zenon
  <2>3. SieveBody(s) = Reference(kind, limit, SieveAfter(n))
    BY <1>0, <1>1, <2>1, SieveNext, Zenon
  <2>4. Body(kind, s) = SieveBody(s)
    BY <1>1 DEF Body
  <2> QED BY <2>2, <2>3, <2>4, Zenon
<1>2. CASE kind = "matmul"
  <2>1. n < limit * limit /\ limit * limit < Root * Root /\ CellsOK(limit)
    BY <1>2, MoreAt DEF Fits
  <2>2. limit * limit \in Nat
    BY <1>0
  <2>3. n \in 0 .. limit * limit - 1 /\ n + 1 \in 0 .. limit * limit
    <3> DEFINE m == limit * limit
    <3>1. m \in Nat /\ n < m /\ n \in 0 .. m
      BY <1>2, <2>1, <2>2 DEF Cursors
    <3> HIDE DEF m
    <3>2. n \in 0 .. m - 1 /\ n + 1 \in 0 .. m
      BY <3>1
    <3> QED BY <3>2, Zenon DEF m
  <2>4. n + 1 \in Cursors(kind, limit)
    BY <1>2, <2>3 DEF Cursors
  <2>5. MatMulBody(s) = Reference(kind, limit, n + 1)
    BY <1>0, <1>2, <2>1, <2>3, MatMulNext, Zenon
  <2>6. Body(kind, s) = MatMulBody(s)
    BY <1>2 DEF Body
  <2> QED BY <2>4, <2>5, <2>6, Zenon
<1>3. CASE kind = "wordcount"
  <2>1. n < limit /\ limit < Root * Root
    BY <1>3, MoreAt DEF Fits
  <2>2. n \in 0 .. limit - 1 /\ n + 1 \in Cursors(kind, limit)
    BY <1>0, <1>3, <2>1 DEF Cursors
  <2>3. WordCountBody(s) = Reference(kind, limit, n + 1)
    BY <1>0, <1>3, <2>1, <2>2, WordCountNext, Zenon
  <2>4. Body(kind, s) = WordCountBody(s)
    BY <1>3 DEF Body
  <2> QED BY <2>2, <2>3, <2>4, Zenon
<1> QED BY <1>1, <1>2, <1>3 DEF Kinds

\* Where a computation starts.
First(kind) == IF kind = "primes" THEN 2 ELSE 0

\* A worker that starts afresh (main.cpp:152) enters its loop at the first cursor.
THEOREM StartIs ==
  ASSUME NEW kind \in Kinds, NEW limit, Fits(kind, limit)
  PROVE  /\ First(kind) \in Cursors(kind, limit)
         /\ Entered(kind, Fresh(kind, limit)) = Reference(kind, limit, First(kind))
<1>0. limit \in Nat
  BY Zenon DEF Fits
<1>1. CASE kind = "primes"
  <2>1. First(kind) = 2 /\ 2 \in Cursors(kind, limit)
    BY <1>1 DEF First, Cursors
  <2>2. Primes(1) = {}
    BY DEF Primes
  <2>3. Cardinality({}) = 0
    BY FS_EmptySet, Zenon
  <2>4. Sorted({}) = <<>>
    BY <2>3 DEF Sorted
  <2>5. Ring(<<>>) = <<>>
    BY RecentCapAssumption DEF Ring
  <2>6. Reference("primes", limit, 2) = SieveState(limit, 2, 0, <<>>)
    <3>1. Reference("primes", limit, 2)
            = SieveState(limit, 2, Cardinality(Primes(2 - 1)), Ring(Sorted(Primes(2 - 1))))
      BY ReferenceIs
    <3>2. 2 - 1 = 1
      OBVIOUS
    <3> QED BY <2>2, <2>3, <2>4, <2>5, <3>1, <3>2, Zenon
  <2> DEFINE t == TRUE
             u == FALSE
             e == <<>>
             s == [limit |-> limit, next |-> 2, found |-> 0, seeded |-> u, recent |-> e]
  <2>7. Fresh("primes", limit) = s
    <3>1. Fresh("primes", limit) = SieveStart(limit)
      BY DEF Fresh
    <3> QED BY <3>1, Zenon DEF SieveStart
  <2>8. SieveState(limit, 2, 0, <<>>)
          = [limit |-> limit, next |-> 2, found |-> 0, seeded |-> t, recent |-> e]
    BY Zenon DEF SieveState
  <2>9. Entered("primes", s) = [s EXCEPT !.seeded = t]
    <3> HIDE DEF s
    <3> QED BY Zenon DEF Entered
  <2> HIDE DEF t, u, e
  <2>10. [s EXCEPT !.seeded = t]
           = [limit |-> limit, next |-> 2, found |-> 0, seeded |-> t, recent |-> e]
    OBVIOUS
  <2> QED BY <1>1, <2>1, <2>6, <2>7, <2>8, <2>9, <2>10, Zenon
<1>2. CASE kind = "matmul"
  <2>1. limit * limit \in Nat /\ CellsOK(limit)
    BY <1>0, <1>2 DEF Fits
  <2>2. First(kind) = 0 /\ 0 \in Cursors(kind, limit)
    BY <1>2, <2>1 DEF First, Cursors
  <2>3. Before(limit, 0) = {}
    <3> SUFFICES ASSUME NEW t \in Triples(limit) PROVE ~(t[1] * limit + t[2] < 0)
      BY Zenon DEF Before
    <3>1. t[1] \in Below(limit) /\ t[2] \in Below(limit)
      BY TripleFacts, Zenon
    <3>2. t[1] * limit + t[2] \in 0 .. limit * limit - 1
      BY <1>0, <3>1, CellPlace, Zenon
    <3> QED BY <3>2
  <2>4. SumFunctionOnSet(Factors(limit), {}) = 0
    <3>1. Heap(Factors(limit), {}) = {}
      BY Zenon DEF Heap
    <3>2. Cardinality({}) = 0 /\ IsFiniteSet({})
      BY FS_EmptySet, Zenon
    <3>3. SumFunctionOnSet(Factors(limit), {}) = Cardinality(Heap(Factors(limit), {}))
      <4> DEFINE f == Factors(limit)
                 S == {}
      <4>1. IsFiniteSet(S) /\ \A x \in S : f[x] \in Nat
        BY <3>2, Zenon
      <4> HIDE DEF f, S
      <4>2. SumFunctionOnSet(f, S) = Cardinality(Heap(f, S))
        BY <4>1, SumIsHeap, Zenon
      <4> QED BY <4>2, Zenon DEF f, S
    <3> QED BY <3>1, <3>2, <3>3, Zenon
  <2>5. Product(limit, 0) = 0
    <3>1. Product(limit, 0) = Wrap(SumFunctionOnSet(Factors(limit), Before(limit, 0)))
      BY <1>0, <2>1, ProductIs, Zenon
    <3>2. Wrap(0) = 0
      BY WrapFacts
    <3> QED BY <2>3, <2>4, <3>1, <3>2, Zenon
  <2>6. Fresh(kind, limit) = [n |-> limit, next |-> 0, sum |-> 0]
    BY <1>2 DEF Fresh, MatMulStart
  <2>7. Reference(kind, limit, 0) = [n |-> limit, next |-> 0, sum |-> 0]
    BY <1>2, <2>5, ReferenceIs, Zenon
  <2>8. Entered(kind, Fresh(kind, limit)) = Fresh(kind, limit)
    BY <1>2 DEF Entered
  <2> QED BY <2>2, <2>6, <2>7, <2>8, Zenon
<1>3. CASE kind = "wordcount"
  <2>1. First(kind) = 0 /\ 0 \in Cursors(kind, limit)
    BY <1>0, <1>3 DEF First, Cursors
  <2>2. Histogram(0) = <<>>
    BY DEF Histogram
  <2>3. Fresh(kind, limit) = [total |-> limit, next |-> 0, counts |-> <<>>]
    BY <1>3 DEF Fresh, WordCountStart
  <2>4. Reference(kind, limit, 0) = [total |-> limit, next |-> 0, counts |-> <<>>]
    BY <1>3, <2>2, ReferenceIs, Zenon
  <2>5. Entered(kind, Fresh(kind, limit)) = Fresh(kind, limit)
    BY <1>3 DEF Entered
  <2> QED BY <2>1, <2>3, <2>4, <2>5, Zenon
<1> QED BY <1>1, <1>2, <1>3 DEF Kinds

\* The loop (compute.cpp:40, matmul.cpp:79) ends at the last cursor only.
THEOREM LastIs ==
  ASSUME NEW kind \in Kinds, NEW limit, Fits(kind, limit), NEW n \in Cursors(kind, limit),
         ~More(kind, Reference(kind, limit, n))
  PROVE  n = Max(Cursors(kind, limit))
<1>0. limit \in Nat
  BY Zenon DEF Fits
<1>1. ASSUME NEW m \in Cursors(kind, limit) PROVE m \in Int /\ n \in Int /\ n >= m
  <2>1. CASE kind = "primes"
    <3>1. ~(n <= limit)
      BY <2>1, MoreAt
    <3>2. /\ n = 2 \/ (n \in 3 .. limit + 2 /\ n % 2 = 1 /\ limit >= 2)
          /\ m = 2 \/ (m \in 3 .. limit + 2 /\ m % 2 = 1 /\ limit >= 2)
      BY <2>1 DEF Cursors
    <3> QED BY <1>0, <3>1, <3>2
  <2>2. CASE kind = "matmul"
    <3> DEFINE l == limit * limit
    <3>1. l \in Nat /\ ~(n < l)
      BY <1>0, <2>2, MoreAt
    <3>2. n \in 0 .. l /\ m \in 0 .. l
      BY <2>2 DEF Cursors
    <3> HIDE DEF l
    <3> QED BY <3>1, <3>2
  <2>3. CASE kind = "wordcount"
    <3>1. ~(n < limit)
      BY <2>3, MoreAt
    <3>2. n \in 0 .. limit /\ m \in 0 .. limit
      BY <2>3 DEF Cursors
    <3> QED BY <1>0, <3>1, <3>2
  <2> QED BY <2>1, <2>2, <2>3 DEF Kinds
<1> DEFINE S == Cursors(kind, limit)
<1> HIDE DEF S
<1>2. \A m \in S : m \in Int /\ n \in Int /\ n >= m
  BY <1>1, Zenon DEF S
<1>3. n \in S
  BY Zenon DEF S
<1>4. Max(S) = n
  <2>1. Max(S) = CHOOSE x \in S : \A y \in S : x >= y
    BY DEF Max
  <2> DEFINE x == CHOOSE x \in S : \A y \in S : x >= y
  <2>2. x \in S /\ \A y \in S : x >= y
    BY <1>2, <1>3, Zenon
  <2> HIDE DEF x
  <2>3. x \in Int /\ n \in Int /\ x >= n /\ n >= x
    BY <1>2, <1>3, <2>2, Zenon
  <2>4. x = n
    BY <2>3
  <2> QED BY <2>1, <2>4, Zenon DEF x
<1> QED BY <1>4, Zenon DEF S

-----------------------------------------------------------------------------
(* What write_state puts together, read_state takes apart.                 *)

\* The file with these values after magic and version.

Front(kind, rest) == Fields(<<Magic[kind], Version[kind]>> \o rest)
Frame(kind, rest) == Append(Front(kind, rest), Crc(Front(kind, rest)))

\* c is a file with this front, checksum and values.
FrameHas(c, body, kind, rest) ==
  /\ Len(c) = Len(rest) + 3 /\ Len(rest) \in Nat
  /\ c[Len(c)] = Crc(body) /\ SubSeq(c, 1, Len(c) - 1) = body
  /\ c = Append(body, Crc(body))
  /\ c[1] = Field(Magic[kind]) /\ c[2] = Field(Version[kind])
  /\ \A i \in 1 .. Len(rest) : Value(c, i + 2) = rest[i]

\* Where things are in a file.
LEMMA FrameFacts ==
  ASSUME NEW kind \in Kinds, NEW rest \in Seq(Int)
  PROVE  FrameHas(Frame(kind, rest), Front(kind, rest), kind, rest)
<1> DEFINE a == Magic[kind]
           b == Version[kind]
           v == <<a, b>> \o rest
           body == Fields(v)
           crc == Crc(body)
           c == Append(body, crc)
           n == Len(rest)
           S == {Field(i) : i \in Int} \cup {crc}
<1>1. a \in Int /\ b \in Int
  BY DEF Magic, Version, Kinds
<1> HIDE DEF a, b
<1>2. /\ v \in Seq(Int) /\ Len(v) = n + 2 /\ n \in Nat
      /\ v[1] = a /\ v[2] = b /\ \A i \in 1 .. n : v[i + 2] = rest[i]
  BY <1>1
<1> HIDE DEF v
<1>3. /\ body = [i \in 1 .. n + 2 |-> <<v[i]>>]
      /\ \A i \in 1 .. n + 2 : v[i] \in Int
  BY <1>2 DEF Fields, Field
<1> HIDE DEF crc
<1>4. body \in [1 .. n + 2 -> S]
  BY <1>3 DEF Field
<1> HIDE DEF body
<1>5. crc \in S
  OBVIOUS
<1> HIDE DEF S
<1>6. body \in Seq(S) /\ Len(body) = n + 2
  <2> DEFINE m == n + 2
  <2>1. m \in Nat
    BY <1>2
  <2> HIDE DEF m
  <2>2. body \in [1 .. m -> S]
    BY <1>4, Zenon DEF m
  <2>3. body \in Seq(S) /\ Len(body) = m
    BY <2>1, <2>2
  <2> QED BY <2>3, Zenon DEF m
<1>7. /\ Len(c) = n + 3 /\ c[n + 3] = crc /\ c \in Seq(S)
      /\ \A i \in 1 .. n + 2 : c[i] = body[i]
  BY <1>2, <1>5, <1>6
<1>8. SubSeq(c, 1, n + 2) = body
  <2> HIDE DEF c
  <2>1. SubSeq(c, 1, n + 2) = [i \in 1 .. n + 2 |-> c[i]]
    BY <1>2, <1>7
  <2>2. body = [i \in 1 .. n + 2 |-> body[i]]
    BY <1>4
  <2> QED BY <1>7, <2>1, <2>2
<1>9. n + 3 - 1 = n + 2 /\ 1 \in 1 .. n + 2 /\ 2 \in 1 .. n + 2
  BY <1>2
<1> HIDE DEF c
<1>10. c[1] = Field(a) /\ c[2] = Field(b)
  BY <1>2, <1>3, <1>7, <1>9, Zenon DEF Field
<1>11. ASSUME NEW i \in 1 .. n PROVE Value(c, i + 2) = rest[i]
  <2>1. i + 2 \in 1 .. n + 2
    BY <1>2
  <2>2. c[i + 2] = <<v[i + 2]>>
    BY <1>3, <1>7, <2>1, Zenon
  <2>3. c[i + 2][1] = v[i + 2]
    BY <2>2
  <2> QED BY <1>2, <2>3, Zenon DEF Value
<1>12. crc = Crc(body) /\ c = Append(body, crc)
  BY Zenon DEF crc, c
<1>13. FrameHas(c, body, kind, rest)
  <2>1. c[1] = Field(Magic[kind]) /\ c[2] = Field(Version[kind])
    BY <1>10, Zenon DEF a, b
  <2>2. SubSeq(c, 1, Len(c) - 1) = body
    <3>1. Len(c) - 1 = n + 2
      BY <1>2, <1>7
    <3> QED BY <1>8, <3>1, Zenon
  <2>3. Len(c) = Len(rest) + 3 /\ Len(rest) \in Nat /\ c[Len(c)] = Crc(body)
    BY <1>2, <1>7, <1>12, Zenon
  <2>4. c = Append(body, Crc(body))
    BY <1>12, Zenon
  <2> QED BY <1>11, <2>1, <2>2, <2>3, <2>4, Zenon DEF FrameHas
<1>14. body = Front(kind, rest)
  BY Zenon DEF body, v, a, b, Front
<1>15. Frame(kind, rest) = c
  BY <1>12, <1>14, Zenon DEF Frame
<1> QED BY <1>13, <1>14, <1>15, Zenon

\* Its header is accepted, as what it is and as nothing else.
LEMMA FrameHeader ==
  ASSUME NEW kind \in Kinds, NEW rest \in Seq(Int), Len(rest) + 3 >= MinLen[kind],
         NEW k \in Kinds
  PROVE  HeaderOK(k, Frame(kind, rest)) <=> k = kind
<1> DEFINE c == Frame(kind, rest)
           body == Front(kind, rest)
<1>1. /\ Len(c) = Len(rest) + 3 /\ c[Len(c)] = Crc(body)
      /\ SubSeq(c, 1, Len(c) - 1) = body
      /\ c[1] = Field(Magic[kind]) /\ c[2] = Field(Version[kind])
  <2>1. FrameHas(c, body, kind, rest)
    BY FrameFacts, Zenon
  <2> QED BY <2>1, Zenon DEF FrameHas
<1> HIDE DEF c, body
<1>2. Len(c) >= MinLen[kind]
  BY <1>1, Zenon
<1>3. HeaderOK(kind, c)
  BY <1>1, <1>2, Zenon DEF HeaderOK
<1>4. ASSUME HeaderOK(k, c) PROVE k = kind
  <2>1. Field(Magic[k]) = Field(Magic[kind])
    BY <1>1, <1>4, Zenon DEF HeaderOK
  <2>2. Magic[k] = Magic[kind]
    BY <2>1 DEF Field
  <2> QED BY <2>2 DEF Magic, Kinds
<1> QED BY <1>3, <1>4, Zenon DEF c

\* matmul: what is read is what was written.
LEMMA ReadMatMulIs ==
  ASSUME NEW a \in Int, NEW b \in Int, NEW p \in Int
  PROVE  ReadMatMul(Frame("matmul", <<a, b, p>>)) = [n |-> a, next |-> b, sum |-> p]
<1> DEFINE rest == <<a, b, p>>
           c == Frame("matmul", rest)
<1>1. /\ rest \in Seq(Int) /\ Len(rest) = 3
      /\ rest[1] = a /\ rest[2] = b /\ rest[3] = p
  OBVIOUS
<1> HIDE DEF rest
<1>2. \A i \in 1 .. 3 : Value(c, i + 2) = rest[i]
  <2>1. "matmul" \in Kinds
    BY DEF Kinds
  <2>2. FrameHas(c, Front("matmul", rest), "matmul", rest)
    BY <1>1, <2>1, FrameFacts, Zenon
  <2> QED BY <1>1, <2>2, Zenon DEF FrameHas
<1> HIDE DEF c
<1>3. Value(c, 3) = a /\ Value(c, 4) = b /\ Value(c, 5) = p
  BY <1>1, <1>2
<1> QED BY <1>3, Zenon DEF ReadMatMul, c, rest

\* One list of numbers after another.
LEMMA Joined ==
  ASSUME NEW p \in Seq(Int), NEW q \in Seq(Int)
  PROVE  /\ p \o q \in Seq(Int) /\ Len(p \o q) = Len(p) + Len(q)
         /\ \A i \in 1 .. Len(p) : (p \o q)[i] = p[i]
         /\ \A i \in 1 .. Len(q) : (p \o q)[i + Len(p)] = q[i]
<1>1. p \o q \in Seq(Int) /\ Len(p \o q) = Len(p) + Len(q)
  OBVIOUS
<1>2. \A i \in 1 .. Len(p) : (p \o q)[i] = p[i]
  OBVIOUS
<1>3. ASSUME NEW i \in 1 .. Len(q) PROVE (p \o q)[i + Len(p)] = q[i]
  <2>1. /\ i + Len(p) \in 1 .. Len(p) + Len(q) /\ ~(i + Len(p) <= Len(p))
        /\ i + Len(p) - Len(p) = i
    OBVIOUS
  <2> QED BY <2>1
<1> QED BY <1>1, <1>2, <1>3, Zenon

\* The sieve: what is read, by the worker or the controller, is what was
\* written.
LEMMA ReadSieveIs ==
  ASSUME NEW l \in Int, NEW n \in Int, NEW f \in Int, NEW r \in Seq(Int)
  PROVE  LET c == Frame("primes", <<l, n, f, 1, Len(r)>> \o r) IN
         /\ ReadSieve(c) = SieveState(l, n, f, r)
         /\ Value(c, 7) = Len(r) /\ 7 + Value(c, 7) = Len(c) - 1
<1> DEFINE k == Len(r)
           h == <<l, n, f, 1, k>>
           rest == h \o r
           c == Frame("primes", rest)
<1>1. k \in Nat
  OBVIOUS
<1> HIDE DEF k
<1>2. /\ h \in Seq(Int) /\ Len(h) = 5
      /\ h[1] = l /\ h[2] = n /\ h[3] = f /\ h[4] = 1 /\ h[5] = k
  BY <1>1
<1> HIDE DEF h
<1>3. /\ rest \in Seq(Int) /\ Len(rest) = k + 5
      /\ \A i \in 1 .. 5 : rest[i] = h[i]
      /\ \A i \in 1 .. k : rest[i + 5] = r[i]
  <2>1. /\ rest \in Seq(Int) /\ Len(rest) = Len(h) + Len(r)
        /\ \A i \in 1 .. Len(h) : rest[i] = h[i]
        /\ \A i \in 1 .. Len(r) : rest[i + Len(h)] = r[i]
    BY <1>2, Joined, Zenon
  <2> HIDE DEF rest
  <2>2. Len(h) + Len(r) = k + 5
    BY <1>1, <1>2 DEF k
  <2> QED BY <1>2, <2>1, <2>2, Zenon DEF k
<1> HIDE DEF rest
<1>4. /\ Len(c) = k + 8
      /\ \A i \in 1 .. k + 5 : Value(c, i + 2) = rest[i]
  <2>1. "primes" \in Kinds
    BY DEF Kinds
  <2>2. FrameHas(c, Front("primes", rest), "primes", rest)
    BY <1>3, <2>1, FrameFacts, Zenon
  <2>3. Len(c) = Len(rest) + 3
    BY <2>2, Zenon DEF FrameHas
  <2>4. Len(c) = k + 8
    BY <1>1, <1>3, <2>3
  <2>5. \A i \in 1 .. k + 5 : Value(c, i + 2) = rest[i]
    BY <1>3, <2>2, Zenon DEF FrameHas
  <2> QED BY <2>4, <2>5, Zenon
<1> HIDE DEF c
<1>5. ASSUME NEW i \in 1 .. 5 PROVE Value(c, i + 2) = h[i]
  <2>1. i \in 1 .. k + 5
    BY <1>1
  <2> QED BY <1>3, <1>4, <2>1, Zenon
<1>6. /\ Value(c, 3) = l /\ Value(c, 4) = n /\ Value(c, 5) = f /\ Value(c, 6) = 1
      /\ Value(c, 7) = k
  BY <1>2, <1>5
<1>7. Values(c, 8, 7 + k) = r
  <2>1. Values(c, 8, 7 + k) = [i \in 1 .. (7 + k) - 8 + 1 |-> Value(c, 8 + i - 1)]
    BY Zenon DEF Values
  <2>2. 1 .. (7 + k) - 8 + 1 = 1 .. k
    BY <1>1
  <2>3. ASSUME NEW i \in 1 .. k PROVE Value(c, 8 + i - 1) = r[i]
    <3>1. i + 5 \in 1 .. k + 5 /\ 8 + i - 1 = (i + 5) + 2
      BY <1>1
    <3> QED BY <1>3, <1>4, <3>1, Zenon
  <2>4. r = [i \in 1 .. k |-> r[i]]
    BY DEF k
  <2> QED BY <2>1, <2>2, <2>3, <2>4, Zenon
<1>8. ReadSieve(c) = SieveState(l, n, f, r)
  <2>1. 1 # 0
    OBVIOUS
  <2>2. (Value(c, 6) # 0) = TRUE
    BY <1>6, <2>1, Zenon
  <2> QED BY <1>6, <1>7, <2>2, Zenon DEF ReadSieve, SieveState
<1>9. 7 + Value(c, 7) = Len(c) - 1
  BY <1>1, <1>4, <1>6
<1> QED BY <1>6, <1>8, <1>9, Zenon DEF c, rest, h, k

\* The pairs of a map, word after word.
Pairs(words, counts) ==
  [n \in 1 .. 2 * Len(words) |-> IF n % 2 = 1 THEN words[(n + 1) \div 2]
                                 ELSE counts[words[n \div 2]]]

\* wordcount: what is read is what was written.
LEMMA ReadWordCountIs ==
  ASSUME NEW t \in Int, NEW n \in Int, NEW D \in SUBSET Int, IsFiniteSet(D),
         NEW f \in [D -> Int]
  PROVE  LET w == Sorted(D)
             c == Frame("wordcount", <<t, n, Len(w)>> \o Pairs(w, f)) IN
         /\ ReadWordCount(c) = [total |-> t, next |-> n, counts |-> f]
         /\ <<t, n, Len(w)>> \o Pairs(w, f) \in Seq(Int)
         /\ Value(c, 5) = Cardinality(D) /\ Len(c) - 1 - 5 = 2 * Value(c, 5)
<1> DEFINE w == Sorted(D)
           k == Len(w)
           p == Pairs(w, f)
           h == <<t, n, k>>
           rest == h \o p
           c == Frame("wordcount", rest)
           q == 2 * k
<1>1. /\ k \in Nat /\ k = Cardinality(D) /\ \A i \in 1 .. k : w[i] \in D
      /\ \A x \in D : \E i \in 1 .. k : w[i] = x
  <2>1. /\ Cardinality(D) \in Nat /\ k = Cardinality(D) /\ w \in Seq(D)
        /\ \A i \in 1 .. Cardinality(D) : w[i] \in D /\ Rank(D, w[i]) = i
        /\ \A x \in D : w[Rank(D, x)] = x
    BY SortedFacts
  <2>2. ASSUME NEW x \in D PROVE \E i \in 1 .. k : w[i] = x
    <3>1. Rank(D, x) \in 1 .. k
      BY <2>1, RankFacts
    <3> QED BY <2>1, <3>1, Zenon
  <2> QED BY <2>1, <2>2, Zenon
<1> HIDE DEF w, k
<1>2. q \in Nat /\ q = 2 * k
  BY <1>1
<1> HIDE DEF q
<1>3. p = [i \in 1 .. q |-> IF i % 2 = 1 THEN w[(i + 1) \div 2] ELSE f[w[i \div 2]]]
  BY Zenon DEF Pairs, q, k
<1> HIDE DEF p
<1>4. ASSUME NEW i \in 1 .. q PROVE p[i] \in Int
  <2>1. CASE i % 2 = 1
    <3>1. (i + 1) \div 2 \in 1 .. k
      BY <1>1, <1>2, <2>1
    <3>2. w[(i + 1) \div 2] \in Int
      BY <1>1, <3>1, Zenon
    <3> QED BY <1>3, <2>1, <3>2
  <2>2. CASE i % 2 # 1
    <3>1. i \div 2 \in 1 .. k
      BY <1>1, <1>2, <2>2
    <3>2. f[w[i \div 2]] \in Int
      BY <1>1, <3>1, Zenon
    <3> QED BY <1>3, <2>2, <3>2
  <2> QED BY <2>1, <2>2
<1>5. p \in Seq(Int) /\ Len(p) = q
  <2>1. p \in [1 .. q -> Int]
    BY <1>3, <1>4
  <2> QED BY <1>2, <2>1
<1>6. /\ h \in Seq(Int) /\ Len(h) = 3 /\ h[1] = t /\ h[2] = n /\ h[3] = k
  BY <1>1
<1> HIDE DEF h
<1>7. /\ rest \in Seq(Int) /\ Len(rest) = q + 3
      /\ \A i \in 1 .. 3 : rest[i] = h[i]
      /\ \A i \in 1 .. q : rest[i + 3] = p[i]
  <2>1. /\ rest \in Seq(Int) /\ Len(rest) = Len(h) + Len(p)
        /\ \A i \in 1 .. Len(h) : rest[i] = h[i]
        /\ \A i \in 1 .. Len(p) : rest[i + Len(h)] = p[i]
    BY <1>5, <1>6, Joined, Zenon
  <2> HIDE DEF rest
  <2>2. Len(h) + Len(p) = q + 3
    BY <1>2, <1>5, <1>6
  <2> QED BY <1>5, <1>6, <2>1, <2>2, Zenon
<1> HIDE DEF rest
<1>8. Len(c) = q + 6 /\ \A i \in 1 .. q + 3 : Value(c, i + 2) = rest[i]
  <2>1. "wordcount" \in Kinds
    BY DEF Kinds
  <2>2. FrameHas(c, Front("wordcount", rest), "wordcount", rest)
    BY <1>7, <2>1, FrameFacts, Zenon
  <2>3. Len(c) = Len(rest) + 3
    BY <2>2, Zenon DEF FrameHas
  <2>4. Len(c) = q + 6
    BY <1>2, <1>7, <2>3
  <2>5. \A i \in 1 .. q + 3 : Value(c, i + 2) = rest[i]
    BY <1>7, <2>2, Zenon DEF FrameHas
  <2> QED BY <2>4, <2>5, Zenon
<1> HIDE DEF c
<1>9. Value(c, 3) = t /\ Value(c, 4) = n /\ Value(c, 5) = k
  <2>1. ASSUME NEW i \in 1 .. 3 PROVE Value(c, i + 2) = h[i]
    <3>1. i \in 1 .. q + 3
      BY <1>2
    <3> QED BY <1>7, <1>8, <3>1, Zenon
  <2> QED BY <1>6, <2>1
<1>10. ASSUME NEW i \in 1 .. k
       PROVE  Value(c, 4 + 2 * i) = w[i] /\ Value(c, 1 + (4 + 2 * i)) = f[w[i]]
  <2>1. /\ 2 * i - 1 \in 1 .. q /\ (2 * i - 1) % 2 = 1 /\ (2 * i - 1 + 1) \div 2 = i
        /\ 2 * i \in 1 .. q /\ (2 * i) % 2 # 1 /\ (2 * i) \div 2 = i
        /\ 4 + 2 * i = (2 * i - 1 + 3) + 2 /\ 1 + (4 + 2 * i) = (2 * i + 3) + 2
        /\ 2 * i - 1 + 3 \in 1 .. q + 3 /\ 2 * i + 3 \in 1 .. q + 3
    BY <1>1, <1>2
  <2>2. p[2 * i - 1] = w[i] /\ p[2 * i] = f[w[i]]
    BY <1>3, <2>1
  <2>3. Value(c, (2 * i - 1 + 3) + 2) = p[2 * i - 1] /\ Value(c, (2 * i + 3) + 2) = p[2 * i]
    BY <1>7, <1>8, <2>1, Zenon
  <2> QED BY <2>1, <2>2, <2>3, Zenon
<1> DEFINE at == [i \in 1 .. k |-> 4 + 2 * i]
           W == {Value(c, at[i]) : i \in DOMAIN at}
           g == [x \in W |-> Value(c, 1 + CHOOSE y \in Range(at) : Value(c, y) = x)]
<1>11. W = D
  <2>1. DOMAIN at = 1 .. k /\ \A i \in 1 .. k : at[i] = 4 + 2 * i
    BY Zenon
  <2> HIDE DEF at
  <2>2. ASSUME NEW i \in 1 .. k PROVE Value(c, at[i]) = w[i]
    BY <1>10, <2>1, Zenon
  <2>3. W = {w[i] : i \in 1 .. k}
    BY <2>1, <2>2, Zenon
  <2> HIDE DEF W
  <2> QED BY <1>1, <2>3, Zenon
<1>12. ASSUME NEW x \in D
       PROVE  Value(c, 1 + CHOOSE y \in Range(at) : Value(c, y) = x) = f[x]
  <2> DEFINE y == CHOOSE y \in Range(at) : Value(c, y) = x
  <2>1. Range(at) = {4 + 2 * i : i \in 1 .. k}
    BY DEF Range
  <2>2. \E z \in Range(at) : Value(c, z) = x
    BY <1>1, <1>10, <2>1, Zenon
  <2>3. y \in Range(at) /\ Value(c, y) = x
    BY <2>2, Zenon
  <2> HIDE DEF y
  <2>4. PICK i \in 1 .. k : y = 4 + 2 * i
    BY <2>1, <2>3, Zenon
  <2>5. w[i] = x /\ Value(c, 1 + y) = f[w[i]]
    BY <1>10, <2>3, <2>4, Zenon
  <2>6. Value(c, 1 + y) = f[x]
    BY <2>5, Zenon
  <2> QED BY <2>6, Zenon DEF y
<1>13. g = f
  <2>1. f = [x \in D |-> f[x]]
    OBVIOUS
  <2> HIDE DEF at, W
  <2> QED BY <1>11, <1>12, <2>1, Zenon
<1>14. ReadWordCount(c) = [total |-> t, next |-> n, counts |-> g]
  <2>1. ReadWordCount(c) = [total |-> Value(c, 3), next |-> Value(c, 4), counts |-> g]
    <3> DEFINE a == [i \in 1 .. Value(c, 5) |-> 4 + 2 * i]
               G(z) == [x \in {Value(c, z[i]) : i \in DOMAIN z} |->
                          Value(c, 1 + CHOOSE y \in Range(z) : Value(c, y) = x)]
    <3>1. ReadWordCount(c) =
            [total |-> Value(c, 3), next |-> Value(c, 4), counts |-> G(a)]
      BY DEF ReadWordCount
    <3>2. at = a
      BY <1>9, Zenon
    <3> HIDE DEF at, a
    <3>3. g = G(at)
      BY Zenon
    <3> HIDE DEF g, G
    <3> QED BY <3>1, <3>2, <3>3, Zenon
  <2> HIDE DEF g
  <2> QED BY <1>9, <2>1, Zenon
<1>15. Len(c) - 1 - 5 = 2 * Value(c, 5)
  BY <1>1, <1>2, <1>8, <1>9
<1> HIDE DEF g
<1> QED BY <1>1, <1>7, <1>9, <1>13, <1>14, <1>15, Zenon DEF c, rest, h, p, k, w

\* A file of this type with these values, which every reader takes for s.
Holds(kind, c, s, rest) ==
  /\ rest \in Seq(Int) /\ c = Frame(kind, rest) /\ Len(rest) + 3 >= MinLen[kind]
  /\ \A bad : ReadState(kind, c, bad) = s
  /\ kind = "primes" => \A bad : Parse(c, bad) = s

\* The sieve's file.
LEMMA SieveHolds ==
  ASSUME NEW limit, Fits("primes", limit), NEW n \in Cursors("primes", limit)
  PROVE  LET s == Reference("primes", limit, n) IN
         Holds("primes", Encode("primes", s), s, EncodeSieve(s))
<1> DEFINE s == Reference("primes", limit, n)
           P == Primes(n - 1)
           f == Cardinality(P)
           r == Ring(Sorted(P))
           rest == <<limit, n, f, 1, Len(r)>> \o r
           c == Frame("primes", rest)
<1>1. limit \in Nat /\ "primes" \in Kinds
  BY DEF Fits, Kinds
<1>2. n \in Nat \ {0} /\ n - 1 \in Nat /\ n \in Int /\ limit \in Int
  BY <1>1, SieveCursor
<1>3. P \in SUBSET Int /\ IsFiniteSet(P) /\ f \in Nat
  BY <1>2, PrimesFacts, Zenon
<1>4. s = SieveState(limit, n, f, r)
  BY <1>2, SieveIs, Zenon
<1> HIDE DEF P
<1>5. r \in Seq(Int) /\ Len(r) \in Nat /\ Len(r) <= RecentCap
  <2> DEFINE q == Sorted(P)
  <2>1. q \in Seq(P)
    BY <1>3, SortedFacts, Zenon
  <2>2. q \in Seq(Int)
    <3> HIDE DEF q
    <3> QED BY <1>3, <2>1, SeqWider, Zenon
  <2> HIDE DEF q
  <2>3. Ring(q) \in Seq(Int) /\ Len(Ring(q)) <= RecentCap
    BY <2>2, RingIs
  <2>4. r \in Seq(Int) /\ Len(r) <= RecentCap
    BY <2>3, Zenon DEF q
  <2> HIDE DEF r
  <2> QED BY <2>4
<1> HIDE DEF r, f, s
<1>6. EncodeSieve(s) = rest
  <2>1. SieveHas(s, limit, n, f, r)
    BY <1>4, SieveFields, Zenon
  <2>2. (IF s.seeded THEN 1 ELSE 0) = 1
    BY <2>1, Zenon DEF SieveHas
  <2> QED BY <2>1, <2>2, Zenon DEF SieveHas, EncodeSieve
<1>7. /\ ReadSieve(c) = SieveState(limit, n, f, r)
      /\ Value(c, 7) = Len(r) /\ 7 + Value(c, 7) = Len(c) - 1
  <2>1. f \in Int
    BY <1>3
  <2> QED BY <1>2, <1>5, <2>1, ReadSieveIs, Zenon
<1>8. rest \in Seq(Int) /\ Len(rest) + 3 >= MinLen["primes"]
  <2> DEFINE k == Len(r)
  <2>1. k \in Nat /\ f \in Int
    BY <1>3, <1>5
  <2> HIDE DEF k
  <2> DEFINE h == <<limit, n, f, 1, k>>
  <2>2. h \in Seq(Int) /\ Len(h) = 5
    BY <1>2, <2>1
  <2> HIDE DEF h
  <2>3. h \o r \in Seq(Int) /\ Len(h \o r) = Len(h) + Len(r)
    BY <1>5, <2>2, Joined, Zenon
  <2>4. h \o r = rest
    BY Zenon DEF h, k
  <2>5. MinLen["primes"] = 8
    BY DEF MinLen
  <2> HIDE DEF rest
  <2> QED BY <1>5, <2>2, <2>3, <2>4, <2>5
<1> HIDE DEF rest
<1>9. Encode("primes", s) = c
  <2>1. Encode("primes", s) = Frame("primes", EncodeSieve(s))
    BY DEF Encode, Frame, Front
  <2> QED BY <1>6, <2>1, Zenon
<1>10. HeaderOK("primes", c)
  BY <1>1, <1>8, FrameHeader, Zenon
<1> HIDE DEF c
<1>11. ~(Value(c, 7) > RecentCap)
  BY <1>5, <1>7, RecentCapAssumption
<1>12. ASSUME NEW bad PROVE ReadState("primes", c, bad) = s /\ Parse(c, bad) = s
  <2>1. ReadState("primes", c, bad) = ReadSieve(c)
    BY <1>10, <1>11 DEF ReadState
  <2>2. Parse(c, bad) = ReadSieve(c)
    BY <1>7, <1>10, <1>11, Zenon DEF Parse
  <2> QED BY <1>4, <1>7, <2>1, <2>2, Zenon
<1>13. Holds("primes", c, s, rest)
  BY <1>8, <1>12, Zenon DEF Holds, c
<1> QED BY <1>6, <1>9, <1>13, Zenon DEF s

\* The product's file.
LEMMA MatMulHolds ==
  ASSUME NEW limit, Fits("matmul", limit), NEW n \in Cursors("matmul", limit)
  PROVE  LET s == Reference("matmul", limit, n) IN
         Holds("matmul", Encode("matmul", s), s, EncodeMatMul(s))
<1> DEFINE s == Reference("matmul", limit, n)
           p == Product(limit, n)
           rest == <<limit, n, p>>
           c == Frame("matmul", rest)
<1>1. limit \in Nat /\ "matmul" \in Kinds /\ CellsOK(limit) /\ limit \in Int
  BY DEF Fits, Kinds
<1>2. n \in Int
  BY <1>1 DEF Cursors
<1>3. p \in Int
  <2> DEFINE q == SumFunctionOnSet(Factors(limit), Before(limit, n))
  <2>0. p = Wrap(q) /\ q \in Nat
    BY <1>1, ProductIs, Zenon
  <2> HIDE DEF q
  <2>1. p \in Nat
    BY <2>0, WrapFacts, Zenon
  <2> QED BY <2>1
<1>4. s = [n |-> limit, next |-> n, sum |-> p]
  BY ReferenceIs, Zenon
<1> HIDE DEF p, s
<1>5. EncodeMatMul(s) = rest
  BY <1>4 DEF EncodeMatMul
<1>6. ReadMatMul(c) = s
  BY <1>1, <1>2, <1>3, <1>4, ReadMatMulIs, Zenon
<1>7. rest \in Seq(Int) /\ Len(rest) + 3 >= MinLen["matmul"]
  BY <1>1, <1>2, <1>3 DEF MinLen
<1> HIDE DEF rest
<1>8. Encode("matmul", s) = c
  <2>1. Encode("matmul", s) = Frame("matmul", EncodeMatMul(s))
    BY DEF Encode, Frame, Front
  <2> QED BY <1>5, <2>1, Zenon
<1>9. HeaderOK("matmul", c)
  BY <1>1, <1>7, FrameHeader, Zenon
<1> HIDE DEF c
<1>10. ASSUME NEW bad PROVE ReadState("matmul", c, bad) = s
  <2>1. ReadState("matmul", c, bad) = ReadMatMul(c)
    BY <1>9 DEF ReadState
  <2> QED BY <1>6, <2>1, Zenon
<1>11. "matmul" # "primes"
  OBVIOUS
<1>12. Holds("matmul", c, s, rest)
  BY <1>7, <1>10, <1>11, Zenon DEF Holds, c
<1> QED BY <1>5, <1>8, <1>12, Zenon DEF s

\* The words seen so far are some of the dictionary, and are counted.
LEMMA HistogramFacts ==
  ASSUME NEW limit, Fits("wordcount", limit), NEW n \in 0 .. limit
  PROVE  LET D == DOMAIN Histogram(n) IN
         /\ D \in SUBSET Int /\ IsFiniteSet(D) /\ Cardinality(D) <= DictSize
         /\ Histogram(n) \in [D -> Int]
<1> DEFINE seen == 0 .. n - 1
           D == {WordAt[i] : i \in seen}
           at(v) == {i \in seen : WordAt[i] = v}
<1>1. Histogram(n) = [v \in D |-> Cardinality(at(v))]
  BY DEF Histogram
<1>2. limit \in Nat /\ \A i \in 0 .. limit - 1 : WordAt[i] \in 0 .. DictSize - 1
  BY Zenon DEF Fits
<1>3. n \in Nat /\ n - 1 \in Int /\ \A i \in seen : i \in 0 .. limit - 1
  BY <1>2
<1>4. D \subseteq 0 .. DictSize - 1
  <2> HIDE DEF seen
  <2> QED BY <1>2, <1>3, Zenon
<1>5. IsFiniteSet(seen)
  BY <1>3, FS_Interval
<1> DEFINE all == 0 .. DictSize - 1
<1>6. IsFiniteSet(all) /\ Cardinality(all) = DictSize /\ all \subseteq Int
  <2>1. DictSize \in Nat /\ DictSize - 1 \in Int
    BY DictSizeAssumption
  <2>2. /\ IsFiniteSet(all)
        /\ Cardinality(all) = IF 0 > DictSize - 1 THEN 0 ELSE DictSize - 1 - 0 + 1
    BY <2>1, FS_Interval
  <2> QED BY <2>1, <2>2
<1>7. ASSUME NEW v PROVE Cardinality(at(v)) \in Int
  <2>1. at(v) \subseteq seen
    BY Zenon
  <2> HIDE DEF at, seen
  <2>2. Cardinality(at(v)) \in Nat
    BY <1>5, <2>1, FS_Subset, FS_CardinalityType, Zenon
  <2> QED BY <2>2
<1> HIDE DEF D, at, all, seen
<1>8. IsFiniteSet(D) /\ Cardinality(D) <= DictSize /\ D \in SUBSET Int
  BY <1>4, <1>6, FS_Subset, Zenon DEF all
<1>9. DOMAIN Histogram(n) = D
  BY <1>1, Zenon
<1>10. Histogram(n) \in [D -> Int]
  BY <1>1, <1>7, Zenon
<1> QED BY <1>8, <1>9, <1>10, Zenon

\* The histogram's file.
LEMMA WordCountHolds ==
  ASSUME NEW limit, Fits("wordcount", limit), NEW n \in Cursors("wordcount", limit)
  PROVE  LET s == Reference("wordcount", limit, n) IN
         Holds("wordcount", Encode("wordcount", s), s, EncodeWordCount(s))
<1> DEFINE s == Reference("wordcount", limit, n)
           f == Histogram(n)
           D == DOMAIN f
           w == Sorted(D)
           rest == <<limit, n, Len(w)>> \o Pairs(w, f)
           c == Frame("wordcount", rest)
<1>1. limit \in Nat /\ "wordcount" \in Kinds /\ limit \in Int
  BY DEF Fits, Kinds
<1>2. n \in Int /\ n \in 0 .. limit
  BY <1>1 DEF Cursors
<1>3. /\ D \in SUBSET Int /\ IsFiniteSet(D) /\ Cardinality(D) <= DictSize /\ f \in [D -> Int]
  BY <1>2, HistogramFacts, Zenon
<1>4. s = [total |-> limit, next |-> n, counts |-> f]
  BY ReferenceIs, Zenon
<1> HIDE DEF f, s
<1>5. EncodeWordCount(s) = rest
  <2>1. s.total = limit /\ s.next = n /\ s.counts = f
    BY <1>4
  <2> QED BY <2>1, Zenon DEF EncodeWordCount, Pairs
<1> HIDE DEF D
<1>6. /\ ReadWordCount(c) = [total |-> limit, next |-> n, counts |-> f]
      /\ rest \in Seq(Int)
      /\ Value(c, 5) = Cardinality(D) /\ Len(c) - 1 - 5 = 2 * Value(c, 5)
  BY <1>1, <1>2, <1>3, ReadWordCountIs, Zenon
<1>7. Len(rest) + 3 >= MinLen["wordcount"]
  <2>1. FrameHas(c, Front("wordcount", rest), "wordcount", rest)
    <3> HIDE DEF rest
    <3> QED BY <1>1, <1>6, FrameFacts, Zenon
  <2> HIDE DEF c, rest
  <2>2. Len(c) = Len(rest) + 3 /\ Len(rest) \in Nat
    BY <2>1, Zenon DEF FrameHas
  <2>3. Value(c, 5) \in Nat
    BY <1>3, <1>6, FS_CardinalityType, Zenon
  <2>4. MinLen["wordcount"] = 6
    BY DEF MinLen
  <2> QED BY <1>6, <2>2, <2>3, <2>4
<1> HIDE DEF rest
<1>8. Encode("wordcount", s) = c
  <2>1. Encode("wordcount", s) = Frame("wordcount", EncodeWordCount(s))
    BY DEF Encode, Frame, Front
  <2> QED BY <1>5, <2>1, Zenon
<1>9. HeaderOK("wordcount", c)
  BY <1>1, <1>6, <1>7, FrameHeader, Zenon
<1> HIDE DEF c
<1>10. ~(Value(c, 5) > DictSize)
  <2>1. Cardinality(D) \in Nat
    BY <1>3, FS_CardinalityType, Zenon
  <2> QED BY <1>3, <1>6, <2>1, DictSizeAssumption
<1>11. ASSUME NEW bad PROVE ReadState("wordcount", c, bad) = s
  <2>1. ReadState("wordcount", c, bad) = ReadWordCount(c)
    BY <1>6, <1>9, <1>10 DEF ReadState
  <2> QED BY <1>4, <1>6, <2>1, Zenon
<1>12. "wordcount" # "primes"
  OBVIOUS
<1>13. Holds("wordcount", c, s, rest)
  BY <1>6, <1>7, <1>11, <1>12, Zenon DEF Holds, c
<1> QED BY <1>5, <1>8, <1>13, Zenon DEF s

\* c is a file for s: it ends with the checksum of the rest, every reader of
\* this type reads s, and no other type accepts it.
Exact(kind, c, s) ==
  /\ \A bad : ReadState(kind, c, bad) = s
  /\ kind = "primes" => \A bad : Parse(c, bad) = s
  /\ \A k \in Kinds : HeaderOK(k, c) <=> k = kind
  /\ c[Len(c)] = Crc(SubSeq(c, 1, Len(c) - 1))
  /\ c = Append(SubSeq(c, 1, Len(c) - 1), c[Len(c)])

\* write_state and read_state, of all three workers, and checkpoint.Parse: the
\* file of a reference state is read as that state, and by no other worker.
THEOREM CodecExact ==
  ASSUME NEW kind \in Kinds, NEW limit, Fits(kind, limit), NEW n \in Cursors(kind, limit)
  PROVE  Exact(kind, Encode(kind, Reference(kind, limit, n)), Reference(kind, limit, n))
<1> DEFINE s == Reference(kind, limit, n)
           c == Encode(kind, s)
<1>1. PICK rest : Holds(kind, c, s, rest)
  BY SieveHolds, MatMulHolds, WordCountHolds DEF Kinds
<1> HIDE DEF s, c
<1>2. /\ \A bad : ReadState(kind, c, bad) = s
      /\ kind = "primes" => \A bad : Parse(c, bad) = s
      /\ rest \in Seq(Int) /\ c = Frame(kind, rest) /\ Len(rest) + 3 >= MinLen[kind]
  BY <1>1, Zenon DEF Holds
<1>3. \A k \in Kinds : HeaderOK(k, c) <=> k = kind
  BY <1>2, FrameHeader, Zenon
<1>4. FrameHas(c, Front(kind, rest), kind, rest)
  BY <1>2, FrameFacts, Zenon
<1>5. /\ c[Len(c)] = Crc(SubSeq(c, 1, Len(c) - 1))
      /\ c = Append(SubSeq(c, 1, Len(c) - 1), c[Len(c)])
  BY <1>4, Zenon DEF FrameHas
<1> QED BY <1>2, <1>3, <1>5, Zenon DEF s, c, Exact
=============================================================================
