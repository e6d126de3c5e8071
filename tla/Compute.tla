------------------------------ MODULE Compute -------------------------------
(* The three computations of worker/src (compute.cpp, matmul.cpp and       *)
(* wordcount.cpp), each as the state it carries, the body of its loop and  *)
(* the loop's condition, and what they are meant to compute.  uint64_t is  *)
(* an integer modulo Root * Root: Root is 2^32, the number whose square    *)
(* wraps to 0.  The pseudo-random inputs are constants.                    *)
EXTENDS Integers, Sequences, FiniteSetsExt

CONSTANTS
  Root,        \* the square root of the number of values of a uint64_t
  RecentCap,   \* SieveState::kRecentCap
  CellA,       \* a_cell(seed, n, i, j), as a function of i*n + j
  CellB,       \* b_cell
  WordAt       \* word_at(seed, idx)

ASSUME RootAssumption == Root \in Nat \ {0} /\ Root % 2 = 0
ASSUME RecentCapAssumption == RecentCap \in Nat \ {0}

Kinds == {"primes", "matmul", "wordcount"}

Wrap(n) == n % (Root * Root)

\* The elements of a finite set of numbers in increasing order: x is where
\* as many elements as it has before it and itself say.
Rank(S, x) == Cardinality({y \in S : y <= x})
Sorted(S) == [i \in 1 .. Cardinality(S) |-> CHOOSE x \in S : Rank(S, x) = i]

-----------------------------------------------------------------------------
(* compute.cpp *)

\* Slip: the loop stops before the square root.
TrialShort(n) ==
  LET reached(i) == \A k \in 3 .. i : k % 2 = 1 => Wrap(k * k) < n
  IN  /\ n >= 2
      /\ \/ n < 4
         \/ /\ n % 2 # 0
            /\ \A i \in 3 .. n : i % 2 = 1 /\ reached(i) => n % i # 0

\* is_prime_trial: divide by the odd numbers up to the square root, whose
\* squares may wrap.
Trial(n) ==
  LET reached(i) == \A k \in 3 .. i : k % 2 = 1 => Wrap(k * k) <= n
  IN  /\ n >= 2
      /\ \/ n < 4
         \/ /\ n % 2 # 0
            /\ \A i \in 3 .. n : i % 2 = 1 /\ reached(i) => n % i # 0

SieveStart(limit) ==
  [limit |-> limit, next |-> 2, found |-> 0, seeded |-> FALSE, recent |-> <<>>]

\* The loop body: a prime is counted and enters the ring, and next moves on
\* before the state is written.
SieveBody(s) ==
  LET ring == Append(s.recent, s.next)
      next == IF s.next = 2 THEN 3 ELSE Wrap(s.next + 2)
  IN  IF Trial(s.next)
      THEN [s EXCEPT !.next = next, !.found = Wrap(@ + 1),
                     !.recent = IF Len(ring) > RecentCap THEN Tail(ring) ELSE ring]
      ELSE [s EXCEPT !.next = next]

-----------------------------------------------------------------------------
(* matmul.cpp *)

MatMulStart(n) == [n |-> n, next |-> 0, sum |-> 0]

\* One cell of the product, added to the fingerprint.
MatMulBody(s) ==
  LET i == s.next \div s.n
      j == s.next % s.n
      terms == [k \in 0 .. s.n - 1 |-> CellA[i * s.n + k] * CellB[k * s.n + j]]
  IN  [s EXCEPT !.next = Wrap(@ + 1), !.sum = Wrap(@ + SumFunction(terms))]

-----------------------------------------------------------------------------
(* wordcount.cpp *)

WordCountStart(total) == [total |-> total, next |-> 0, counts |-> <<>>]

\* counts[w] += 1, where a missing entry is 0.
WordCountBody(s) ==
  LET w == WordAt[s.next]
      had == IF w \in DOMAIN s.counts THEN s.counts[w] ELSE 0
  IN  [s EXCEPT !.next = Wrap(@ + 1),
                !.counts = [v \in DOMAIN @ \cup {w} |->
                              IF v = w THEN Wrap(had + 1) ELSE @[v]]]

\* Exclusive or, bit by bit.
Xor[a \in Nat, b \in Nat] ==
  IF a + b = 0 THEN 0 ELSE (2 * Xor[a \div 2, b \div 2]) + ((a + b) % 2)

\* FNV-1a over the (word, count) pairs in the order of the words, with the
\* constants cut to the width.
CountsHash(s) ==
  LET words == Sorted(DOMAIN s.counts)
      mix(h, v) == Wrap(Xor[h, v] * 435)
      hash[n \in 0 .. Len(words)] ==
        IF n = 0 THEN Wrap(8997)
        ELSE mix(mix(hash[n - 1], words[n]), s.counts[words[n]])
  IN  hash[Len(words)]

-----------------------------------------------------------------------------
(* The three as one: fresh state, loop condition, body, what counts toward *)
(* the next checkpoint, and the "found" of a checkpoint line.              *)

Fresh(kind, limit) ==
  CASE kind = "primes" -> SieveStart(limit)
    [] kind = "matmul" -> MatMulStart(limit)
    [] kind = "wordcount" -> WordCountStart(limit)

\* The --limit that a state belongs to.
LimitOf(kind, s) ==
  CASE kind = "primes" -> s.limit
    [] kind = "matmul" -> s.n
    [] kind = "wordcount" -> s.total

\* The flag that the loop sets on entry.
Entered(kind, s) == IF kind = "primes" THEN [s EXCEPT !.seeded = TRUE] ELSE s

\* Does the loop go on?
More(kind, s) ==
  CASE kind = "primes" -> s.next <= s.limit
    [] kind = "matmul" -> s.next < Wrap(s.n * s.n)
    [] kind = "wordcount" -> s.next < s.total

Body(kind, s) ==
  CASE kind = "primes" -> SieveBody(s)
    [] kind = "matmul" -> MatMulBody(s)
    [] kind = "wordcount" -> WordCountBody(s)

Counts(kind, s) == kind = "primes" => Trial(s.next)

Found(kind, s) ==
  CASE kind = "primes" -> s.found
    [] kind = "matmul" -> s.sum
    [] kind = "wordcount" -> CountsHash(s)

-----------------------------------------------------------------------------
(* What the state should be at a cursor, without a loop. *)

Primes(n) == {p \in 2 .. n : \A d \in 2 .. p - 1 : p % d # 0}

\* The sum over the cells (i, j) before the cursor of row i times column j.
Product(n, cursor) ==
  LET ix == 0 .. n - 1
      before == {t \in ix \X ix \X ix : t[1] * n + t[2] < cursor}
  IN  Wrap(SumFunction([t \in before |->
                          CellA[t[1] * n + t[3]] * CellB[t[3] * n + t[2]]]))

Histogram(cursor) ==
  LET seen == 0 .. cursor - 1
  IN  [w \in {WordAt[i] : i \in seen} |-> Cardinality({i \in seen : WordAt[i] = w})]

\* The state of a computation whose cursor is at next.
Reference(kind, limit, next) ==
  LET below == Sorted(Primes(next - 1))
      size  == Len(below)
      from  == IF size > RecentCap THEN size - RecentCap + 1 ELSE 1
  IN  CASE kind = "primes" ->
             [limit |-> limit, next |-> next, found |-> size, seeded |-> TRUE,
              recent |-> SubSeq(below, from, size)]
        [] kind = "matmul" ->
             [n |-> limit, next |-> next, sum |-> Product(limit, next)]
        [] kind = "wordcount" ->
             [total |-> limit, next |-> next, counts |-> Histogram(next)]

\* The cursors a computation passes through, from the first to the last.
Cursors(kind, limit) ==
  CASE kind = "primes" -> {2} \cup {n \in 3 .. limit + 2 : n % 2 = 1 /\ limit >= 2}
    [] kind = "matmul" -> 0 .. limit * limit
    [] kind = "wordcount" -> 0 .. limit
=============================================================================
