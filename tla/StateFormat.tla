---------------------------- MODULE StateFormat -----------------------------
(* The layout of a state file, per worker type: what write_state puts      *)
(* together, what read_state accepts, and the Go reader of the primes      *)
(* layout in internal/checkpoint.  A file is a sequence of fields.  The    *)
(* checksum of a body is a word of its own that only this body has: CRC32  *)
(* is taken to detect what can happen to a file here.                      *)
EXTENDS Compute

CONSTANT DictSize    \* kDictSize

ASSUME DictSizeAssumption == DictSize \in Nat

Magic == [primes |-> 101, matmul |-> 102, wordcount |-> 103]
Version == [primes |-> 2, matmul |-> 1, wordcount |-> 1]

Field(v) == <<v>>
Crc(body) == <<"crc", body>>
Fields(s) == [n \in DOMAIN s |-> Field(s[n])]

\* write_state up to the open.  The seed is the same for every state of a job.
EncodeSieve(s) ==
  <<s.limit, s.next, s.found, IF s.seeded THEN 1 ELSE 0, Len(s.recent)>> \o s.recent

EncodeMatMul(s) == <<s.n, s.next, s.sum>>

EncodeWordCount(s) ==
  LET words == Sorted(DOMAIN s.counts)
  IN  <<s.total, s.next, Len(words)>> \o
        [n \in 1 .. 2 * Len(words) |-> IF n % 2 = 1 THEN words[(n + 1) \div 2]
                                       ELSE s.counts[words[n \div 2]]]

Encode(kind, s) ==
  LET rest == CASE kind = "primes" -> EncodeSieve(s)
                [] kind = "matmul" -> EncodeMatMul(s)
                [] kind = "wordcount" -> EncodeWordCount(s)
      body == Fields(<<Magic[kind], Version[kind]>> \o rest)
  IN  Append(body, Crc(body))

MinLen == [primes |-> 8, matmul |-> 6, wordcount |-> 6]

\* The checks that every reader makes first, in their order.
HeaderOK(kind, c) ==
  /\ Len(c) >= MinLen[kind]
  /\ c[Len(c)] = Crc(SubSeq(c, 1, Len(c) - 1))
  /\ c[1] = Field(Magic[kind])
  /\ c[2] = Field(Version[kind])

Value(c, n) == c[n][1]
Values(c, from, to) == [n \in 1 .. to - from + 1 |-> Value(c, from + n - 1)]

ReadSieve(c) ==
  [limit |-> Value(c, 3), next |-> Value(c, 4), found |-> Value(c, 5),
   seeded |-> Value(c, 6) # 0, recent |-> Values(c, 8, 7 + Value(c, 7))]

ReadMatMul(c) == [n |-> Value(c, 3), next |-> Value(c, 4), sum |-> Value(c, 5)]

ReadWordCount(c) ==
  LET at == [i \in 1 .. Value(c, 5) |-> 4 + 2 * i]
  IN  [total |-> Value(c, 3), next |-> Value(c, 4),
       counts |-> [w \in {Value(c, at[i]) : i \in DOMAIN at} |->
                     Value(c, 1 + CHOOSE p \in Range(at) : Value(c, p) = w)]]

\* read_state: the state in content c, or bad for a CheckpointError.
ReadState(kind, c, bad) ==
  IF ~HeaderOK(kind, c) THEN bad
  ELSE CASE kind = "primes" ->
              IF Value(c, 7) > RecentCap THEN bad ELSE ReadSieve(c)
         [] kind = "matmul" -> ReadMatMul(c)
         [] kind = "wordcount" ->
              IF \/ Value(c, 5) > DictSize
                 \/ Len(c) - 1 - 5 # 2 * Value(c, 5)
              THEN bad ELSE ReadWordCount(c)

\* Slip: a full ring is too long.
ParseStrict(c, bad) ==
  IF ~HeaderOK("primes", c) \/ Value(c, 7) >= RecentCap
     \/ 7 + Value(c, 7) # Len(c) - 1
  THEN bad ELSE ReadSieve(c)

\* checkpoint.Parse: also the length must be that of the ring.
Parse(c, bad) ==
  IF ~HeaderOK("primes", c) \/ Value(c, 7) > RecentCap
     \/ 7 + Value(c, 7) # Len(c) - 1
  THEN bad ELSE ReadSieve(c)
=============================================================================
