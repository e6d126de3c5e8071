----------------------- MODULE WorkerRunSafety_proofs -----------------------
(* What a worker has in hand, and what it leaves behind, is what a run     *)
(* without interruption has, for any number of launches, any limits and    *)
(* any inputs.                                                             *)
EXTENDS WorkerRun_proofs, Compute_proofs

\* Leaves that name no prover are for SMT or Zenon.
USE SMTT(15), Z3T(15), Zenon

-----------------------------------------------------------------------------
(* The states of a job and their files.                                    *)

\* The limits and inputs of a job fit.
LEMMA JobFits ==
  ASSUME NEW k \in Types
  PROVE  k \in Kinds /\ Fits(k, Limit[k]) /\ Every[k] \in Nat
<1>1. k \in Kinds
  BY TypesAssumption, Zenon
<1> DEFINE l == Limit[k]
<1>2. /\ l \in Nat /\ Every[k] \in Nat
      /\ k = "primes" => l < (Root - 1) * (Root - 1)
      /\ k = "matmul" => l * l < Root * Root
      /\ k = "wordcount" => l < Root * Root
  BY LimitAssumption, Zenon
<1>3. k = "matmul" => CellsOK(l)
  BY InputAssumption, Zenon DEF CellsOK
<1>4. k = "wordcount" => \A i \in 0 .. l - 1 : WordAt[i] \in 0 .. DictSize - 1
  BY InputAssumption, Zenon
<1> HIDE DEF l
<1>5. Fits(k, l)
  BY <1>2, <1>3, <1>4, Zenon DEF Fits
<1> QED BY <1>1, <1>2, <1>5, Zenon DEF l

\* Bufs are the files of the states on the way.
LEMMA BufIs ==
  ASSUME NEW b
  PROVE  b \in Bufs <=> \E k \in Types : \E s \in OnTheWay(k) : b = Encode(k, s)
<1> DEFINE T(k) == {Encode(k, Trajectory[k][n]) : n \in DOMAIN Trajectory[k]}
<1>1. Bufs = UNION {T(k) : k \in Types}
  BY StatesAssumption, Zenon
<1>2. ASSUME NEW k \in Types PROVE T(k) = {Encode(k, s) : s \in OnTheWay(k)}
  <2> DEFINE C == Cursors(k, Limit[k])
             R(n) == Reference(k, Limit[k], n)
  <2>1. Trajectory[k] = [n \in C |-> R(n)]
    BY Zenon DEF Trajectory
  <2>2. OnTheWay(k) = {R(n) : n \in C}
    BY Zenon DEF OnTheWay
  <2> HIDE DEF C, R
  <2>3. DOMAIN Trajectory[k] = C /\ \A n \in C : Trajectory[k][n] = R(n)
    BY <2>1, Zenon
  <2>4. T(k) = {Encode(k, R(n)) : n \in C}
    BY <2>3, Zenon
  <2> HIDE DEF T
  <2> QED BY <2>2, <2>4, Zenon
<1> HIDE DEF T
<1> QED BY <1>1, <1>2, Zenon

\* What a job's states and files are.
LEMMA WayFacts ==
  ASSUME NEW k \in Types, NEW s \in OnTheWay(k)
  PROVE  /\ Encode(k, s) \in Bufs /\ Encode(k, s) \in Content
         /\ ReadState(k, Encode(k, s), Bad) = s /\ s # Bad
         /\ k = "primes" => Parse(Encode(k, s), Bad) = s
         /\ \A j \in Kinds : HeaderOK(j, Encode(k, s)) <=> j = k
         /\ LimitOf(k, s) = Limit[k] /\ Entered(k, s) = s
         /\ s.next \in Cursors(k, Limit[k]) /\ s = Reference(k, Limit[k], s.next)
<1> DEFINE l == Limit[k]
           c == Encode(k, s)
<1>1. PICK n \in Cursors(k, l) : s = Reference(k, l, n)
  BY Zenon DEF OnTheWay
<1>2. k \in Kinds /\ Fits(k, l) /\ l \in Nat
  BY JobFits, Zenon DEF Fits
<1>3. c \in Bufs
  BY BufIs, Zenon
<1>4. c \in Content
  BY <1>3, BufsAssumption, Zenon DEF Content
<1> HIDE DEF l
<1>5. /\ ReadState(k, c, Bad) = s
      /\ k = "primes" => Parse(c, Bad) = s
      /\ \A j \in Kinds : HeaderOK(j, c) <=> j = k
  <2>1. Exact(k, c, s)
    BY <1>1, <1>2, CodecExact, Zenon
  <2> QED BY <2>1, Zenon DEF Exact
<1>6. s.next = n /\ LimitOf(k, s) = l /\ Entered(k, s) = s
  BY <1>1, <1>2, ReferenceFields, Zenon
<1>7. s # Bad
  <2>1. "next" \in DOMAIN s
    <3>1. CASE k = "matmul"
      BY <1>1, <3>1, ReferenceIs
    <3>2. CASE k = "wordcount"
      BY <1>1, <3>2, ReferenceIs
    <3>3. CASE k = "primes"
      <4>1. n \in Nat \ {0}
        BY <1>2, <3>3, SieveCursor
      <4> DEFINE p == Cardinality(Primes(n - 1))
                 r == Ring(Sorted(Primes(n - 1)))
      <4>2. s = SieveState(l, n, p, r)
        BY <1>1, <3>3, <4>1, ReferenceIs, Zenon
      <4> HIDE DEF p, r
      <4> QED BY <4>2 DEF SieveState
    <3> QED BY <1>2, <3>1, <3>2, <3>3 DEF Kinds
  <2>2. DOMAIN Bad = {"bad"} /\ "next" # "bad"
    BY DEF Bad
  <2> QED BY <2>1, <2>2, Zenon
<1> QED BY <1>1, <1>3, <1>4, <1>5, <1>6, <1>7, Zenon DEF l

\* A content with a header that a worker accepts is a file of a state on the
\* way: the checksum is that of one (CRC32 detects what happens to a file).
LEMMA Accepted ==
  ASSUME NEW k \in Types, NEW c \in Content, HeaderOK(k, c)
  PROVE  \E s \in OnTheWay(k) : c = Encode(k, s)
<1> DEFINE n == Len(c)
           front == SubSeq(c, 1, n - 1)
<1>0. k \in Kinds
  BY JobFits, Zenon
<1>1. n >= MinLen[k] /\ c[n] = Crc(front)
  BY Zenon DEF HeaderOK
<1>2. n \in Nat /\ n >= 2
  BY <1>0, <1>1 DEF Content, MinLen, Kinds
<1>3. c[n] \in Words /\ c = Append(front, c[n])
  BY <1>2 DEF Content
<1>4. Len(c[n]) = 2
  BY <1>1 DEF Crc
<1>5. PICK b \in Bufs : c[n] = b[Len(b)]
  <2>1. Len(c[n]) # 1
    BY <1>4
  <2> QED BY <1>3, <2>1, WordsAssumption, Zenon
<1>6. PICK j \in Types : \E s \in OnTheWay(j) : b = Encode(j, s)
  BY <1>5, BufIs, Zenon
<1>7. PICK s \in OnTheWay(j) : b = Encode(j, s)
  BY <1>6, Zenon
<1>8. PICK m \in Cursors(j, Limit[j]) : s = Reference(j, Limit[j], m)
  BY <1>7, Zenon DEF OnTheWay
<1> DEFINE body == SubSeq(b, 1, Len(b) - 1)
<1>9. Exact(j, b, s)
  BY <1>6, <1>7, <1>8, JobFits, CodecExact, Zenon
<1>10. b[Len(b)] = Crc(body) /\ b = Append(body, b[Len(b)])
  BY <1>9, Zenon DEF Exact
<1> HIDE DEF front, body
<1>11. Crc(front) = Crc(body)
  BY <1>1, <1>5, <1>10, Zenon
<1>12. front = body
  BY <1>11 DEF Crc
<1>13. c = b
  BY <1>3, <1>5, <1>10, <1>12, Zenon
<1>14. HeaderOK(k, Encode(j, s))
  BY <1>7, <1>13, Zenon
<1>15. k = j
  BY <1>0, <1>6, <1>7, <1>14, WayFacts, Zenon
<1> QED BY <1>7, <1>13, <1>15, Zenon

\* A turn of the loop stays on the way.
LEMMA LoopWay ==
  ASSUME NEW k \in Types, NEW s \in OnTheWay(k), More(k, s)
  PROVE  Body(k, s) \in OnTheWay(k)
<1> DEFINE l == Limit[k]
<1>1. PICK n \in Cursors(k, l) : s = Reference(k, l, n)
  BY Zenon DEF OnTheWay
<1>2. k \in Kinds /\ Fits(k, l)
  BY JobFits, Zenon
<1> HIDE DEF l
<1>3. \E m \in Cursors(k, l) : Body(k, s) = Reference(k, l, m)
  BY <1>1, <1>2, BodyNext, Zenon
<1> QED BY <1>3, Zenon DEF OnTheWay, l

\* A fresh start is on the way once the loop is entered.
LEMMA FreshWay ==
  ASSUME NEW k \in Types
  PROVE  Entered(k, Fresh(k, Limit[k])) \in OnTheWay(k)
<1> DEFINE l == Limit[k]
<1>1. k \in Kinds /\ Fits(k, l)
  BY JobFits, Zenon
<1> HIDE DEF l
<1>2. /\ First(k) \in Cursors(k, l)
      /\ Entered(k, Fresh(k, l)) = Reference(k, l, First(k))
  BY <1>1, StartIs, Zenon
<1> QED BY <1>2, Zenon DEF OnTheWay, l

\* Whatever read_state accepts is on the way, and the file it was read from
\* is that of this state.
LEMMA ReadWay ==
  ASSUME NEW k \in Types, NEW c \in Content, ReadState(k, c, Bad) # Bad
  PROVE  /\ ReadState(k, c, Bad) \in OnTheWay(k)
         /\ c = Encode(k, ReadState(k, c, Bad))
<1>1. HeaderOK(k, c)
  BY Zenon DEF ReadState
<1>2. PICK s \in OnTheWay(k) : c = Encode(k, s)
  BY <1>1, Accepted, Zenon
<1>3. ReadState(k, c, Bad) = s
  BY <1>2, WayFacts, Zenon
<1> QED BY <1>2, <1>3, Zenon

\* The processes can rely on the loops and on the format.
LEMMA WayIsOK == WayOK
<1>1. ASSUME NEW k \in Types, NEW s \in OnTheWay(k)
      PROVE  /\ Encode(k, s) \in Bufs /\ Entered(k, s) = s
             /\ More(k, s) => Body(k, s) \in OnTheWay(k)
  BY WayFacts, LoopWay, Zenon
<1>2. ASSUME NEW k \in Types, NEW c \in Content, ReadState(k, c, Bad) # Bad
      PROVE  ReadState(k, c, Bad) \in OnTheWay(k)
  BY <1>2, ReadWay, Zenon
<1> QED BY <1>1, <1>2, FreshWay, Zenon DEF WayOK

-----------------------------------------------------------------------------
(* The theorems.                                                           *)

\* The invariant of a job's workers, for any number of them.
THEOREM RunInvariant == Spec => []RunInv
<1>1. Init => RunInv
  BY RunStart
<1>2. RunInv /\ [Next]_vars => RunInv'
  BY RunStep, WayIsOK
<1> QED BY <1>1, <1>2, PTL DEF Spec

\* A state on the way is the one of a run without interruption.
LEMMA RightIs ==
  ASSUME NEW k \in Types, NEW s \in OnTheWay(k)
  PROVE  s.next \in DOMAIN Trajectory[k] /\ s = Trajectory[k][s.next]
<1> DEFINE C == Cursors(k, Limit[k])
           R(n) == Reference(k, Limit[k], n)
<1>1. Trajectory[k] = [n \in C |-> R(n)]
  BY Zenon DEF Trajectory
<1>2. s.next \in C /\ s = R(s.next)
  BY WayFacts, Zenon
<1> HIDE DEF C, R
<1> QED BY <1>1, <1>2, Zenon

\* What is stored is made of words.
LEMMA StoredFacts ==
  ASSUME FileTypeOK, NEW c \in Stored
  PROVE  c \in Content
BY DEF FileTypeOK, Stored

\* The worker's fields are in range, and it is in write_state only while it
\* saves (main.cpp; compute.cpp:57, since_cp is reset at checkpoint_every).
THEOREM RunTyping == Spec => []RunTypeOK
<1>1. RunInv => RunTypeOK
  <2> SUFFICES ASSUME RunInv PROVE RunTypeOK
    OBVIOUS
  <2>1. FileTypeOK /\ ProcInv
    BY Zenon DEF RunInv
  <2>2. ASSUME NEW w \in Writers PROVE wr[w].pc # "idle" => proc[w].pc = "save"
    <3>1. ProcOK(kind, proc[w], wr[w])
      BY <2>1, Zenon DEF ProcInv
    <3> QED BY <3>1, Zenon DEF ProcOK
  <2>3. kind \in Types /\ losses \in 0 .. MaxLosses
    BY <2>1, Zenon DEF ProcInv
  <2>4. \A w \in Writers :
          /\ proc[w].pc \in {"none", "boot", "loop", "save", "completed", "dead"}
          /\ proc[w].since \in 0 .. Every[kind]
    BY <2>1, ProcFields, Zenon
  <2> QED BY <2>1, <2>2, <2>3, <2>4, Zenon DEF RunTypeOK
<1> QED BY <1>1, RunInvariant, PTL

\* No prime, cell or word is counted twice or left out across checkpoints,
\* kills, power losses, overlapping writers and resumes: the state a worker
\* has, and whatever read_state accepts, is that of a run without
\* interruption at that cursor (compute.cpp:50, README "determinism
\* contract"), for any limit, interval, input and number of launches.
THEOREM RunDeterminism == Spec => []OnTrajectory
<1>1. RunInv => OnTrajectory
  <2> SUFFICES ASSUME RunInv PROVE OnTrajectory
    OBVIOUS
  <2>1. FileTypeOK /\ kind \in Types
    BY Zenon DEF RunInv, ProcInv
  <2>2. ASSUME NEW w \in Writers, proc[w].pc \in {"loop", "save", "completed"}
        PROVE  proc[w].st \in OnTheWay(kind)
    BY <2>2, ActiveFacts, Zenon
  <2>3. ASSUME NEW c \in Stored, ReadState(kind, c, Bad) # Bad
        PROVE  ReadState(kind, c, Bad) \in OnTheWay(kind)
    BY <2>1, <2>3, StoredFacts, ReadWay, Zenon
  <2>4. \A s \in OnTheWay(kind) :
          s.next \in DOMAIN Trajectory[kind] /\ s = Trajectory[kind][s.next]
    BY <2>1, RightIs, Zenon
  <2> QED BY <2>2, <2>3, <2>4, Zenon DEF OnTrajectory
<1> QED BY <1>1, RunInvariant, PTL

\* A worker that printed "completed", alone and without a power loss, left
\* the final state at the path (main.cpp, the last emission of each loop).
THEOREM RunCompletes == Spec => []CompletedIsReference
<1>1. RunInv => CompletedIsReference
  <2> SUFFICES ASSUME RunInv, NEW w \in Writers, proc[w].pc = "completed", ~overlap,
                      losses = 0
               PROVE  LET c == At(dir, data) IN
                        c # None /\ ReadState(kind, c, Bad) = FinalState[kind]
    BY Zenon DEF CompletedIsReference
  <2> DEFINE p == proc[w]
             s == p.st
  <2>1. kind \in Types /\ PathInv
    BY Zenon DEF RunInv, ProcInv
  <2>2. ProcOK(kind, p, wr[w])
    BY Zenon DEF RunInv, ProcInv
  <2>3. s \in OnTheWay(kind) /\ ~More(kind, s) /\ wr[w].pc = "idle"
    <3> HIDE DEF p
    <3>1. p.pc = "completed"
      BY Zenon DEF p
    <3> QED BY <2>2, <3>1 DEF ProcOK
  <2>4. Saved(w)
    BY <2>3 DEF Saved
  <2>5. At(dir, data) = Encode(kind, s)
    BY <2>1, <2>4, Zenon DEF PathInv
  <2> HIDE DEF s
  <2>6. Encode(kind, s) # None /\ ReadState(kind, Encode(kind, s), Bad) = s
    <3>1. Encode(kind, s) \in Bufs /\ ReadState(kind, Encode(kind, s), Bad) = s
      BY <2>1, <2>3, WayFacts, Zenon
    <3> QED BY <3>1, NoneBufAssumption, Zenon
  <2>7. s = FinalState[kind]
    <3> DEFINE l == Limit[kind]
    <3>1. s.next \in Cursors(kind, l) /\ s = Reference(kind, l, s.next)
      BY <2>1, <2>3, WayFacts, Zenon
    <3>2. kind \in Kinds /\ Fits(kind, l)
      BY <2>1, JobFits, Zenon
    <3>3. ~More(kind, Reference(kind, l, s.next))
      BY <2>3, <3>1, Zenon
    <3>4. s.next = Max(Cursors(kind, l))
      <4> HIDE DEF l
      <4> QED BY <3>1, <3>2, <3>3, LastIs, Zenon
    <3>5. FinalState[kind] = Trajectory[kind][Max(Cursors(kind, l))]
      BY <2>1, Zenon DEF FinalState
    <3>6. s = Trajectory[kind][s.next]
      BY <2>1, <2>3, RightIs, Zenon
    <3> QED BY <3>4, <3>5, <3>6, Zenon
  <2> QED BY <2>5, <2>6, <2>7, Zenon
<1> QED BY <1>1, RunInvariant, PTL

\* A checkpoint on record can be resumed from, unless writes overlapped or
\* the power went (checkpoint.cpp:79-105, main.cpp:126): no exit code 4.
THEOREM RunRecords == Spec => []RecordedIsReadable
<1>1. RunInv => RecordedIsReadable
  <2> SUFFICES ASSUME RunInv, row, ~shared, losses = 0
               PROVE  At(dir, data) # None /\ ReadState(kind, At(dir, data), Bad) # Bad
    BY Zenon DEF RecordedIsReadable
  <2>1. kind \in Types /\ PathInv
    BY Zenon DEF RunInv, ProcInv
  <2>2. PICK s \in OnTheWay(kind) : At(dir, data) = Encode(kind, s)
    BY <2>1, Zenon DEF PathInv
  <2>3. /\ Encode(kind, s) \in Bufs
        /\ ReadState(kind, Encode(kind, s), Bad) = s /\ s # Bad
    BY <2>1, <2>2, WayFacts, Zenon
  <2>4. At(dir, data) # None
    BY <2>2, <2>3, NoneBufAssumption, Zenon
  <2> QED BY <2>2, <2>3, <2>4, Zenon
<1> QED BY <1>1, RunInvariant, PTL

\* The Go reader and the C++ reader agree on every content that the disk,
\* the cache or a writer ever holds (checkpoint.Parse, read_state).
THEOREM RunReaders == Spec => []ReadersAgree
<1>1. RunInv => ReadersAgree
  <2> SUFFICES ASSUME RunInv, kind = "primes", NEW c \in Stored
               PROVE  Parse(c, Bad) = ReadState("primes", c, Bad)
    BY Zenon DEF ReadersAgree
  <2>1. "primes" \in Types /\ c \in Content
    BY StoredFacts, Zenon DEF RunInv, ProcInv
  <2>2. CASE HeaderOK("primes", c)
    <3>1. PICK s \in OnTheWay("primes") : c = Encode("primes", s)
      BY <2>1, <2>2, Accepted, Zenon
    <3>2. /\ ReadState("primes", Encode("primes", s), Bad) = s
          /\ Parse(Encode("primes", s), Bad) = s
      BY <2>1, <3>1, WayFacts, Zenon
    <3> QED BY <3>1, <3>2, Zenon
  <2>3. CASE ~HeaderOK("primes", c)
    BY <2>3 DEF Parse, ReadState
  <2> QED BY <2>2, <2>3, Zenon
<1> QED BY <1>1, RunInvariant, PTL

\* Trial division is right up to where the square wraps (compute.cpp:9),
\* whatever the width.
THEOREM RunTrials == Spec => []TrialIsExact
<1>1. TrialIsExact
  <2> DEFINE m == (Root - 1) * (Root - 1)
  <2>1. m \in Int
    BY RootAssumption
  <2> HIDE DEF m
  <2>2. ASSUME NEW n \in 0 .. m - 1 PROVE n \in Nat /\ n < m
    BY <2>1
  <2>3. \A n \in 0 .. m - 1 : Trial(n) <=> n \in Primes(n)
    BY <2>2, TrialExact, Zenon DEF m
  <2> QED BY <2>3, Zenon DEF TrialIsExact, m
<1> QED BY <1>1, PTL

\* What a job's workers do to the state file is what StateFile says they may
\* do: they write nothing but files of the job (main.cpp, every write_state).
THEOREM RunRefinesFile == Spec => FileSpec
<1>1. Init => FileInit
  BY DEF Init
<1>2. RunInv /\ [Next]_vars => [FileNext]_fileVars
  BY RunIsFile, WayIsOK DEF RunInv
<1> QED BY <1>1, <1>2, RunInvariant, PTL DEF Spec, FileSpec

\* So the state file of a job is atomic, whatever its workers, their kills, a
\* failing call or a power loss do (checkpoint.h).
THEOREM RunFileIsAtomic == Spec => FileIsAtomic
BY RunRefinesFile, FileRefinement, PTL

\* And it is whole and synced, unless two workers wrote it together
\* (checkpoint.cpp:79-105).
THEOREM RunFileIsSafe == Spec => []StateFileInv
BY RunRefinesFile, FileSafe, PTL
=============================================================================
