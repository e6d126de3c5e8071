------------------------ MODULE WorkerRunProperties -------------------------
(* What the worker and its state file guarantee. *)
EXTENDS WorkerRun

\* Everything that a disk or a cache holds, or a worker is writing.
Stored ==
  {data[i] : i \in Inodes} \cup {safe[i] : i \in Inodes}
    \cup {wr[w].buf : w \in Writers}

\* The states of a run without interruption, by cursor, and the last one.
Trajectory ==
  [k \in Types |-> [n \in Cursors(k, Limit[k]) |-> Reference(k, Limit[k], n)]]
\* Bufs names the encodings of these states (that a worker writes nothing
\* else is for the properties to say), and Words the fields there can be and
\* the checksums of these encodings.
ASSUME StatesAssumption ==
  Bufs = UNION {{Encode(k, Trajectory[k][n]) : n \in DOMAIN Trajectory[k]} : k \in Types}
ASSUME WordsAssumption ==
  \A x \in Words : Len(x) = 1 \/ \E b \in Bufs : x = b[Len(b)]

FinalState == [k \in Types |-> Trajectory[k][Max(Cursors(k, Limit[k]))]]

\* The state a worker has in hand, and every content that read_state would
\* accept, wherever it lies and however many workers wrote it, is exactly
\* what a run without interruption has at that cursor: no prime, cell or
\* word is counted twice or left out across checkpoints, kills, power
\* losses and resumes (compute.cpp:50, README "determinism contract").
OnTrajectory ==
  LET right(s) == s.next \in DOMAIN Trajectory[kind]
                  /\ s = Trajectory[kind][s.next]
  IN  /\ \A w \in Writers : proc[w].pc \in {"loop", "save", "completed"}
                              => right(proc[w].st)
      /\ \A c \in Stored : LET s == ReadState(kind, c, Bad)
                           IN  s # Bad => right(s)

\* A worker that printed "completed" left the final state behind, unless
\* another worker ran beside it (main.cpp, the last emission of each loop).
CompletedIsReference ==
  \A w \in Writers : proc[w].pc = "completed" /\ ~overlap /\ losses = 0 =>
    LET c == At(dir, data) IN
      c # None /\ ReadState(kind, c, Bad) = FinalState[kind]

\* While a checkpoint is on record, the state file is there and read_state
\* accepts it: a resume does not end with exit code 4.  Overlapping writes
\* and a power loss are exempt, for the directory is not synced
\* (checkpoint.cpp:79-105, main.cpp:126).
RecordedIsReadable ==
  row /\ ~shared /\ losses = 0 =>
    At(dir, data) # None /\ ReadState(kind, At(dir, data), Bad) # Bad

\* The Go reader accepts what the C++ reader accepts, and reads the same
\* from it, in every content that the disk ever holds (checkpoint.Parse).
ReadersAgree ==
  kind = "primes" =>
    \A c \in Stored : Parse(c, Bad) = ReadState("primes", c, Bad)

\* Trial division, as a worker that starts on primes finds it, is right up to
\* where the square wraps (compute.cpp:9).
TrialIsExact ==
  kind = "primes" /\ (\A w \in Writers : proc[w].pc = "none") =>
    \A n \in 0 .. (Root - 1) * (Root - 1) - 1 : Trial(n) <=> n \in Primes(n)

\* A worker that is not killed comes to its end: every loop terminates, and
\* no state of the file keeps write_state or read_state from returning.
WorkersEnd ==
  \A w \in Writers : Active(w) ~> ~Active(w)

-----------------------------------------------------------------------------
(* What the repository says and the code does not keep. *)

\* Once a worker printed a checkpoint, the job has one on record ("Work is
\* lost only because nothing was ever checkpointed", README.md:17).
PrintedIsRecorded == losses = 0 /\ printed => row
=============================================================================
