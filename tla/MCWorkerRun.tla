---------------------------- MODULE MCWorkerRun -----------------------------
(* A small instance of WorkerRun for TLC. *)
EXTENDS WorkerRunProperties

MCLimit == [primes |-> 5, matmul |-> 2, wordcount |-> 3]
MCEvery == [primes |-> 2, matmul |-> 3, wordcount |-> 2]

\* A fingerprint that wraps, and fits an int64 whenever it is printed ...
MCCellA == [i \in 0 .. 3 |-> <<1, 2, 3, 13>>[i + 1]]
MCCellB == [i \in 0 .. 3 |-> <<2, 3, 1, 2>>[i + 1]]
\* ... and one that does not.
MCCellLarge == [i \in 0 .. 3 |-> 9]
MCWordAt == [i \in 0 .. 2 |-> <<5, 3, 5>>[i + 1]]
MCHole == Field(0)

MCBufs ==
  UNION {{Encode(k, Trajectory[k][n]) : n \in DOMAIN Trajectory[k]} : k \in Types}
MCWords == {Field(n) : n \in 0 .. 127} \cup {b[Len(b)] : b \in MCBufs}

=============================================================================
