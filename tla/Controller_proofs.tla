------------------------- MODULE Controller_proofs --------------------------
(* Proofs about Controller, for any jobs, containers, number of            *)
(* checkpoints, failures and restarts.  Here: types, what each step does   *)
(* to rows, containers and files, and what a controller keeps that shares  *)
(* them with another one.                                                  *)
EXTENDS ControllerProperties, TLAPS

\* Leaves that name no prover are for SMT or Zenon.
USE SMTT(15), Z3T(15), Zenon

USE DEF Progress

-----------------------------------------------------------------------------
(* Operators. *)

\* A Transition writes a state of the table or nothing.
LEMMA TransitionType ==
  ASSUME NEW j \in Jobs, NEW next \in JobState, state \in [Jobs -> RowState]
  PROVE  Transition(j, next) \in [Jobs -> RowState]
BY DEF Transition, RowState

\* The table leads nowhere from a terminal state or from a missing row.
LEMMA ValidFrom ==
  ASSUME NEW from \in RowState, NEW to \in JobState,
         IsValidTransition(from, to), from # to
  PROVE  from \notin Terminal /\ from # "absent"
BY DEF IsValidTransition, validTransitions, Terminal, RowState, JobState

\* Killing and removing leave the container table well-formed.
LEMMA DockerType ==
  ASSUME cont \in [Cids -> Container], NEW c
  PROVE  /\ Killed(c) \in [Cids -> Container]
         /\ Removed(c) \in [Cids -> Container]
<1>1. ASSUME c \in Cids
      PROVE  /\ [cont[c] EXCEPT !.st = "exited", !.code = "nonzero"] \in Container
             /\ [cont[c] EXCEPT !.st = "gone"] \in Container
  <2>1. cont[c] \in Container BY <1>1
  <2> QED BY <2>1, Zenon DEF Container
<1> QED BY <1>1, Zenon DEF Killed, Removed

-----------------------------------------------------------------------------
(* Small facts about records and numbers. *)

\* What the types say of the numbers.
LEMMA Ranges ==
  ASSUME NEW k \in Container, NEW r \in StreamRec
  PROVE  /\ k.lo \in Int /\ k.hi \in Int /\ k.lo <= LastCkpt
         /\ k.lo \in 1 .. LastCkpt /\ k.hi \in 0 .. LastCkpt
         /\ r.n \in Int /\ r.n >= 0 /\ r.n \in 0 .. LastCkpt
BY LastCkptAssumption DEF Container, StreamRec

\* The number of lines in a log.
LEMMA LineCount ==
  ASSUME NEW k \in Container
  PROVE  /\ k.hi - k.lo + 1 \in Int
         /\ k.hi - k.lo + 1 <= k.hi - k.lo + 1
<1>1. k.lo \in Int /\ k.hi \in Int
  BY LastCkptAssumption DEF Container
<1> QED BY <1>1

\* A log that was only added to still has the lines that were read.
LEMMA LinesKept ==
  ASSUME NEW r \in StreamRec, NEW k \in Container, NEW m \in Container,
         r.n <= k.hi - k.lo + 1, k.hi - k.lo + 1 <= m.hi - m.lo + 1
  PROVE  r.n <= m.hi - m.lo + 1
<1>1. /\ k.lo \in Int /\ k.hi \in Int /\ m.lo \in Int /\ m.hi \in Int
      /\ r.n \in Int
  BY LastCkptAssumption DEF Container, StreamRec
<1> QED BY <1>1

\* No log has fewer than no lines.
LEMMA LinesCounted ==
  ASSUME NEW k \in Container, k.lo <= k.hi + 1 PROVE 0 <= k.hi - k.lo + 1
<1>1. k.lo \in Int /\ k.hi \in Int
  BY LastCkptAssumption DEF Container
<1> QED BY <1>1

\* A record that a file backs stays backed when the file goes on.
LEMMA BackedStays ==
  ASSUME NEW r \in 0 .. LastCkpt, NEW f \in 0 .. LastCkpt, NEW g \in 0 .. LastCkpt
  PROVE  /\ r <= f /\ f <= g => r <= g
         /\ f = LastCkpt /\ f <= g => g = LastCkpt
BY LastCkptAssumption

\* The last line of a log, and the line after it.
LEMMA LastLine ==
  ASSUME NEW a \in Int, NEW b \in Int
  PROVE  /\ a + (b - a + 1) - 1 = b
         /\ a <= b /\ b <= a + 1 /\ a + 1 # b => a + 1 = b + 1
OBVIOUS

\* A log from line a to line b: it may be empty, and is not if a is before b.
LEMMA LogSize ==
  ASSUME NEW a \in 1 .. LastCkpt, NEW b \in 0 .. LastCkpt
  PROVE  /\ a <= b + 1 => 0 <= b - a + 1
         /\ a <= b => b - a + 1 > 0 /\ b # 0
         /\ a + b \in 0 .. LastCkpt => a + b \in 1 .. LastCkpt
BY LastCkptAssumption

\* A new tracker, and no tracker, no Start, no cancel, no drain and no
\* container.
LEMMA Shapes ==
  /\ \A c : /\ Tracker(c).pc = "attach" /\ Tracker(c).c = c /\ Tracker(c).n = 0
            /\ Tracker(c).saw = FALSE /\ Tracker(c).ok = FALSE
  /\ NoStart.pc = "none" /\ NoStart.resume = FALSE
  /\ NoStream.pc = "none" /\ NoCancel.pc = "none" /\ NoDrain.pc = "no"
  /\ NoContainer.st = "none" /\ NoContainer.job = None /\ NoContainer.lo = 1
  /\ NoContainer.hi = 0 /\ NoContainer.pc = "boot" /\ NoContainer.done = FALSE
  /\ NoContainer.code = "none"
BY DEF Tracker, NoStart, NoStream, NoCancel, NoDrain, NoContainer

-----------------------------------------------------------------------------
(* What happens to containers, and inside of them. *)

\* All that the invariants of job k read of its containers stays, except
\* that some may have ended.
Kept(k) ==
  \A d \in Cids :
    /\ cont'[d].job = k <=> cont[d].job = k
    /\ cont[d].job = k => /\ cont'[d].lo = cont[d].lo
                          /\ cont'[d].hi = cont[d].hi
                          /\ cont'[d].done = cont[d].done

\* No container starts or works; some may have ended.
Ended ==
  /\ file' = file /\ overlap' = overlap
  /\ \A d \in Cids :
       /\ cont'[d].job = cont[d].job
       /\ cont'[d].lo = cont[d].lo /\ cont'[d].hi = cont[d].hi
       /\ cont'[d].done = cont[d].done /\ cont'[d].pc = cont[d].pc
       /\ cont'[d].resume = cont[d].resume
       /\ cont'[d].st = "none" <=> cont[d].st = "none"
       /\ cont'[d].st = "running" => cont[d].st = "running"
       /\ cont'[d].code = "zero" => cont[d].code = "zero"

\* docker stop, kill and rm end containers and do nothing else.
LEMMA EndedBy ==
  ASSUME TypeOK, file' = file, overlap' = overlap, NEW c,
         cont' = cont \/ cont' = Killed(c) \/ cont' = Removed(c)
  PROVE  Ended
<1>1. CASE cont' = cont
  BY <1>1 DEF Ended
<1>2. CASE cont' = Killed(c)
  BY <1>2 DEF Ended, Killed, Running, TypeOK, WorkerTypeOK, Container
<1>3. CASE cont' = Removed(c)
  BY <1>3 DEF Ended, Removed, TypeOK, WorkerTypeOK, Container
<1> QED BY <1>1, <1>2, <1>3

\* What ends a container keeps the invariants of the containers.
LEMMA EndedKeeps ==
  ASSUME TypeOK, ContainerInv, FileInv, SoleWorker, Ended
  PROVE  /\ ContainerInv' /\ FileInv' /\ SoleWorker'
         /\ \A k \in Jobs : Kept(k)
<1>1. ContainerInv'
  BY DEF Ended, ContainerInv
<1>2. FileInv'
  BY DEF Ended, FileInv, Running
<1>3. SoleWorker'
  BY DEF Ended, SoleWorker, Running
<1>4. \A k \in Jobs : Kept(k)
  BY DEF Ended, Kept
<1> QED BY <1>1, <1>2, <1>3, <1>4

\* What every step of a worker does that is not its death: its log grows,
\* and, unless two workers shared the file, so does the file.
Works(c) ==
  LET j == cont[c].job IN
  /\ j \in Jobs /\ Running(c)
  /\ overlap' = overlap
  /\ \A d \in Cids : d # c => cont'[d] = cont[d]
  /\ \A k \in Jobs : k # j => file'[k] = file[k]
  /\ cont'[c].job = j /\ cont'[c].resume = cont[c].resume
  /\ cont'[c].st \in {"running", "exited"}
  /\ cont[c].hi - cont[c].lo + 1 <= cont'[c].hi - cont'[c].lo + 1
  /\ cont[c].done => cont'[c].done
  /\ ~overlap[j] => file[j] <= file'[j]
  /\ file[j] > 0 => file'[j] > 0

\* A worker step that does not end the process (read_state, write_state,
\* emit_checkpoint, the completed line, exit 0) keeps the container and file
\* invariants.
LEMMA WorkerWorks ==
  ASSUME TypeOK, ContainerInv, FileInv, SoleWorker, NEW c \in Cids, WorkerStep(c),
         cont' # Killed(c)
  PROVE  Works(c) /\ ContainerInv' /\ FileInv'
<1> DEFINE j == cont[c].job
           k == cont[c]
<1>1. /\ k \in Container /\ Running(c)
      /\ k.lo \in 1 .. LastCkpt /\ k.hi \in 0 .. LastCkpt /\ k.done \in BOOLEAN
      /\ k.resume \in BOOLEAN
  BY DEF WorkerStep, WorkerBoot, WriteState, EmitCheckpoint, EmitCompleted,
         WorkerExit, TypeOK, WorkerTypeOK, Container
<1>2. j \in Jobs /\ file[j] \in 0 .. LastCkpt /\ overlap[j] \in BOOLEAN
  BY <1>1 DEF Running, ContainerInv, TypeOK, WorkerTypeOK, Container
<1>3. /\ k.lo <= k.hi + 1
      /\ k.pc = "boot" => k.hi = 0 /\ ~k.done
      /\ k.pc = "emit" => k.hi < LastCkpt
      /\ k.done => k.hi = LastCkpt
      /\ k.pc = "exit" \/ k.code = "zero" => k.done
  BY DEF ContainerInv
<1>4. /\ k.resume \/ k.hi > 0 \/ k.pc = "emit" => file[j] > 0
      /\ ~overlap[j] =>
           /\ k.hi <= file[j]
           /\ k.pc = "boot" /\ ~k.resume => file[j] = 0
           /\ k.pc = "compute" => file[j] <= k.hi + 1
           /\ k.pc = "emit" => file[j] = k.hi + 1
  BY <1>1 DEF FileInv, Running
\* What is left to show about the new container and the new file.
<1> DEFINE n == cont'[c]
           New(f) ==
             /\ n.job = j /\ n.resume = k.resume /\ n.st \in {"running", "exited"}
             /\ n.hi \in 0 .. LastCkpt /\ n.lo \in 1 .. LastCkpt /\ n.pc # "boot"
             /\ k.hi - k.lo + 1 <= n.hi - n.lo + 1
             /\ k.done => n.done
             /\ n.lo <= n.hi + 1
             /\ n.pc = "emit" => n.hi < LastCkpt
             /\ n.done => n.hi = LastCkpt
             /\ n.pc = "exit" \/ n.code = "zero" => n.done
             /\ f \in 0 .. LastCkpt
             /\ ~overlap[j] => file[j] <= f
             /\ file[j] > 0 => f > 0
             /\ n.resume \/ n.hi > 0 \/ n.pc = "emit" => f > 0
             /\ ~overlap[j] => n.hi <= f
             /\ ~overlap[j] /\ n.st = "running" =>
                  /\ n.pc = "compute" => f <= n.hi + 1
                  /\ n.pc = "emit" => f = n.hi + 1
<1>5. /\ New(file'[j])
      /\ overlap' = overlap
      /\ \A d \in Cids : d # c => cont'[d] = cont[d]
      /\ \A i \in Jobs : i # j => file'[i] = file[i]
  <2> USE DEF TypeOK, WorkerTypeOK
  <2>1. CASE WorkerBoot(c)
    <3> DEFINE from == IF k.resume THEN file[j] ELSE 0
               hi == IF from < LastCkpt THEN from ELSE LastCkpt - 1
    <3>1. /\ k.pc = "boot" /\ file' = file /\ overlap' = overlap
          /\ k.resume => from > 0
          /\ cont' = [cont EXCEPT ![c] = [@ EXCEPT !.pc = "compute",
                                                !.lo = hi + 1, !.hi = hi]]
      BY <2>1 DEF WorkerBoot
    <3>2. /\ n.st = k.st /\ n.job = j /\ n.resume = k.resume /\ n.pc = "compute"
          /\ n.lo = hi + 1 /\ n.hi = hi /\ n.done = k.done /\ n.code = k.code
          /\ \A d \in Cids : d # c => cont'[d] = cont[d]
      BY <1>1, <3>1 DEF Container
    <3>3. /\ hi \in 0 .. LastCkpt /\ hi + 1 \in 1 .. LastCkpt
          /\ k.hi - k.lo + 1 <= 0
          /\ ~overlap[j] => hi <= file[j] /\ file[j] <= hi + 1
          /\ hi > 0 => file[j] > 0
      <4>1. k.hi = 0 /\ k.hi - k.lo + 1 <= 0
        BY <1>1, <1>3, <3>1, LastCkptAssumption
      <4>2. from \in 0 .. LastCkpt
        BY <1>2, LastCkptAssumption
      <4>3. from > 0 => file[j] > 0
        BY <1>2
      <4>4. ~overlap[j] => from = file[j]
        BY <1>1, <1>4, <3>1
      <4> HIDE DEF from
      <4>5. /\ hi \in 0 .. LastCkpt /\ hi + 1 \in 1 .. LastCkpt
            /\ hi <= from /\ from <= hi + 1 /\ (hi > 0 => from > 0)
        BY <4>2, LastCkptAssumption
      <4> QED BY <4>1, <4>3, <4>4, <4>5
    <3> HIDE DEF hi, from
    <3>4. 0 <= n.hi - n.lo + 1 /\ n.lo <= n.hi + 1 /\ file[j] <= file[j]
      BY <1>2, <3>2, <3>3, LastCkptAssumption
    <3>5. k.hi - k.lo + 1 <= n.hi - n.lo + 1
      BY <1>1, <3>2, <3>3, LastCkptAssumption
    <3> QED BY <1>1, <1>2, <1>3, <1>4, <3>1, <3>2, <3>3, <3>4, <3>5 DEF Running
  <2>2. CASE WriteState(c)
    <3>1. /\ k.pc = "compute" /\ k.hi < LastCkpt /\ overlap' = overlap
          /\ file'[j] = k.hi + 1
          /\ \A i \in Jobs : i # j => file'[i] = file[i]
      BY <1>2, <2>2 DEF WriteState
    <3>2. /\ n.st = k.st /\ n.job = j /\ n.resume = k.resume /\ n.pc = "emit"
          /\ n.lo = k.lo /\ n.hi = k.hi /\ n.done = k.done /\ n.code = k.code
          /\ \A d \in Cids : d # c => cont'[d] = cont[d]
      BY <1>1, <2>2 DEF WriteState, Container
    <3>3. /\ k.hi + 1 \in 0 .. LastCkpt /\ k.hi + 1 > 0 /\ k.hi <= k.hi + 1
          /\ k.hi - k.lo + 1 <= k.hi - k.lo + 1
      BY <1>1, <3>1, LastCkptAssumption
    <3> QED BY <1>1, <1>2, <1>3, <1>4, <3>1, <3>2, <3>3 DEF Running
  <2>3. CASE EmitCheckpoint(c)
    <3>1. k.pc = "emit" /\ overlap' = overlap /\ file' = file
      BY <2>3 DEF EmitCheckpoint
    <3>2. /\ n.st = k.st /\ n.job = j /\ n.resume = k.resume /\ n.pc = "compute"
          /\ n.lo = k.lo /\ n.hi = k.hi + 1 /\ n.done = k.done /\ n.code = k.code
          /\ \A d \in Cids : d # c => cont'[d] = cont[d]
      BY <1>1, <2>3 DEF EmitCheckpoint, Container
    <3>3. /\ k.hi + 1 \in 0 .. LastCkpt /\ k.hi - k.lo + 1 <= (k.hi + 1) - k.lo + 1
          /\ ~k.done /\ k.lo <= (k.hi + 1) + 1
          /\ file[j] <= file[j]
          /\ ~overlap[j] => k.hi + 1 <= file[j] /\ file[j] <= (k.hi + 1) + 1
      BY <1>1, <1>2, <1>3, <1>4, <3>1, LastCkptAssumption
    <3> QED BY <1>1, <1>2, <1>3, <1>4, <3>1, <3>2, <3>3 DEF Running
  <2>4. CASE EmitCompleted(c) \/ WorkerExit(c)
    <3>1. overlap' = overlap /\ file' = file
      BY <2>4 DEF EmitCompleted, WorkerExit
    <3>2. /\ n.st \in {"running", "exited"} /\ n.job = j /\ n.resume = k.resume
          /\ n.pc = "exit" /\ n.lo = k.lo /\ n.hi = k.hi
          /\ n.done /\ k.hi = LastCkpt
          /\ \A d \in Cids : d # c => cont'[d] = cont[d]
      <4>1. CASE EmitCompleted(c)
        BY <1>1, <4>1 DEF EmitCompleted, Container, Running
      <4>2. CASE WorkerExit(c)
        <5>1. /\ n.st = "exited" /\ n.job = j /\ n.resume = k.resume
              /\ n.pc = k.pc /\ n.lo = k.lo /\ n.hi = k.hi /\ n.done = k.done
              /\ k.pc = "exit" /\ \A d \in Cids : d # c => cont'[d] = cont[d]
          BY <1>1, <4>2 DEF WorkerExit, Container
        <5> QED BY <1>3, <5>1
      <4> QED BY <2>4, <4>1, <4>2
    <3>3. k.hi - k.lo + 1 <= k.hi - k.lo + 1 /\ file[j] <= file[j]
      BY <1>1, <1>2, LastCkptAssumption
    <3> QED BY <1>1, <1>2, <1>3, <1>4, <3>1, <3>2, <3>3
  <2> QED BY <2>1, <2>2, <2>3, <2>4, Zenon DEF WorkerStep
<1>6. Works(c)
  BY <1>1, <1>2, <1>5 DEF Works
<1>7. ContainerInv'
  <2>1. cont'[c].st # "none" /\ cont'[c].job # None
    BY <1>2, <1>5, NoneAssumption
  <2>2. ASSUME NEW d \in Cids
        PROVE  /\ cont'[d].st = "none" <=> cont'[d].job = None
               /\ cont'[d].lo <= cont'[d].hi + 1
               /\ cont'[d].pc = "boot" => cont'[d].hi = 0 /\ ~cont'[d].done
               /\ cont'[d].pc = "emit" => cont'[d].hi < LastCkpt
               /\ cont'[d].done => cont'[d].hi = LastCkpt
               /\ cont'[d].pc = "exit" \/ cont'[d].code = "zero" => cont'[d].done
    <3>1. CASE d = c
      BY <1>5, <2>1, <3>1
    <3>2. CASE d # c
      <4>1. cont'[d] = cont[d]
        BY <1>5, <3>2
      <4> QED BY <4>1 DEF ContainerInv
    <3> QED BY <3>1, <3>2
  <2> QED BY <2>2 DEF ContainerInv
<1>8. FileInv'
  <2>1. ASSUME NEW d \in Cids, d # c, cont[d].st # "none" PROVE
        LET i == cont[d].job IN
        /\ cont[d].resume \/ cont[d].hi > 0 \/ cont[d].pc = "emit" => file'[i] > 0
        /\ ~overlap[i] => cont[d].hi <= file'[i]
        /\ ~overlap[i] /\ Running(d) =>
             /\ cont[d].pc = "boot" /\ ~cont[d].resume => file'[i] = 0
             /\ cont[d].pc = "compute" => file'[i] <= cont[d].hi + 1
             /\ cont[d].pc = "emit" => file'[i] = cont[d].hi + 1
    <3>1. cont[d].job \in Jobs /\ cont[d].hi \in 0 .. LastCkpt
      BY <2>1 DEF ContainerInv, TypeOK, WorkerTypeOK, Container
    <3>2. CASE cont[d].job # j
      BY <1>5, <2>1, <3>1, <3>2 DEF FileInv
    <3>3. CASE cont[d].job = j
      <4>1. ~overlap[j] => ~Running(d)
        BY <1>1, <2>1, <3>3 DEF SoleWorker
      <4>2. /\ cont[d].resume \/ cont[d].hi > 0 \/ cont[d].pc = "emit" => file[j] > 0
            /\ ~overlap[j] => cont[d].hi <= file[j]
        BY <2>1, <3>3 DEF FileInv
      <4>3. ~overlap[j] => cont[d].hi <= file'[j]
        BY <1>2, <1>5, <3>1, <4>2, LastCkptAssumption, SMTT(20), Z3T(20)
      <4> QED BY <1>5, <3>3, <4>1, <4>2, <4>3
    <3> QED BY <3>2, <3>3
  <2>2. \A d \in Cids : d # c => cont'[d] = cont[d]
    BY <1>5
  <2>3. SUFFICES ASSUME NEW d \in Cids, cont'[d].st # "none" PROVE
        LET i == cont'[d].job IN
        /\ cont'[d].resume \/ cont'[d].hi > 0 \/ cont'[d].pc = "emit" => file'[i] > 0
        /\ ~overlap'[i] => cont'[d].hi <= file'[i]
        /\ ~overlap'[i] /\ cont'[d].st = "running" =>
             /\ cont'[d].pc = "boot" /\ ~cont'[d].resume => file'[i] = 0
             /\ cont'[d].pc = "compute" => file'[i] <= cont'[d].hi + 1
             /\ cont'[d].pc = "emit" => file'[i] = cont'[d].hi + 1
    BY DEF FileInv, Running
  <2>4. CASE d = c
    BY <1>5, <2>4
  <2>5. CASE d # c
    BY <1>5, <2>1, <2>2, <2>3, <2>5 DEF Running
  <2> QED BY <2>4, <2>5
<1> QED BY <1>6, <1>7, <1>8

-----------------------------------------------------------------------------
(* Type correctness. *)

\* The records of a missing container and of goroutines that do not run
\* (Supervisor and docker.Client before any call) are well typed.
LEMMA NoneType ==
  /\ NoContainer \in Container
  /\ NoStart \in StartRec /\ NoStream \in StreamRec /\ NoCancel \in CancelRec
BY LastCkptAssumption
   DEF NoContainer, Container, NoStart, StartRec, NoStream, StreamRec,
       NoCancel, CancelRec

\* An empty database, no container and no controller are well typed.
LEMMA TypeInit == Init => TypeOK
BY NoneType, LastCkptAssumption, MaxBootsAssumption
   DEF Init, WorkerInit, SupervisorInit, NoStarts, NoStreams, NoCancels,
       NoSnap, NoLive, NoDrain,
       TypeOK, WorkerTypeOK, SupervisorTypeOK, RowState, Phase

\* A step of the worker in c.
LEMMA TypeWorker ==
  ASSUME NEW c \in Cids, TypeOK, ContainerInv, WorkerStep(c)
  PROVE  WorkerTypeOK'
<1> USE LastCkptAssumption DEF TypeOK, WorkerTypeOK
<1>0. cont[c] \in Container /\ cont[c].hi \in 0 .. LastCkpt
  BY DEF Container
<1>1. CASE WorkerBoot(c)
  <2> DEFINE from == IF cont[c].resume THEN file[cont[c].job] ELSE 0
             hi == IF from < LastCkpt THEN from ELSE LastCkpt - 1
  <2>1. CASE cont' = Killed(c)
    BY <1>1, <2>1, DockerType DEF WorkerBoot
  <2>2. CASE cont' = [cont EXCEPT ![c] = [@ EXCEPT !.pc = "compute",
                                             !.lo = hi + 1, !.hi = hi]]
    <3>1. cont[c].job \in Jobs
      BY <1>1 DEF WorkerBoot, Running, ContainerInv, Container
    <3>2. hi \in 0 .. LastCkpt /\ hi + 1 \in 1 .. LastCkpt
      BY <3>1
    <3>3. [cont[c] EXCEPT !.pc = "compute", !.lo = hi + 1, !.hi = hi] \in Container
      BY <1>0, <3>2, Zenon DEF Container
    <3> QED BY <1>1, <2>2, <3>3 DEF WorkerBoot
  <2> QED BY <1>1, <2>1, <2>2 DEF WorkerBoot
<1>2. CASE WriteState(c)
  <2>1. [cont[c] EXCEPT !.pc = "emit"] \in Container
    BY <1>0, Zenon DEF Container
  <2>2. cont[c].hi + 1 \in 0 .. LastCkpt
    BY <1>0, <1>2 DEF WriteState
  <2> QED BY <1>2, <2>1, <2>2, Zenon DEF WriteState
<1>3. CASE EmitCheckpoint(c)
  <2>1. cont[c].hi + 1 \in 0 .. LastCkpt
    BY <1>0, <1>3 DEF EmitCheckpoint, ContainerInv
  <2>2. [cont[c] EXCEPT !.pc = "compute", !.hi = cont[c].hi + 1] \in Container
    BY <1>0, <2>1, Zenon DEF Container
  <2> QED BY <1>3, <2>2 DEF EmitCheckpoint
<1>4. CASE EmitCompleted(c)
  <2>1. [cont[c] EXCEPT !.pc = "exit", !.done = TRUE] \in Container
    BY <1>0, Zenon DEF Container
  <2> QED BY <1>4, <2>1 DEF EmitCompleted
<1>5. CASE WorkerExit(c)
  <2>1. [cont[c] EXCEPT !.st = "exited", !.code = "zero"] \in Container
    BY <1>0, Zenon DEF Container
  <2> QED BY <1>5, <2>1 DEF WorkerExit
<1> QED BY <1>1, <1>2, <1>3, <1>4, <1>5 DEF WorkerStep

\* A record of a goroutine with one field changed.
LEMMA StartUpdate ==
  ASSUME NEW r \in StartRec, NEW pc \in {"none", "get", "run", "transition",
                                         "undo", "track", "fail"}
  PROVE  /\ [r EXCEPT !.pc = pc] \in StartRec
         /\ \A b \in BOOLEAN : [r EXCEPT !.pc = pc, !.resume = b] \in StartRec
         /\ \A c \in Cids : [r EXCEPT !.pc = pc, !.c = c] \in StartRec
BY Zenon DEF StartRec

\* The updates runStream makes to its own locals keep their type.
LEMMA StreamUpdate ==
  ASSUME NEW r \in StreamRec,
         NEW pc \in {"none", "attach", "read", "inspect", "markFailed",
                     "settle", "remove"}
  PROVE  /\ [r EXCEPT !.pc = pc] \in StreamRec
         /\ [r EXCEPT !.saw = TRUE] \in StreamRec
         /\ \A n \in 0 .. LastCkpt : [r EXCEPT !.n = n] \in StreamRec
         /\ \A b \in BOOLEAN : [r EXCEPT !.pc = pc, !.ok = b] \in StreamRec
BY Zenon DEF StreamRec

\* supervisor.track creates a well-typed tracker.
LEMMA TrackerType ==
  ASSUME NEW c \in Cids PROVE Tracker(c) \in StreamRec
BY NoneType, Zenon DEF Tracker, StreamRec

\* What callers of Start do with its error (api.go:221, recovery.go:83) keeps
\* the type of the Start goroutines.
LEMMA StartErrorType ==
  ASSUME NEW j \in Jobs, start \in [Jobs -> StartRec]
  PROVE  StartError(j) \in [Jobs -> StartRec]
<1>1. [start[j] EXCEPT !.pc = "fail"] \in StartRec
  BY StartUpdate, Zenon
<1> QED BY <1>1, NoneType DEF StartError

\* docker run yields a well-typed container.
LEMMA ContainerLaunched ==
  ASSUME NEW j \in Jobs, NEW p \in Nat, NEW b \in BOOLEAN
  PROVE  [NoContainer EXCEPT !.st = "running", !.job = j, !.pid = p,
                             !.resume = b] \in Container
BY NoneType, Zenon DEF Container

\* A step of Supervisor.Start keeps rows, goroutines and containers well typed.
LEMMA TypeStart ==
  ASSUME NEW j \in Jobs, NEW p \in Nat, TypeOK, StartStep(j, p),
         start[j].pc = "track" => start[j].c \in Cids
  PROVE  WorkerTypeOK' /\ SupervisorTypeOK'
<1> USE DEF TypeOK, WorkerTypeOK, SupervisorTypeOK
<1>0. start[j] \in StartRec /\ start[j].resume \in BOOLEAN
      /\ start[j].c \in Cids \cup {None}
  BY DEF StartRec
<1>1. CASE StartGet(j)
  <2>1. [start[j] EXCEPT !.pc = "run",
           !.resume = state[j] = "interrupted_resumable" /\ ckpt[j] # 0]
        \in StartRec
    BY <1>0, StartUpdate, Zenon
  <2>2. start' \in [Jobs -> StartRec]
    BY <1>1, <2>1, StartErrorType, Zenon DEF StartGet
  <2> QED BY <1>1, <2>2 DEF StartGet, rowVars, workerVars
<1>2. CASE StartRun(j, p)
  <2>1. ASSUME NEW c \in Cids, DockerRun(c, j, p, start[j].resume),
               start' = [start EXCEPT ![j] = [@ EXCEPT !.pc = "transition",
                                                       !.c = c]]
        PROVE  WorkerTypeOK' /\ start' \in [Jobs -> StartRec]
    <3>1. [start[j] EXCEPT !.pc = "transition", !.c = c] \in StartRec
      BY <1>0, StartUpdate, Zenon
    <3>2. cont' \in [Cids -> Container]
      BY <1>0, <2>1, ContainerLaunched, Zenon DEF DockerRun
    <3>3. overlap' \in [Jobs -> BOOLEAN] /\ file' = file
      BY <2>1 DEF DockerRun
    <3> QED BY <2>1, <3>1, <3>2, <3>3, Zenon
  <2>2. CASE start' = StartError(j) /\ UNCHANGED workerVars
    BY <1>2, <2>2, StartErrorType, Zenon DEF StartRun, rowVars, workerVars
  <2> QED BY <1>2, <2>1, <2>2, Zenon DEF StartRun, rowVars
<1>3. CASE StartTransition(j)
  <2>1. /\ [start[j] EXCEPT !.pc = "track"] \in StartRec
        /\ [start[j] EXCEPT !.pc = "undo"] \in StartRec
    BY <1>0, StartUpdate, Zenon
  <2>2. state' \in [Jobs -> RowState]
    BY <1>3, TransitionType DEF StartTransition, JobState
  <2>3. start' \in [Jobs -> StartRec] /\ cid' \in [Jobs -> Cids \cup {None}]
    BY <1>0, <1>3, <2>1, ZenonT(30) DEF StartTransition
  <2> QED BY <1>3, <2>2, <2>3 DEF StartTransition, workerVars
<1>4. CASE StartUndo(j)
  BY <1>4, StartErrorType, DockerType, Zenon DEF StartUndo, rowVars
<1>5. CASE StartTrack(j)
  <2>1. start[j].c \in Cids
    BY <1>5 DEF StartTrack
  <2> QED BY <1>5, <2>1, TrackerType, NoneType DEF StartTrack, rowVars, workerVars
<1>6. CASE StartFail(j)
  <2>1. state' \in [Jobs -> RowState]
    BY <1>6, TransitionType DEF StartFail, JobState, Terminal
  <2> QED BY <1>6, <2>1, NoneType DEF StartFail, workerVars
<1> QED BY <1>1, <1>2, <1>3, <1>4, <1>5, <1>6 DEF StartStep

\* A step of the log stream of j: the lines read never exceed the log.
LEMMA TypeStream ==
  ASSUME NEW j \in Jobs, TypeOK, ContainerInv, StreamStep(j),
         stream[j].pc # "none" => stream[j].c \in Cids
  PROVE  WorkerTypeOK' /\ SupervisorTypeOK'
<1> USE DEF TypeOK, WorkerTypeOK, SupervisorTypeOK
<1>0. stream[j] \in StreamRec /\ stream[j].saw \in BOOLEAN
      /\ stream[j].n \in 0 .. LastCkpt
  BY DEF StreamRec
<1>1. CASE StreamAttach(j)
  <2>1. /\ [stream[j] EXCEPT !.pc = "read"] \in StreamRec
        /\ [stream[j] EXCEPT !.pc = "markFailed"] \in StreamRec
    BY <1>0, StreamUpdate, Zenon
  <2>2. stream' \in [Jobs -> StreamRec]
    BY <1>1, <2>1, Zenon DEF StreamAttach
  <2> QED BY <1>1, <2>2 DEF StreamAttach, rowVars, workerVars
<1>2. CASE StreamCheckpoint(j)
  <2>1. stream[j].c \in Cids /\ cont[stream[j].c] \in Container
    BY <1>2 DEF StreamCheckpoint
  <2>2. /\ cont[stream[j].c].lo \in 1 .. LastCkpt
        /\ cont[stream[j].c].hi \in 0 .. LastCkpt
    BY <2>1 DEF Container
  <2>3. stream[j].n < cont[stream[j].c].hi - cont[stream[j].c].lo + 1
    BY <1>2 DEF StreamCheckpoint, Lines
  <2>4. /\ stream[j].n + 1 \in 0 .. LastCkpt
        /\ cont[stream[j].c].lo + stream[j].n \in 0 .. LastCkpt
    BY <1>0, <2>2, <2>3, LastCkptAssumption
  <2>5. [stream[j] EXCEPT !.n = stream[j].n + 1] \in StreamRec
    BY <1>0, <2>4, StreamUpdate, Zenon
  <2>6. ckpt' \in [Jobs -> Progress]
    BY <1>2, <2>4, Zenon DEF StreamCheckpoint, RecordCheckpoint
  <2> QED BY <1>2, <2>5, <2>6, Zenon DEF StreamCheckpoint, RecordCheckpoint, workerVars
<1>3. CASE StreamCompleted(j)
  <2>1. [stream[j] EXCEPT !.saw = TRUE] \in StreamRec
    BY <1>0, StreamUpdate, Zenon
  <2> QED BY <1>3, <2>1 DEF StreamCompleted, rowVars, workerVars
<1>4. CASE StreamEOF(j)
  <2>1. [stream[j] EXCEPT !.pc = "inspect"] \in StreamRec
    BY <1>0, StreamUpdate, Zenon
  <2> QED BY <1>4, <2>1 DEF StreamEOF, rowVars, workerVars
<1>5. CASE StreamInspect(j)
  <2>1. /\ [stream[j] EXCEPT !.pc = "markFailed"] \in StreamRec
        /\ [stream[j] EXCEPT !.pc = "settle",
              !.ok = cont[stream[j].c].code = "zero" \/ stream[j].saw] \in StreamRec
    BY <1>0, StreamUpdate, Zenon
  <2>2. stream' \in [Jobs -> StreamRec]
    BY <1>5, <2>1, NoneType, Zenon DEF StreamInspect
  <2> QED BY <1>5, <2>2 DEF StreamInspect, rowVars, workerVars
<1>6. CASE StreamMarkFailed(j)
  <2>1. state' \in [Jobs -> RowState]
    BY <1>6, TransitionType DEF StreamMarkFailed, JobState, Terminal
  <2> QED BY <1>6, <2>1, NoneType DEF StreamMarkFailed, workerVars
<1>7. CASE StreamSettle(j)
  <2>1. state' \in [Jobs -> RowState]
    BY <1>7, TransitionType DEF StreamSettle, JobState, Terminal
  <2>2. [stream[j] EXCEPT !.pc = "remove"] \in StreamRec
    BY <1>0, StreamUpdate, Zenon
  <2> QED BY <1>7, <2>1, <2>2 DEF StreamSettle, workerVars
<1>8. CASE StreamRemove(j)
  BY <1>8, NoneType, DockerType DEF StreamRemove, rowVars
<1> QED BY <1>1, <1>2, <1>3, <1>4, <1>5, <1>6, <1>7, <1>8 DEF StreamStep

\* createJob.
LEMMA TypeCreate ==
  ASSUME NEW j \in Jobs, TypeOK, CreateJob(j)
  PROVE  WorkerTypeOK' /\ SupervisorTypeOK'
<1>1. [NoStart EXCEPT !.pc = "get"] \in StartRec
  BY NoneType, StartUpdate, Zenon
<1> QED BY <1>1 DEF CreateJob, TypeOK, WorkerTypeOK, SupervisorTypeOK, RowState,
           JobState, workerVars

\* A step of the recovery scan.
LEMMA TypeScan ==
  ASSUME TypeOK, \A j \in liveUp : live[j] \in Cids, ScanStep
  PROVE  TypeOK'
<1> USE DEF TypeOK, WorkerTypeOK, SupervisorTypeOK, Phase, scanVars,
            supervisorVars, rowVars, goVars, workerVars
<1>1. CASE ReadJobs
  BY <1>1 DEF ReadJobs
<1>2. CASE ListLive
  BY <1>2 DEF ListLive, NoLive
<1>3. ASSUME NEW j \in Jobs, ScanAdopt(j) PROVE TypeOK'
  <2>1. Tracker(live[j]) \in StreamRec
    BY <1>3, TrackerType DEF ScanAdopt
  <2> QED BY <1>3, <2>1 DEF ScanAdopt, Scanning
<1>4. ASSUME NEW j \in Jobs PROVE Resume(j) \in [Jobs -> StartRec]
  <2>1. [NoStart EXCEPT !.pc = "get", !.by = "scan"] \in StartRec
    BY NoneType, Zenon DEF StartRec
  <2> QED BY <2>1 DEF Resume
<1>5. ASSUME NEW j \in Jobs, ScanResumable(j) PROVE TypeOK'
  <2>1. state' \in [Jobs -> RowState]
    BY <1>5, TransitionType DEF ScanResumable, JobState
  <2> QED BY <1>4, <1>5, <2>1 DEF ScanResumable, Scanning
<1>6. ASSUME NEW j \in Jobs, ScanUnresumable(j) PROVE TypeOK'
  <2>1. state' \in [Jobs -> RowState]
    BY <1>6, TransitionType DEF ScanUnresumable, JobState, Terminal
  <2> QED BY <1>6, <2>1 DEF ScanUnresumable, Scanning
<1>7. ASSUME NEW j \in Jobs, ScanInterrupted(j) PROVE TypeOK'
  BY <1>4, <1>7 DEF ScanInterrupted, Scanning
<1>8. ASSUME NEW j \in Jobs, ScanLeave(j) PROVE TypeOK'
  BY <1>8 DEF ScanLeave, Scanning
<1>9. CASE ScanDone
  BY <1>9, LastCkptAssumption DEF ScanDone, NoSnap, NoLive, RowState
<1> QED BY <1>1, <1>2, <1>3, <1>5, <1>6, <1>7, <1>8, <1>9, Zenon DEF ScanStep

\* A controller boots.
LEMMA TypeBoot ==
  ASSUME TypeOK, Boot PROVE TypeOK'
<1>1. pid' \in Nat /\ boots' \in 0 .. MaxBoots
  BY MaxBootsAssumption DEF Boot, TypeOK
<1> QED BY <1>1 DEF Boot, TypeOK, WorkerTypeOK, SupervisorTypeOK, Phase, scanVars,
           supervisorVars, rowVars, goVars, workerVars

\* The controller dies.
LEMMA TypeDie ==
  ASSUME TypeOK, Die PROVE TypeOK'
BY NoneType, LastCkptAssumption
   DEF Die, TypeOK, WorkerTypeOK, SupervisorTypeOK, Phase, rowVars, workerVars,
       NoStarts, NoStreams, NoCancels, NoSnap, NoLive, NoDrain, RowState

-----------------------------------------------------------------------------
(* The goroutines. *)

\* The tracker of j reads the log of a container of j, and has read no more
\* than is there.
Reading(j) ==
  /\ stream[j].c \in Cids /\ cont[stream[j].c].job = j
  /\ stream[j].n <= Lines(j)
  /\ stream[j].saw \/ stream[j].ok => cont[stream[j].c].done

\* What a step of runStream does to rows, containers and files: a line recorded
\* is a line printed, and a job settled as completed has a worker that printed
\* the completed line.
LEMMA StreamEffect ==
  ASSUME TypeOK, TypeOK', ContainerInv, FileInv, NEW j \in Jobs, StreamStep(j),
         stream[j].pc # "none" => Reading(j)
  PROVE  /\ stream[j].pc # "none" /\ start' = start /\ cancel' = cancel
         /\ Ended
         /\ \A k \in Jobs \ {j} : stream'[k] = stream[k] /\ state'[k] = state[k]
                                  /\ ckpt'[k] = ckpt[k]
         /\ stream'[j].pc # "none" => Reading(j)'
         /\ \/ ckpt'[j] = ckpt[j]
            \/ ckpt'[j] # 0 /\ file[j] > 0 /\ (overlap[j] \/ ckpt'[j] <= file[j])
         /\ \/ state'[j] = state[j]
            \/ state'[j] = "failed" /\ IsValidTransition(state[j], "failed")
            \/ /\ state'[j] = "completed" /\ IsValidTransition(state[j], "completed")
               /\ overlap[j] \/ file[j] = LastCkpt
<1> DEFINE c == stream[j].c
<1>0. stream[j] \in StreamRec
  BY DEF TypeOK, SupervisorTypeOK
<1>1. stream[j].pc # "none" /\ start' = start /\ cancel' = cancel
  BY DEF StreamStep, StreamAttach, StreamCheckpoint, StreamCompleted, StreamEOF,
         StreamInspect, StreamMarkFailed, StreamSettle, StreamRemove
<1>2. Ended
  <2>1. file' = file /\ overlap' = overlap
        /\ (cont' = cont \/ cont' = Removed(c))
    BY DEF StreamStep, StreamAttach, StreamCheckpoint, StreamCompleted, StreamEOF,
         StreamInspect, StreamMarkFailed, StreamSettle, StreamRemove, workerVars
  <2> QED BY <2>1, EndedBy
<1>3. /\ c \in Cids /\ cont[c].job = j /\ cont[c] \in Container
      /\ cont[c].st # "none"
      /\ stream[j].n <= Lines(j)
      /\ stream[j].saw \/ stream[j].ok => cont[c].done
  <2>1. /\ c \in Cids /\ cont[c].job = j /\ stream[j].n <= Lines(j)
        /\ stream[j].saw \/ stream[j].ok => cont[c].done
    BY <1>1 DEF Reading
  <2>2. cont[c] \in Container
    BY <2>1 DEF TypeOK, WorkerTypeOK
  <2>3. cont[c].st # "none"
    BY <2>1, NoneAssumption DEF ContainerInv
  <2> QED BY <2>1, <2>2, <2>3
<1>4. /\ cont[c].lo \in 1 .. LastCkpt /\ cont[c].hi \in 0 .. LastCkpt
      /\ stream[j].n \in 0 .. LastCkpt
  BY <1>0, <1>3 DEF Container, StreamRec
<1>5. \A k \in Jobs \ {j} : stream'[k] = stream[k] /\ state'[k] = state[k]
                            /\ ckpt'[k] = ckpt[k]
  <2>1. CASE state' = state
    BY <2>1 DEF StreamStep, StreamAttach, StreamCheckpoint, RecordCheckpoint,
         StreamCompleted,
         StreamEOF, StreamInspect, StreamMarkFailed, StreamSettle, StreamRemove,
         rowVars, TypeOK, SupervisorTypeOK
  <2>2. CASE StreamMarkFailed(j) \/ StreamSettle(j)
    BY <2>2 DEF StreamMarkFailed, StreamSettle, Transition, TypeOK,
         SupervisorTypeOK
  <2> QED BY <2>1, <2>2 DEF StreamStep, StreamAttach, StreamCheckpoint,
         StreamCompleted, StreamEOF, StreamInspect, StreamRemove, rowVars
<1>6. \/ ckpt'[j] = ckpt[j]
      \/ ckpt'[j] # 0 /\ file[j] > 0 /\ (overlap[j] \/ ckpt'[j] <= file[j])
  <2>1. \/ ckpt'[j] = ckpt[j]
        \/ /\ ckpt'[j] = cont[c].lo + stream[j].n
           /\ stream[j].n < Lines(j)
    BY DEF StreamStep, StreamAttach, StreamCheckpoint, RecordCheckpoint,
         StreamCompleted,
         StreamEOF, StreamInspect, StreamMarkFailed, StreamSettle, StreamRemove,
         rowVars, TypeOK, SupervisorTypeOK
  <2>2. CASE ckpt'[j] = cont[c].lo + stream[j].n /\ stream[j].n < Lines(j)
    <3>1. ckpt'[j] <= cont[c].hi /\ cont[c].hi > 0 /\ ckpt'[j] # 0
      BY <1>4, <2>2, LastCkptAssumption DEF Lines
    <3>2. /\ file[j] > 0 /\ file[j] \in 0 .. LastCkpt
          /\ ~overlap[j] => cont[c].hi <= file[j]
      BY <1>3, <3>1, Zenon DEF FileInv, TypeOK, WorkerTypeOK
    <3>3. ckpt'[j] \in 0 .. LastCkpt
      BY DEF TypeOK, SupervisorTypeOK
    <3>4. ~overlap[j] => ckpt'[j] <= file[j]
      <4> DEFINE r == ckpt'[j]  f == cont[c].hi  g == file[j]
      <4>1. /\ r \in 0 .. LastCkpt /\ f \in 0 .. LastCkpt /\ g \in 0 .. LastCkpt
            /\ r <= f
            /\ ~overlap[j] => f <= g
        BY <1>4, <3>1, <3>2, <3>3
      <4> HIDE DEF r, f, g
      <4>2. ~overlap[j] => r <= g
        BY <4>1, BackedStays, Zenon
      <4> QED BY <4>2 DEF r, g
    <3> QED BY <3>1, <3>2, <3>4
  <2> QED BY <2>1, <2>2
<1>7. stream'[j].pc # "none" => Reading(j)'
  <2>1. /\ stream'[j].pc # "none" => stream'[j].c = c
        /\ stream'[j].pc # "none" => stream'[j].n <= Lines(j)
        /\ stream'[j].pc # "none" /\ (stream'[j].saw \/ stream'[j].ok)
             => cont[c].done
    <3>1. CASE StreamCheckpoint(j)
      <4>1. stream[j].n < Lines(j)
        BY <3>1 DEF StreamCheckpoint
      <4>2. stream'[j] = [stream[j] EXCEPT !.n = stream[j].n + 1]
        BY <1>0, <3>1 DEF StreamCheckpoint, TypeOK, SupervisorTypeOK
      <4>3. stream[j].n + 1 <= Lines(j)
        BY <1>4, <4>1, LastCkptAssumption DEF Lines
      <4> QED BY <1>0, <1>3, <4>2, <4>3 DEF StreamRec
    <3>2. CASE StreamInspect(j)
      <4>1. \/ stream'[j] = [stream[j] EXCEPT !.pc = "markFailed"]
            \/ stream'[j] = NoStream
            \/ stream'[j] = [stream[j] EXCEPT !.pc = "settle",
                               !.ok = cont[c].code = "zero" \/ stream[j].saw]
        BY <1>0, <3>2 DEF StreamInspect, TypeOK, SupervisorTypeOK
      <4>2. cont[c].code = "zero" => cont[c].done
        BY <1>3 DEF ContainerInv
      <4>3. CASE stream'[j] = [stream[j] EXCEPT !.pc = "markFailed"]
        <5>1. /\ stream'[j].c = c /\ stream'[j].n = stream[j].n
              /\ stream'[j].saw = stream[j].saw /\ stream'[j].ok = stream[j].ok
          BY <1>0, <4>3, Zenon DEF StreamRec
        <5> QED BY <1>3, <5>1, Zenon
      <4>4. CASE stream'[j] = NoStream
        BY <4>4 DEF NoStream
      <4>5. CASE stream'[j] = [stream[j] EXCEPT !.pc = "settle",
                               !.ok = cont[c].code = "zero" \/ stream[j].saw]
        <5>1. /\ stream'[j].c = c /\ stream'[j].n = stream[j].n
              /\ stream'[j].saw = stream[j].saw
              /\ stream'[j].ok = (cont[c].code = "zero" \/ stream[j].saw)
          BY <1>0, <4>5 DEF StreamRec
        <5> QED BY <1>3, <4>2, <5>1, Zenon
      <4> QED BY <4>1, <4>3, <4>4, <4>5
    <3>3. CASE StreamAttach(j) \/ StreamEOF(j) \/ StreamSettle(j)
      <4>1. \/ stream'[j] = [stream[j] EXCEPT !.pc = "read"]
            \/ stream'[j] = [stream[j] EXCEPT !.pc = "markFailed"]
            \/ stream'[j] = [stream[j] EXCEPT !.pc = "inspect"]
            \/ stream'[j] = [stream[j] EXCEPT !.pc = "remove"]
        BY <1>0, <3>3 DEF StreamAttach, StreamEOF, StreamSettle, TypeOK,
           SupervisorTypeOK
      <4> QED BY <1>0, <1>3, <4>1 DEF StreamRec
    <3>4. CASE StreamCompleted(j)
      <4>1. /\ stream'[j] = [stream[j] EXCEPT !.saw = TRUE]
            /\ cont[c].done
        BY <1>0, <3>4 DEF StreamCompleted, TypeOK, SupervisorTypeOK
      <4> QED BY <1>0, <1>3, <4>1 DEF StreamRec
    <3>5. CASE StreamMarkFailed(j) \/ StreamRemove(j)
      <4>1. stream'[j] = NoStream
        BY <1>0, <3>5 DEF StreamMarkFailed, StreamRemove, TypeOK, SupervisorTypeOK
      <4> QED BY <4>1 DEF NoStream
    <3> QED BY <3>1, <3>2, <3>3, <3>4, <3>5, Zenon DEF StreamStep
  <2>2. /\ cont'[c].job = j /\ cont'[c].hi = cont[c].hi /\ cont'[c].lo = cont[c].lo
        /\ cont'[c].done = cont[c].done
    BY <1>2, <1>3 DEF Ended
  <2> QED BY <1>3, <2>1, <2>2, Zenon DEF Reading, Lines
<1>8. \/ state'[j] = state[j]
      \/ state'[j] = "failed" /\ IsValidTransition(state[j], "failed")
      \/ /\ state'[j] = "completed" /\ IsValidTransition(state[j], "completed")
         /\ overlap[j] \/ file[j] = LastCkpt
  <2>1. \/ state'[j] = state[j]
        \/ state'[j] = "failed" /\ IsValidTransition(state[j], "failed")
        \/ /\ state'[j] = "completed" /\ IsValidTransition(state[j], "completed")
           /\ stream[j].ok
    BY DEF StreamStep, StreamAttach, StreamCheckpoint, StreamCompleted, StreamEOF,
           StreamInspect, StreamMarkFailed, StreamSettle, StreamRemove, rowVars,
           Transition, TypeOK, SupervisorTypeOK
  <2>2. CASE stream[j].ok
    <3>1. cont[c].hi = LastCkpt /\ (~overlap[j] => cont[c].hi <= file[j])
      BY <1>3, <2>2 DEF ContainerInv, FileInv
    <3>2. file[j] \in 0 .. LastCkpt
      BY DEF TypeOK, WorkerTypeOK
    <3>3. overlap[j] \/ file[j] = LastCkpt
      BY <3>1, <3>2, LastCkptAssumption
    <3> QED BY <2>1, <3>3
  <2> QED BY <2>1, <2>2
<1> QED BY <1>1, <1>2, <1>5, <1>6, <1>7, <1>8, Zenon

\* Start moves on to record r, the row of j to state s, its tracker to q.
Moved(j, r, s, q) ==
  /\ start'[j] = r /\ state'[j] = s /\ stream'[j] = q
  /\ \A k \in Jobs \ {j} : start'[k] = start[k]
       /\ stream'[k] = stream[k] /\ state'[k] = state[k]

\* Supervisor.Start, all but a docker run that succeeds: what it does to rows,
\* containers and goroutines.
LEMMA StartEffect ==
  ASSUME TypeOK, NEW j \in Jobs, StartStep(j, pid),
         UNCHANGED workerVars \/ StartUndo(j)
  PROVE  /\ start[j].pc # "none" /\ ckpt' = ckpt /\ cancel' = cancel
         /\ Ended
         /\ \/ /\ start[j].pc = "get"
               /\ state[j] \in {"pending", "interrupted_resumable"}
               /\ Moved(j, [start[j] EXCEPT !.pc = "run",
                    !.resume = state[j] = "interrupted_resumable" /\ ckpt[j] # 0],
                    state[j], stream[j])
            \/ /\ start[j].by = "api"
               /\ Moved(j, [start[j] EXCEPT !.pc = "fail"], state[j], stream[j])
            \/ Moved(j, NoStart, state[j], stream[j])
            \/ /\ start[j].pc = "fail" /\ IsValidTransition(state[j], "failed")
               /\ Moved(j, NoStart, "failed", stream[j])
            \/ /\ start[j].pc = "transition"
               /\ IsValidTransition(state[j], "running")
               /\ Moved(j, [start[j] EXCEPT !.pc = "track"], "running", stream[j])
            \/ /\ start[j].pc = "transition"
               /\ Moved(j, [start[j] EXCEPT !.pc = "undo"], state[j], stream[j])
            \/ /\ start[j].pc = "track"
               /\ Moved(j, NoStart, state[j], Tracker(start[j].c))
<1>0. start[j] \in StartRec
  BY DEF TypeOK, SupervisorTypeOK
<1>1. start[j].pc # "none" /\ ckpt' = ckpt /\ cancel' = cancel
  BY Zenon DEF StartStep, StartGet, StartRun, StartTransition, StartUndo, StartTrack,
         StartFail, rowVars
<1>2. Ended
  <2>1. CASE UNCHANGED workerVars
    BY <2>1, EndedBy DEF workerVars
  <2>2. CASE StartUndo(j)
    BY <2>2, EndedBy DEF StartUndo
  <2> QED BY <2>1, <2>2
<1>3. /\ StartError(j)[j] = NoStart
         \/ /\ StartError(j)[j] = [start[j] EXCEPT !.pc = "fail"]
            /\ start[j].by = "api"
      /\ \A k \in Jobs \ {j} : StartError(j)[k] = start[k]
  BY <1>0 DEF StartError, TypeOK, SupervisorTypeOK, StartRec
<1> USE <1>0 DEF TypeOK, SupervisorTypeOK, Moved
<1>4. CASE StartGet(j)
  BY <1>1, <1>2, <1>3, <1>4 DEF StartGet, rowVars
<1>5. CASE StartRun(j, pid) /\ UNCHANGED workerVars
  <2>1. ASSUME NEW c \in Cids, DockerRun(c, j, pid, start[j].resume)
        PROVE  FALSE
    BY <1>5, <2>1 DEF DockerRun, workerVars, NoContainer, WorkerTypeOK
  <2> QED BY <1>1, <1>2, <1>3, <1>5, <2>1, Zenon DEF StartRun, rowVars
<1>6. CASE StartTransition(j)
  BY <1>1, <1>2, <1>6, Zenon DEF StartTransition, Transition
<1>7. CASE StartUndo(j)
  BY <1>1, <1>2, <1>3, <1>7 DEF StartUndo, rowVars
<1>8. CASE StartTrack(j)
  BY <1>1, <1>2, <1>8 DEF StartTrack, rowVars
<1>9. CASE StartFail(j)
  BY <1>1, <1>2, <1>9 DEF StartFail, Transition
<1> QED BY <1>4, <1>5, <1>6, <1>7, <1>8, <1>9, Zenon DEF StartStep

\* docker run of Supervisor.Start: a fresh worker only ever starts for a job
\* that has no state file, a resuming one only with it, and so the container
\* and file invariants are kept.
LEMMA Launched ==
  ASSUME TypeOK, ContainerInv, FileInv, SoleWorker,
         NEW j \in Jobs, NEW c \in Cids, NEW p, NEW resume \in BOOLEAN,
         DockerRun(c, j, p, resume),
         resume => file[j] > 0, ~resume => file[j] = 0
  PROVE  /\ ContainerInv' /\ FileInv' /\ SoleWorker'
         /\ cont[c].job = None /\ cont'[c].job = j
         /\ \A d \in Cids \ {c} : cont'[d] = cont[d]
         /\ \A k \in Jobs \ {j} : overlap'[k] = overlap[k]
         /\ file' = file /\ (~overlap'[j] => ~overlap[j])
<1>1. file' = file /\ cont[c].st = "none" /\ cont[c].job = None
  BY DEF DockerRun, ContainerInv
<1>3. /\ cont'[c] = [NoContainer EXCEPT !.st = "running", !.job = j, !.pid = p,
                                       !.resume = resume]
      /\ \A d \in Cids \ {c} : cont'[d] = cont[d]
      /\ \A k \in Jobs \ {j} : overlap'[k] = overlap[k]
      /\ ~overlap'[j] => ~overlap[j] /\ RunningFor(j) = {}
  BY Zenon DEF DockerRun, TypeOK, WorkerTypeOK
<1>4. /\ cont'[c].st = "running" /\ cont'[c].job = j
      /\ cont'[c].resume = resume /\ cont'[c].pc = "boot"
      /\ cont'[c].lo = 1 /\ cont'[c].hi = 0 /\ cont'[c].done = FALSE
      /\ cont'[c].code = "none"
  BY <1>3 DEF NoContainer
<1>5. j # None /\ \A k \in Jobs : k # None
  BY NoneAssumption
<1>6. ContainerInv'
  <2>1. ASSUME NEW d \in Cids, d # c PROVE cont'[d] = cont[d]
    BY <1>3, <2>1
  <2>2. cont'[c].lo <= cont'[c].hi + 1
    BY <1>4
  <2> QED BY <1>4, <1>5, <2>1, <2>2 DEF ContainerInv
<1>8. FileInv'
  <2>1. ASSUME NEW d \in Cids, d # c, cont[d].st # "none" PROVE
        /\ cont[d].job \in Jobs
        /\ cont[d].job = j /\ ~overlap'[j] => ~Running(d)
    <3>1. cont[d].job \in Jobs
      BY <2>1 DEF ContainerInv, TypeOK, WorkerTypeOK, Container
    <3> QED BY <1>3, <3>1 DEF RunningFor
  <2>2. file[j] \in 0 .. LastCkpt
    BY DEF TypeOK, WorkerTypeOK
  <2>3. ASSUME NEW d \in Cids, d # c, cont[d].st # "none" PROVE
        /\ cont[d].resume \/ cont[d].hi > 0 \/ cont[d].pc = "emit"
             => file[cont[d].job] > 0
        /\ ~overlap'[cont[d].job] => cont[d].hi <= file[cont[d].job]
        /\ ~overlap'[cont[d].job] /\ Running(d) =>
         /\ cont[d].pc = "boot" /\ ~cont[d].resume => file[cont[d].job] = 0
         /\ cont[d].pc = "compute" => file[cont[d].job] <= cont[d].hi + 1
         /\ cont[d].pc = "emit" => file[cont[d].job] = cont[d].hi + 1
    <3>1. ~overlap'[cont[d].job] => ~overlap[cont[d].job]
      BY <1>3, <2>1, <2>3
    <3> QED BY <2>1, <2>3, <3>1, Zenon DEF FileInv
  <2>4. ASSUME NEW d \in Cids, d # c PROVE cont'[d] = cont[d]
    BY <1>3, <2>4
  <2>5. /\ cont'[c].hi <= file[j] /\ ~(cont'[c].hi > 0)
        /\ cont'[c].resume => file[j] > 0
        /\ ~cont'[c].resume => file[j] = 0
    BY <1>4, <2>2, LastCkptAssumption
  <2> QED BY <1>1, <1>4, <2>3, <2>4, <2>5, Zenon DEF FileInv, Running
<1>9. SoleWorker'
  <2> SUFFICES ASSUME NEW d \in Cids, NEW e \in Cids, Running(d)', Running(e)',
                      cont'[d].job = cont'[e].job, ~overlap'[cont'[d].job], d # e
               PROVE  FALSE
    BY DEF SoleWorker
  <2>1. ASSUME NEW b \in Cids, b # c, Running(b)', cont'[b].job = j, ~overlap'[j]
        PROVE  FALSE
    BY <1>3, <2>1 DEF Running, RunningFor
  <2>2. d # c /\ e # c
    BY <1>4, <2>1
  <2>3. cont'[d] = cont[d] /\ cont'[e] = cont[e]
    BY <1>3, <2>2
  <2>4. cont[d].job \in Jobs
    BY <2>3 DEF Running, ContainerInv, TypeOK, WorkerTypeOK, Container
  <2>5. ~overlap[cont[d].job]
    BY <1>3, <2>3, <2>4
  <2> QED BY <2>3, <2>5 DEF SoleWorker, Running
<1> QED BY <1>1, <1>3, <1>4, <1>6, <1>8, <1>9

-----------------------------------------------------------------------------
(* A controller that shares its rows, state files and containers with      *)
(* another one (HA mode).  What it knows of a row it read may be stale by  *)
(* the time it acts: these are the facts about its goroutines that no step *)
(* of the other can take back.                                             *)

\* Some Start got as far as a container for j, or j has ended.
Begun(j) == state[j] \notin {"absent", "pending"}

PeerStream(j) == stream[j].pc # "none" => Reading(j) /\ Begun(j)

PeerStart(j) ==
  /\ start[j].pc # "none" => state[j] # "absent"
  /\ start[j].pc # "none" /\ start[j].by = "scan" => Begun(j)
  /\ start[j].pc = "run" /\ start[j].by = "scan" => start[j].resume
  /\ start[j].resume => file[j] > 0
  /\ start[j].pc \in {"transition", "undo", "track"}
       => start[j].c \in Cids /\ cont[start[j].c].job = j
  /\ start[j].pc = "track" => Begun(j)

PeerScan(j) ==
  /\ j \in todo /\ snap[j].state \notin {"absent", "pending"} => Begun(j)
  /\ j \in todo /\ snap[j].ckpt # 0 => ckpt[j] # 0
  /\ j \in liveUp => live[j] \in Cids /\ cont[live[j]].job = j

\* Until its docker run, a new job belongs to the request that created it.
PeerFresh(j) ==
  start[j].pc \in {"get", "run"} /\ start[j].by = "api"
    => state[j] = "pending" /\ Unlaunched(j)

PeerJob(j) == PeerStream(j) /\ PeerStart(j) /\ PeerScan(j) /\ PeerFresh(j)

\* What the rows, whoever writes them, say about the state files.
RowOK(j) ==
  /\ state[j] = "absent" => Unlaunched(j)
  /\ state[j] = "interrupted_resumable" => ckpt[j] # 0
  /\ ckpt[j] # 0 => file[j] > 0
  /\ overlap[j] \/ ckpt[j] <= file[j]
  /\ state[j] = "completed" /\ ~overlap[j] => file[j] = LastCkpt

Shared == ContainerInv /\ FileInv /\ SoleWorker /\ \A j \in Jobs : RowOK(j)

Peer == TypeOK /\ Shared /\ \A j \in Jobs : PeerJob(j)

\* The request that creates j is at work, in this controller.
Api(j) == start[j].pc # "none" /\ start[j].by = "api"

\* What one controller, or a worker, may do to what another controller knows.
Evolves ==
  /\ \A j \in Jobs : /\ state[j] # "absent" => state'[j] # "absent"
                     /\ Begun(j) => Begun(j)'
                     /\ IsTerminal(state[j]) => state'[j] = state[j]
                     /\ ckpt[j] # 0 => ckpt'[j] # 0
                     /\ file[j] > 0 => file'[j] > 0
  /\ \A c \in Cids : cont[c].job # None =>
       /\ cont'[c].job = cont[c].job
       /\ cont[c].hi - cont[c].lo + 1 <= cont'[c].hi - cont'[c].lo + 1
       /\ cont[c].done => cont'[c].done

\* A step leaves a job that is yet to be launched as it is.
Spared(j) ==
  state[j] = "pending" /\ Unlaunched(j) => state'[j] = "pending" /\ Unlaunched(j)'

\* What a step of this controller keeps: it touches the new jobs of its own
\* requests only, and a request only begins for a job that does not exist.
Considerate ==
  /\ Evolves
  /\ \A j \in Jobs : /\ Api(j) \/ Spared(j)
                     /\ Api(j)' => Api(j) \/ state[j] = "absent"

\* A step of the other controller, or of a worker, takes back nothing that
\* this controller relies on.
LEMMA PeerBeside ==
  ASSUME TypeOK, TypeOK', NEW j \in Jobs, PeerJob(j), Evolves,
         start'[j] = start[j], stream'[j] = stream[j], snap'[j] = snap[j],
         live'[j] = live[j], j \in todo' => j \in todo,
         j \in liveUp' => j \in liveUp,
         Api(j) => Spared(j)
  PROVE  PeerJob(j)'
<1>0. j # None
  BY NoneAssumption
<1>1. PeerStream(j)'
  <2> SUFFICES ASSUME stream[j].pc # "none" PROVE Reading(j)' /\ Begun(j)'
    BY Zenon DEF PeerStream
  <2> DEFINE d == stream[j].c
  <2>1. /\ d \in Cids /\ cont[d].job = j /\ stream[j].n <= Lines(j)
        /\ stream[j].saw \/ stream[j].ok => cont[d].done
        /\ Begun(j)
    BY Zenon DEF PeerJob, PeerStream, Reading
  <2>2. /\ cont'[d].job = j
        /\ cont[d].hi - cont[d].lo + 1 <= cont'[d].hi - cont'[d].lo + 1
        /\ cont[d].done => cont'[d].done
        /\ Begun(j)'
    BY <1>0, <2>1, Zenon DEF Evolves
  <2>3. cont[d] \in Container /\ cont'[d] \in Container /\ stream[j] \in StreamRec
    BY <2>1 DEF TypeOK, WorkerTypeOK, SupervisorTypeOK
  <2>4. stream[j].n <= cont'[d].hi - cont'[d].lo + 1
    <3> DEFINE r == stream[j]  k == cont[d]  m == cont'[d]
    <3>1. r.n <= k.hi - k.lo + 1
      BY <2>1, Zenon DEF Lines
    <3>2. k.hi - k.lo + 1 <= m.hi - m.lo + 1
      BY <2>2, Zenon
    <3>3. k \in Container /\ m \in Container /\ r \in StreamRec
      BY <2>3, Zenon
    <3> HIDE DEF r, k, m
    <3>4. r.n <= m.hi - m.lo + 1
      BY <3>1, <3>2, <3>3, LinesKept, Zenon
    <3> QED BY <3>4, Zenon DEF r, m
  <2> QED BY <2>1, <2>2, <2>4, Zenon DEF Reading, Lines
<1>2. PeerStart(j)'
  BY <1>0, Zenon DEF PeerJob, PeerStart, Evolves
<1>3. PeerScan(j)'
  BY <1>0, Zenon DEF PeerJob, PeerScan, Evolves
<1>4. PeerFresh(j)'
  BY Zenon DEF PeerJob, PeerFresh, Api, Spared
<1> QED BY <1>1, <1>2, <1>3, <1>4 DEF PeerJob

\* A step that ends containers at most, and disturbs one job.
LEMMA PeerLocal ==
  ASSUME Peer, TypeOK', Ended, NEW j \in Jobs,
         \A k \in Jobs \ {j} : /\ state'[k] = state[k] /\ ckpt'[k] = ckpt[k]
                               /\ start'[k] = start[k] /\ stream'[k] = stream[k]
                               /\ k \in todo' => k \in todo,
         snap' = snap, live' = live, liveUp' = liveUp,
         PeerJob(j)', RowOK(j)',
         state[j] # "absent" => state'[j] # "absent",
         Begun(j) => Begun(j)', ckpt[j] # 0 => ckpt'[j] # 0,
         IsTerminal(state[j]) => state'[j] = state[j],
         Api(j) \/ Spared(j), Api(j)' => Api(j) \/ state[j] = "absent"
  PROVE  Peer' /\ Considerate
<1>1. /\ TypeOK /\ ContainerInv /\ FileInv /\ SoleWorker
      /\ \A k \in Jobs : RowOK(k) /\ PeerJob(k)
  BY Zenon DEF Peer, Shared
<1>2. ContainerInv' /\ FileInv' /\ SoleWorker'
  BY <1>1, EndedKeeps, Zenon
<1>3. ASSUME NEW k \in Jobs
      PROVE  Unlaunched(k) /\ ckpt'[k] = ckpt[k] => Unlaunched(k)'
  BY Zenon DEF Unlaunched, Ended
<1>4. ASSUME NEW k \in Jobs, k # j
      PROVE  /\ RowOK(k)' /\ Spared(k) /\ (Begun(k) => Begun(k)')
             /\ Api(k)' => Api(k)
  BY <1>1, <1>3, <1>4, Zenon DEF RowOK, Spared, Begun, Api, Ended
<1>5. Evolves
  <2>1. ASSUME NEW c \in Cids
        PROVE  /\ cont'[c].job = cont[c].job
               /\ cont[c].hi - cont[c].lo + 1 <= cont'[c].hi - cont'[c].lo + 1
               /\ cont[c].done => cont'[c].done
    <3>1. cont[c] \in Container
      BY <1>1, Zenon DEF TypeOK, WorkerTypeOK
    <3>2. cont'[c].lo = cont[c].lo /\ cont'[c].hi = cont[c].hi
      BY Zenon DEF Ended
    <3>3. cont[c].hi - cont[c].lo + 1 <= cont'[c].hi - cont'[c].lo + 1
      BY <3>1, <3>2, LineCount, Zenon
    <3> QED BY <3>3 DEF Ended
  <2>2. file' = file
    BY DEF Ended
  <2> QED BY <1>4, <2>1, <2>2, Zenon DEF Evolves
<1>6. ASSUME NEW k \in Jobs, k # j PROVE PeerJob(k)'
  BY <1>1, <1>4, <1>5, <1>6, PeerBeside, Zenon
<1>7. Peer'
  BY <1>2, <1>4, <1>6, Zenon DEF Peer, Shared
<1>8. Considerate
  BY <1>4, <1>5, Zenon DEF Considerate
<1> QED BY <1>7, <1>8, Zenon

\* runStream of a peer: it may settle a job that the other controller has
\* moved on, and the table of transitions decides.
LEMMA PeerStreamStep ==
  ASSUME Peer, NEW j \in Jobs, StreamStep(j), UNCHANGED mainVars
  PROVE  Peer' /\ Considerate
<1>1. /\ TypeOK /\ ContainerInv /\ FileInv /\ SoleWorker
      /\ RowOK(j) /\ PeerJob(j)
  BY DEF Peer, Shared
<1>2. stream[j].pc # "none" => Reading(j) /\ stream[j].c \in Cids
  BY <1>1, Zenon DEF PeerJob, PeerStream, Reading
<1>3. TypeOK'
  <2>1. WorkerTypeOK' /\ SupervisorTypeOK'
    BY <1>1, <1>2, TypeStream
  <2> QED BY <1>1, <2>1 DEF TypeOK, mainVars, scanVars
<1>4. /\ stream[j].pc # "none" /\ start' = start
      /\ Ended
      /\ \A k \in Jobs \ {j} : stream'[k] = stream[k] /\ state'[k] = state[k]
                               /\ ckpt'[k] = ckpt[k]
      /\ stream'[j].pc # "none" => Reading(j)'
      /\ \/ ckpt'[j] = ckpt[j]
         \/ ckpt'[j] # 0 /\ file[j] > 0 /\ (overlap[j] \/ ckpt'[j] <= file[j])
      /\ \/ state'[j] = state[j]
         \/ state'[j] = "failed" /\ IsValidTransition(state[j], "failed")
         \/ /\ state'[j] = "completed" /\ IsValidTransition(state[j], "completed")
            /\ overlap[j] \/ file[j] = LastCkpt
  BY <1>1, <1>2, <1>3, StreamEffect, Zenon
<1>5. /\ todo' = todo /\ snap' = snap /\ live' = live /\ liveUp' = liveUp
  BY DEF mainVars, scanVars
<1>6. Begun(j) /\ Begun(j)'
  BY <1>1, <1>4, Zenon DEF PeerJob, PeerStream, Begun
<1>7. PeerStream(j)'
  BY <1>4, <1>6, Zenon DEF PeerStream
<1>8. \A d \in Cids : cont'[d].job = cont[d].job
  BY <1>4 DEF Ended
<1>9. PeerStart(j)'
  BY <1>1, <1>4, <1>6, <1>8, Zenon DEF PeerJob, PeerStart, Begun, Ended
<1>10. PeerScan(j)'
  BY <1>1, <1>4, <1>5, <1>6, <1>8, Zenon DEF PeerJob, PeerScan
<1>11. PeerFresh(j)'
  BY <1>1, <1>4, <1>6, Zenon DEF PeerJob, PeerFresh, Begun
<1>12. RowOK(j)'
  BY <1>1, <1>4, <1>6, Zenon DEF RowOK, Begun, Ended
<1>13. (Api(j) \/ Spared(j)) /\ (Api(j)' => Api(j))
  BY <1>4, <1>6, Zenon DEF Spared, Begun, Api
<1>14. IsTerminal(state[j]) => state'[j] = state[j]
  BY <1>1, <1>4, ValidFrom, Zenon
  DEF IsTerminal, JobState, Terminal, TypeOK, SupervisorTypeOK
<1> QED BY <1>3, <1>4, <1>5, <1>6, <1>7, <1>9, <1>10, <1>11, <1>12, <1>13, <1>14,
           PeerLocal, Zenon DEF PeerJob, Begun

\* Supervisor.Start of a peer, all but a docker run that succeeds.
LEMMA PeerStartStep ==
  ASSUME Peer, NEW j \in Jobs, StartStep(j, pid), UNCHANGED mainVars,
         UNCHANGED workerVars \/ StartUndo(j)
  PROVE  Peer' /\ Considerate
<1>1. /\ TypeOK /\ ContainerInv /\ FileInv /\ SoleWorker
      /\ RowOK(j) /\ PeerJob(j) /\ PeerStart(j) /\ PeerFresh(j)
      /\ start[j] \in StartRec /\ start[j].by \in {"api", "scan"}
  BY DEF Peer, Shared, PeerJob, TypeOK, SupervisorTypeOK, StartRec
<1>2. TypeOK'
  <2>1. WorkerTypeOK' /\ SupervisorTypeOK'
    BY <1>1, TypeStart, Zenon DEF PeerStart, TypeOK
  <2> QED BY <1>1, <2>1, Zenon DEF TypeOK, mainVars, scanVars
<1>3. /\ todo' = todo /\ snap' = snap /\ live' = live /\ liveUp' = liveUp
  BY DEF mainVars, scanVars
<1> DEFINE Reads ==
             /\ start[j].pc = "get"
             /\ state[j] \in {"pending", "interrupted_resumable"}
             /\ Moved(j, [start[j] EXCEPT !.pc = "run",
                  !.resume = state[j] = "interrupted_resumable" /\ ckpt[j] # 0],
                  state[j], stream[j])
           Errs == /\ start[j].by = "api"
                   /\ Moved(j, [start[j] EXCEPT !.pc = "fail"], state[j], stream[j])
           Fails == /\ IsValidTransition(state[j], "failed")
                    /\ Moved(j, NoStart, "failed", stream[j])
           Runs == /\ start[j].pc = "transition"
                   /\ IsValidTransition(state[j], "running")
                   /\ Moved(j, [start[j] EXCEPT !.pc = "track"], "running", stream[j])
           Loses == /\ start[j].pc = "transition"
                    /\ Moved(j, [start[j] EXCEPT !.pc = "undo"], state[j], stream[j])
           Tracks == /\ start[j].pc = "track"
                     /\ Moved(j, NoStart, state[j], Tracker(start[j].c))
<1>4. /\ start[j].pc # "none" /\ ckpt' = ckpt /\ file' = file /\ overlap' = overlap
      /\ Ended
      /\ \/ Reads \/ Errs \/ Moved(j, NoStart, state[j], stream[j])
         \/ Fails \/ Runs \/ Loses \/ Tracks
  BY <1>1, StartEffect, Zenon DEF Ended
<1>5. /\ \A d \in Cids : cont'[d].job = cont[d].job
      /\ Unlaunched(j) => Unlaunched(j)'
  BY <1>4 DEF Ended, Unlaunched
<1>6. /\ \A k \in Jobs \ {j} : start'[k] = start[k] /\ stream'[k] = stream[k]
                               /\ state'[k] = state[k]
      /\ state'[j] = state[j] \/ state'[j] = "failed" \/ state'[j] = "running"
      /\ stream'[j] = stream[j] \/ Tracks
  BY <1>4 DEF Moved
<1>7. /\ state'[j] # "absent" /\ (Begun(j) => Begun(j)')
  BY <1>1, <1>4, <1>6 DEF PeerStart, Begun
<1>8. PeerStart(j)' /\ PeerFresh(j)' /\ (Api(j)' => Api(j))
  <2>1. CASE start'[j] = NoStart
    <3>1. start'[j].pc = "none" /\ ~start'[j].resume
      BY <2>1, Shapes, Zenon
    <3> QED BY <3>1, Zenon DEF PeerStart, PeerFresh, Api
  <2>2. CASE Reads
    <3>1. /\ start'[j].pc = "run" /\ start'[j].by = start[j].by
          /\ start'[j].resume = (state[j] = "interrupted_resumable" /\ ckpt[j] # 0)
          /\ state'[j] = state[j]
      BY <1>1, <2>2 DEF StartRec, Moved
    <3>2. /\ start[j].by = "scan" => state[j] = "interrupted_resumable" /\ Begun(j)
          /\ state[j] = "interrupted_resumable" => ckpt[j] # 0
          /\ ckpt[j] # 0 => file[j] > 0
          /\ start[j].by = "api" => state[j] = "pending" /\ Unlaunched(j)
      BY <1>1, <2>2 DEF PeerStart, PeerFresh, RowOK, Begun
    <3>3. PeerStart(j)'
      BY <1>4, <1>7, <3>1, <3>2, Zenon DEF PeerStart
    <3>4. PeerFresh(j)'
      BY <1>5, <3>1, <3>2 DEF PeerFresh
    <3>5. Api(j)' => Api(j)
      BY <2>2, <3>1 DEF Api
    <3> QED BY <3>3, <3>4, <3>5
  <2>3. CASE Errs
    <3>1. /\ start'[j].pc = "fail" /\ start'[j].by = "api"
          /\ start'[j].resume = start[j].resume
      BY <1>1, <2>3 DEF StartRec, Moved
    <3> QED BY <1>1, <1>4, <1>7, <2>3, <3>1 DEF PeerStart, PeerFresh, Api
  <2>4. CASE Runs \/ Loses
    <3>1. /\ \/ start'[j].pc = "track" /\ state'[j] = "running"
             \/ start'[j].pc = "undo"
          /\ start'[j].c = start[j].c /\ start'[j].resume = start[j].resume
          /\ start'[j].by = start[j].by /\ start[j].pc = "transition"
      BY <1>1, <2>4 DEF StartRec, Moved
    <3> QED BY <1>1, <1>4, <1>5, <1>7, <3>1 DEF PeerStart, PeerFresh, Api, Begun
  <2> QED BY <1>4, <2>1, <2>2, <2>3, <2>4 DEF Moved
<1>9. PeerStream(j)'
  <2>1. CASE stream'[j] = stream[j]
    BY <1>1, <1>4, <1>7, <2>1 DEF PeerJob, PeerStream, Reading, Lines, Ended
  <2>2. CASE Tracks
    <3> DEFINE c == start[j].c
    <3>1. c \in Cids /\ cont[c].job = j /\ Begun(j)
      BY <1>1, <2>2, Zenon DEF PeerStart
    <3>2. cont[c] \in Container /\ cont[c].lo <= cont[c].hi + 1
      BY <1>1, <3>1, Zenon DEF TypeOK, WorkerTypeOK, ContainerInv
    <3>3. /\ stream'[j].c = c /\ stream'[j].n = 0
          /\ stream'[j].saw = FALSE /\ stream'[j].ok = FALSE
      BY <2>2 DEF Tracker, NoStream, Moved
    <3>4. 0 <= cont[c].hi - cont[c].lo + 1
      BY <3>2, LinesCounted, Zenon
    <3>5. /\ cont'[c].job = j /\ cont'[c].hi = cont[c].hi
          /\ cont'[c].lo = cont[c].lo
      BY <1>4, <3>1 DEF Ended
    <3> QED BY <1>7, <3>1, <3>3, <3>4, <3>5 DEF PeerStream, Reading, Lines
  <2> QED BY <1>6, <2>1, <2>2
<1>10. PeerScan(j)'
  BY <1>1, <1>3, <1>4, <1>5, <1>7 DEF PeerJob, PeerScan
<1>11. RowOK(j)'
  BY <1>1, <1>4, <1>6, <1>7 DEF RowOK
<1>12. Api(j) \/ Spared(j)
  BY <1>1, <1>4 DEF Api, Spared, PeerStart, Begun
<1>13. IsTerminal(state[j]) => state'[j] = state[j]
  <2>1. \/ state'[j] = state[j]
        \/ IsValidTransition(state[j], "failed") /\ state'[j] = "failed"
        \/ IsValidTransition(state[j], "running") /\ state'[j] = "running"
    BY <1>4 DEF Moved
  <2> QED BY <1>1, <2>1, ValidFrom
          DEF IsTerminal, JobState, Terminal, TypeOK, SupervisorTypeOK
<1> HIDE DEF Reads, Errs, Fails, Runs, Loses, Tracks
<1> QED BY <1>2, <1>3, <1>4, <1>6, <1>7, <1>8, <1>9, <1>10, <1>11, <1>12, <1>13,
           PeerLocal, Zenon DEF PeerJob

\* A docker run of a peer: whether it resumes was decided when the row was
\* read, and neither a state file nor its absence before the first launch can
\* have changed since.
LEMMA PeerLaunch ==
  ASSUME Peer, NEW j \in Jobs, NEW c \in Cids, UNCHANGED mainVars,
         start[j].pc = "run", DockerRun(c, j, pid, start[j].resume),
         start' = [start EXCEPT ![j] = [@ EXCEPT !.pc = "transition", !.c = c]],
         UNCHANGED <<rowVars, stream, cancel>>
  PROVE  Peer' /\ Considerate
<1>1. /\ TypeOK /\ ContainerInv /\ FileInv /\ SoleWorker
      /\ \A k \in Jobs : RowOK(k) /\ PeerJob(k)
      /\ PeerStart(j) /\ PeerFresh(j)
      /\ start[j] \in StartRec /\ start[j].by \in {"api", "scan"}
      /\ start[j].resume \in BOOLEAN /\ pid \in Nat
  BY DEF Peer, Shared, PeerJob, TypeOK, SupervisorTypeOK, StartRec
<1>2. TypeOK'
  <2>1. StartStep(j, pid)
    BY Zenon DEF StartStep, StartRun
  <2>2. WorkerTypeOK' /\ SupervisorTypeOK'
    BY <1>1, <2>1, TypeStart
  <2> QED BY <1>1, <2>2 DEF TypeOK, mainVars, scanVars
<1>3. /\ state' = state /\ ckpt' = ckpt /\ stream' = stream
      /\ todo' = todo /\ snap' = snap /\ live' = live /\ liveUp' = liveUp
  BY DEF rowVars, mainVars, scanVars
<1>4. /\ start'[j].pc = "transition" /\ start'[j].c = c
      /\ start'[j].resume = start[j].resume /\ start'[j].by = start[j].by
      /\ \A k \in Jobs \ {j} : start'[k] = start[k]
  BY <1>1 DEF TypeOK, SupervisorTypeOK, StartRec
<1>5. /\ start[j].resume => file[j] > 0
      /\ ~start[j].resume => file[j] = 0
  BY <1>1 DEF PeerStart, PeerFresh, Unlaunched
<1>6. /\ ContainerInv' /\ FileInv' /\ SoleWorker'
      /\ cont[c].job = None /\ cont'[c].job = j
      /\ \A d \in Cids \ {c} : cont'[d] = cont[d]
      /\ \A k \in Jobs \ {j} : overlap'[k] = overlap[k]
      /\ file' = file /\ (~overlap'[j] => ~overlap[j])
  BY <1>1, <1>5, Launched
<1>7. \A k \in Jobs : k # None
  BY NoneAssumption
<1>8. ASSUME NEW k \in Jobs, k # j, Unlaunched(k) PROVE Unlaunched(k)'
  <2>1. ASSUME NEW d \in Cids PROVE cont'[d].job # k
    BY <1>6, <1>8, <2>1 DEF Unlaunched
  <2> QED BY <1>3, <1>6, <1>8, <2>1 DEF Unlaunched
<1>9. ASSUME NEW k \in Jobs PROVE RowOK(k)'
  <2>1. state[j] # "absent"
    BY <1>1 DEF PeerStart
  <2>2. overlap[k] => overlap'[k]
    BY <1>2, <1>1, <1>6 DEF TypeOK, WorkerTypeOK
  <2>3. state[k] = "absent" => Unlaunched(k)'
    BY <1>1, <1>8, <2>1 DEF RowOK
  <2> QED BY <1>1, <1>3, <1>6, <2>2, <2>3 DEF RowOK
<1>10. Evolves
  <2>1. ASSUME NEW d \in Cids, cont[d].job # None
        PROVE  /\ cont'[d].job = cont[d].job
               /\ cont[d].hi - cont[d].lo + 1 <= cont'[d].hi - cont'[d].lo + 1
               /\ cont[d].done => cont'[d].done
    <3>1. cont'[d] = cont[d] /\ cont[d] \in Container
      BY <1>1, <1>6, <2>1 DEF TypeOK, WorkerTypeOK
    <3> QED BY <3>1, LineCount, Zenon
  <2> QED BY <1>3, <1>6, <2>1 DEF Evolves, Begun
<1>11. ASSUME NEW k \in Jobs
       PROVE  /\ Api(k) \/ Spared(k)
              /\ Api(k)' => Api(k)
  <2>1. CASE k # j
    BY <1>3, <1>4, <1>8, <2>1 DEF Api, Spared
  <2>2. CASE k = j
    BY <1>1, <1>4, <2>2 DEF Api, Spared, PeerStart, Begun
  <2> QED BY <2>1, <2>2
<1>12. ASSUME NEW k \in Jobs, k # j PROVE PeerJob(k)'
  <2>1. Spared(k)
    BY <1>3, <1>8, <1>12 DEF Spared
  <2> QED BY <1>1, <1>2, <1>3, <1>4, <1>10, <1>12, <2>1, PeerBeside
<1>13. PeerJob(j)'
  <2>1. \A d \in Cids : cont[d].job = j => cont'[d] = cont[d]
    BY <1>6, <1>7
  <2>2. PeerStream(j)' /\ PeerScan(j)'
    BY <1>1, <1>3, <2>1 DEF PeerJob, PeerStream, PeerScan, Reading, Lines, Begun
  <2>3. PeerStart(j)' /\ PeerFresh(j)'
    BY <1>1, <1>3, <1>4, <1>6 DEF PeerStart, PeerFresh, Begun
  <2> QED BY <2>2, <2>3 DEF PeerJob
<1>14. Peer'
  BY <1>2, <1>6, <1>9, <1>12, <1>13 DEF Peer, Shared
<1> QED BY <1>10, <1>11, <1>14 DEF Considerate

\* The goroutines of a peer.
LEMMA PeerGo ==
  ASSUME Peer, NEW j \in Jobs, StartStep(j, pid) \/ StreamStep(j), UNCHANGED mainVars
  PROVE  Peer' /\ Considerate
<1>1. CASE StreamStep(j)
  BY <1>1, PeerStreamStep
<1>2. CASE StartStep(j, pid) /\ (UNCHANGED workerVars \/ StartUndo(j))
  BY <1>2, PeerStartStep
<1>3. CASE StartRun(j, pid) /\ ~(UNCHANGED workerVars)
  BY <1>3, PeerLaunch, Zenon DEF StartRun
<1> QED BY <1>1, <1>2, <1>3 DEF StartStep, StartGet, StartTransition, StartTrack,
           StartFail

\* createJob of a peer: INSERT fails for a row that exists, whoever made it.
LEMMA PeerCreate ==
  ASSUME Peer, NEW j \in Jobs, CreateJob(j), UNCHANGED mainVars
  PROVE  Peer' /\ Considerate
<1>1. TypeOK /\ RowOK(j) /\ PeerJob(j)
  BY DEF Peer, Shared
<1>2. TypeOK'
  <2>1. WorkerTypeOK' /\ SupervisorTypeOK'
    BY <1>1, TypeCreate
  <2> QED BY <1>1, <2>1 DEF TypeOK, mainVars, scanVars
<1>3. /\ todo' = todo /\ snap' = snap /\ live' = live /\ liveUp' = liveUp
      /\ ckpt' = ckpt /\ stream' = stream /\ file' = file /\ cont' = cont
      /\ overlap' = overlap /\ state[j] = "absent" /\ state'[j] = "pending"
      /\ start'[j].pc = "get" /\ start'[j].by = "api" /\ start'[j].resume = FALSE
      /\ \A k \in Jobs \ {j} : start'[k] = start[k] /\ state'[k] = state[k]
  BY <1>1 DEF CreateJob, mainVars, scanVars, workerVars, TypeOK, SupervisorTypeOK,
     NoStart
<1>4. Ended
  BY <1>1, <1>3, EndedBy, Zenon
<1>5. Unlaunched(j) /\ Unlaunched(j)'
  BY <1>1, <1>3, Zenon DEF RowOK, Unlaunched
<1>6. PeerJob(j)'
  BY <1>1, <1>3, <1>5, Zenon
     DEF PeerJob, PeerStream, PeerStart, PeerScan, PeerFresh, Begun
<1>7. RowOK(j)'
  BY <1>1, <1>3, Zenon DEF RowOK
<1>8. Spared(j) /\ ~Begun(j) /\ ~IsTerminal(state[j])
  BY <1>3, Zenon DEF Spared, Begun, IsTerminal, Terminal
<1> QED BY <1>2, <1>3, <1>4, <1>6, <1>7, <1>8, PeerLocal

\* A step of a peer that leaves rows, containers and state files alone.
LEMMA PeerQuiet ==
  ASSUME Peer, TypeOK', UNCHANGED <<rowVars, workerVars>>,
         \A k \in Jobs : PeerJob(k)' /\ (Api(k)' => Api(k))
  PROVE  Peer' /\ Considerate
<1>1. /\ TypeOK /\ ContainerInv /\ FileInv /\ SoleWorker
      /\ \A k \in Jobs : RowOK(k)
  BY DEF Peer, Shared
<1>2. /\ state' = state /\ ckpt' = ckpt /\ file' = file /\ cont' = cont
      /\ overlap' = overlap
  BY DEF rowVars, workerVars
<1>3. Ended
  BY <1>1, <1>2, EndedBy
<1>4. ContainerInv' /\ FileInv' /\ SoleWorker'
  BY <1>1, <1>3, EndedKeeps
<1>5. \A k \in Jobs : RowOK(k)' /\ Spared(k)
  BY <1>1, <1>2, Zenon DEF RowOK, Unlaunched, Spared
<1>6. Evolves
  <2>1. \A c \in Cids : cont[c].hi - cont[c].lo + 1 <= cont[c].hi - cont[c].lo + 1
    <3> SUFFICES ASSUME NEW c \in Cids
                 PROVE  cont[c].hi - cont[c].lo + 1 <= cont[c].hi - cont[c].lo + 1
      OBVIOUS
    <3>1. cont[c] \in Container
      BY <1>1 DEF TypeOK, WorkerTypeOK
    <3> QED BY <3>1, LineCount, Zenon
  <2> QED BY <1>2, <2>1 DEF Evolves, Begun
<1> QED BY <1>4, <1>5, <1>6 DEF Peer, Shared, Considerate

\* main() of a peer boots or is killed.
LEMMA PeerBoot ==
  ASSUME Peer, Boot \/ Die
  PROVE  Peer' /\ Considerate
<1>1. TypeOK /\ \A k \in Jobs : PeerJob(k)
  BY DEF Peer
<1>2. TypeOK'
  BY <1>1, TypeBoot, TypeDie
<1>3. UNCHANGED <<rowVars, workerVars>>
  BY DEF Boot, Die, supervisorVars
<1>4. ASSUME NEW k \in Jobs PROVE PeerJob(k)' /\ (Api(k)' => Api(k))
  <2>1. CASE Boot
    <3>1. UNCHANGED <<state, ckpt, file, cont, start, stream, todo, snap, live, liveUp>>
      BY <2>1 DEF Boot, supervisorVars, rowVars, goVars, workerVars, scanVars
    <3> QED BY <1>1, <3>1, Zenon DEF PeerJob, PeerStream, PeerStart, PeerScan, PeerFresh,
               Reading, Lines, Begun, Unlaunched, Api
  <2>2. CASE Die
    <3>1. /\ start'[k] = NoStart /\ stream'[k] = NoStream /\ todo' = {} /\ liveUp' = {}
      BY <2>2 DEF Die, NoStarts, NoStreams
    <3>2. start'[k].pc = "none" /\ start'[k].resume = FALSE /\ stream'[k].pc = "none"
      BY <3>1, Shapes, Zenon
    <3> QED BY <3>1, <3>2 DEF PeerJob, PeerStream, PeerStart, PeerScan, PeerFresh, Api
  <2> QED BY <2>1, <2>2
<1> QED BY <1>2, <1>3, <1>4, PeerQuiet

\* leaderCheck of a peer refuses: ErrNotLeader ends Start before it begins.
LEMMA PeerRefused ==
  ASSUME Peer, NEW j \in Jobs, start' = [start EXCEPT ![j] = NoStart],
         UNCHANGED <<rowVars, workerVars, mainVars, stream, cancel>>
  PROVE  Peer' /\ Considerate
<1>1. TypeOK /\ \A k \in Jobs : PeerJob(k)
  BY DEF Peer
<1>2. /\ UNCHANGED <<state, ckpt, file, cont, stream, todo, snap, live, liveUp>>
      /\ start'[j] = NoStart /\ \A k \in Jobs \ {j} : start'[k] = start[k]
  BY <1>1 DEF rowVars, workerVars, mainVars, scanVars, TypeOK, SupervisorTypeOK
<1>3. TypeOK'
  BY <1>1, NoneType DEF TypeOK, WorkerTypeOK, SupervisorTypeOK, rowVars, workerVars,
     mainVars, scanVars
<1>4. ASSUME NEW k \in Jobs PROVE PeerJob(k)' /\ (Api(k)' => Api(k))
  <2>1. PeerStream(k)' /\ PeerScan(k)'
    BY <1>1, <1>2, Zenon DEF PeerJob, PeerStream, PeerScan, Reading, Lines, Begun
  <2>2. PeerStart(k)' /\ PeerFresh(k)' /\ (Api(k)' => Api(k))
    <3>1. CASE k = j
      <4>1. start'[k].pc = "none" /\ start'[k].resume = FALSE
        BY <1>2, <3>1, Shapes, Zenon
      <4> QED BY <4>1, Zenon DEF PeerStart, PeerFresh, Api
    <3>2. CASE k # j
      BY <1>1, <1>2, <3>2, Zenon DEF PeerJob, PeerStart, PeerFresh, Api, Begun, Unlaunched
    <3> QED BY <3>1, <3>2
  <2> QED BY <2>1, <2>2 DEF PeerJob
<1> QED BY <1>3, <1>4, PeerQuiet

\* JobsInStates, ListManaged and the end of the scan of a peer.
LEMMA PeerRead ==
  ASSUME Peer, TypeOK', ReadJobs \/ ListLive \/ ScanDone
  PROVE  Peer' /\ Considerate
<1>1. TypeOK /\ \A k \in Jobs : PeerJob(k)
  BY DEF Peer
<1>2. UNCHANGED <<rowVars, workerVars, state, ckpt, file, cont, start, stream>>
  BY Zenon DEF ReadJobs, ListLive, ScanDone, supervisorVars, rowVars, goVars, workerVars
<1>3. ASSUME NEW k \in Jobs PROVE PeerScan(k)'
  <2>1. CASE ReadJobs
    <3>1. PeerScan(k) /\ live' = live /\ liveUp' = liveUp
      BY <1>1, <2>1, Zenon DEF ReadJobs, PeerJob
    <3>2. CASE todo' = todo /\ snap' = snap
      BY <1>2, <3>1, <3>2 DEF PeerScan, Begun
    <3>3. CASE snap' = [i \in Jobs |-> [state |-> state[i], ckpt |-> ckpt[i]]]
      <4>1. snap'[k].state = state[k] /\ snap'[k].ckpt = ckpt[k]
        BY <3>3
      <4> QED BY <1>2, <3>1, <4>1 DEF PeerScan, Begun
    <3> QED BY <2>1, <3>2, <3>3, Zenon DEF ReadJobs
  <2>2. CASE ListLive
    <3>1. todo' = todo /\ snap' = snap
      BY <2>2 DEF ListLive
    <3>2. k \in liveUp' => live'[k] \in RunningFor(k)
      BY <2>2, Zenon DEF ListLive, Listed
    <3> QED BY <1>1, <1>2, <3>1, <3>2, Zenon DEF PeerJob, PeerScan, Begun, RunningFor
  <2>3. CASE ScanDone
    BY <2>3, Zenon DEF ScanDone, PeerScan
  <2> QED BY <2>1, <2>2, <2>3
<1>4. ASSUME NEW k \in Jobs
      PROVE  PeerStream(k)' /\ PeerStart(k)' /\ PeerFresh(k)' /\ (Api(k)' => Api(k))
  BY <1>1, <1>2, Zenon
  DEF PeerJob, PeerStream, PeerStart, PeerFresh, Reading, Lines, Begun,
     Unlaunched, Api
<1> QED BY <1>2, <1>3, <1>4, PeerQuiet DEF PeerJob

\* The scan of a peer reconciles j: its snapshot of the row may be stale, but
\* a job that had begun has begun, and a checkpoint on record stays on record.
LEMMA PeerReconcile ==
  ASSUME Peer, TypeOK', NEW j \in Jobs,
         \/ ScanAdopt(j) \/ ScanResumable(j) \/ ScanUnresumable(j)
         \/ ScanInterrupted(j) \/ ScanLeave(j)
  PROVE  Peer' /\ Considerate
<1>1. /\ TypeOK /\ ContainerInv /\ RowOK(j)
      /\ PeerStream(j) /\ PeerStart(j) /\ PeerScan(j)
  BY DEF Peer, Shared, PeerJob
<1>2. /\ ckpt' = ckpt /\ file' = file /\ cont' = cont /\ overlap' = overlap
      /\ todo' = todo \ {j} /\ snap' = snap /\ live' = live /\ liveUp' = liveUp
      /\ j \in todo /\ start[j].pc = "none"
  BY Zenon DEF ScanAdopt, ScanResumable, ScanUnresumable, ScanInterrupted, ScanLeave,
     Scanning, supervisorVars, rowVars, goVars, workerVars
<1>3. Ended
  BY <1>1, <1>2, EndedBy, Zenon
<1>4. \A k \in Jobs \ {j} : state'[k] = state[k] /\ start'[k] = start[k]
                            /\ stream'[k] = stream[k]
  BY <1>1 DEF ScanAdopt, ScanResumable, ScanUnresumable, ScanInterrupted, ScanLeave,
     supervisorVars, rowVars, goVars, Transition, Resume, TypeOK, SupervisorTypeOK
<1>5. /\ WasRunning(j) \/ snap[j].state = "interrupted_resumable" => Begun(j)
      /\ snap[j].ckpt # 0 => ckpt[j] # 0
      /\ j \in liveUp => live[j] \in Cids /\ cont[live[j]].job = j
  BY <1>1, <1>2, Zenon DEF PeerScan, WasRunning
<1>6. \/ /\ ScanLeave(j)
         /\ state'[j] = state[j] /\ start'[j] = start[j] /\ stream'[j] = stream[j]
      \/ /\ Begun(j)
         /\ \/ state'[j] = state[j]
            \/ /\ state'[j] = "interrupted_resumable" /\ ckpt[j] # 0
               /\ IsValidTransition(state[j], "interrupted_resumable")
            \/ /\ state'[j] = "interrupted_unresumable"
               /\ IsValidTransition(state[j], "interrupted_unresumable")
         /\ \/ start'[j] = start[j]
            \/ start'[j] = [NoStart EXCEPT !.pc = "get", !.by = "scan"]
         /\ \/ stream'[j] = stream[j]
            \/ j \in liveUp /\ stream'[j] = Tracker(live[j])
  <2> USE <1>1, <1>2, <1>5 DEF TypeOK, SupervisorTypeOK, supervisorVars, rowVars, goVars
  <2>1. CASE ScanAdopt(j)
    BY <2>1 DEF ScanAdopt
  <2>2. CASE ScanResumable(j)
    BY <2>2 DEF ScanResumable, Transition, Resume
  <2>3. CASE ScanUnresumable(j)
    BY <2>3 DEF ScanUnresumable, Transition
  <2>4. CASE ScanInterrupted(j)
    BY <2>4 DEF ScanInterrupted, Resume
  <2>5. CASE ScanLeave(j)
    BY <2>5 DEF ScanLeave
  <2> QED BY <2>1, <2>2, <2>3, <2>4, <2>5, Zenon
<1>7. /\ state[j] # "absent" => state'[j] # "absent"
      /\ Begun(j) => Begun(j)'
      /\ Spared(j) /\ RowOK(j)'
  <2>1. Unlaunched(j) => Unlaunched(j)'
    BY <1>2 DEF Unlaunched
  <2> QED BY <1>1, <1>2, <1>6, <2>1 DEF Begun, Spared, RowOK
<1>8. PeerStream(j)'
  <2>1. CASE stream'[j] = stream[j]
    BY <1>1, <1>2, <1>7, <2>1, Zenon DEF PeerStream, Reading, Lines
  <2>2. CASE Begun(j) /\ j \in liveUp /\ stream'[j] = Tracker(live[j])
    <3> DEFINE c == live[j]
    <3>1. c \in Cids /\ cont[c].job = j
      BY <1>5, <2>2
    <3>2. cont[c] \in Container /\ cont[c].lo <= cont[c].hi + 1
      BY <1>1, <3>1 DEF TypeOK, WorkerTypeOK, ContainerInv
    <3>3. /\ stream'[j].c = c /\ stream'[j].n = 0
          /\ stream'[j].saw = FALSE /\ stream'[j].ok = FALSE
      <4>1. /\ Tracker(c).c = c /\ Tracker(c).n = 0
            /\ Tracker(c).saw = FALSE /\ Tracker(c).ok = FALSE
        BY Shapes, Zenon
      <4>2. stream'[j] = Tracker(c)
        BY <2>2, Zenon
      <4> QED BY <4>1, <4>2, Zenon
    <3>4. 0 <= cont[c].hi - cont[c].lo + 1
      BY <3>2, LinesCounted, Zenon
    <3> QED BY <1>2, <1>7, <2>2, <3>1, <3>3, <3>4, Zenon DEF PeerStream, Reading, Lines
  <2> QED BY <1>6, <2>1, <2>2
<1>9. PeerStart(j)' /\ PeerFresh(j)' /\ ~Api(j)'
  <2>1. CASE start'[j] = start[j]
    BY <1>1, <1>2, <1>7, <2>1, Zenon DEF PeerStart, PeerFresh, Api
  <2>2. CASE Begun(j) /\ start'[j] = [NoStart EXCEPT !.pc = "get", !.by = "scan"]
    <3>1. start'[j].pc = "get" /\ start'[j].by = "scan" /\ start'[j].resume = FALSE
      BY <2>2 DEF NoStart
    <3> QED BY <1>7, <2>2, <3>1 DEF PeerStart, PeerFresh, Api, Begun
  <2> QED BY <1>6, <2>1, <2>2
<1>10. PeerScan(j)'
  BY <1>1, <1>2, Zenon DEF PeerScan
<1>11. IsTerminal(state[j]) => state'[j] = state[j]
  BY <1>1, <1>6, ValidFrom DEF IsTerminal, JobState, Terminal, TypeOK, SupervisorTypeOK
<1> QED BY <1>2, <1>3, <1>4, <1>7, <1>8, <1>9, <1>10, <1>11, PeerLocal, Zenon DEF PeerJob

\* The recovery scan of a peer.
LEMMA PeerScanStep ==
  ASSUME Peer, ScanStep
  PROVE  Peer' /\ Considerate
<1>1. TypeOK'
  BY TypeScan, Zenon DEF Peer, PeerJob, PeerScan, TypeOK
<1> QED BY <1>1, PeerRead, PeerReconcile DEF ScanStep

\* The workers, which serve whoever started them.
LEMMA PeerWorker ==
  ASSUME Peer, TypeOK', NEW c \in Cids, WorkerStep(c) \/ WorkerCrash(c),
         UNCHANGED rowVars
  PROVE  Shared' /\ Evolves /\ \A j \in Jobs : Spared(j)
<1>1. /\ TypeOK /\ ContainerInv /\ FileInv /\ SoleWorker
      /\ \A k \in Jobs : RowOK(k)
  BY DEF Peer, Shared
<1>2. state' = state /\ ckpt' = ckpt
  BY DEF rowVars
<1>3. CASE cont' = Killed(c)
  <2>1. file' = file /\ overlap' = overlap
    <3>1. CASE WriteState(c)
      <4>1. cont[c] \in Container /\ Running(c) /\ cont \in [Cids -> Container]
        BY <1>1, <3>1 DEF WriteState, TypeOK, WorkerTypeOK
      <4>2. cont'[c].st = "exited"
        BY <1>3, <4>1 DEF Killed, Container
      <4>3. cont'[c].st = cont[c].st
        BY <3>1, <4>1 DEF WriteState, Container
      <4> QED BY <4>1, <4>2, <4>3 DEF Running
    <3> QED BY <3>1 DEF WorkerStep, WorkerBoot, EmitCheckpoint, EmitCompleted,
               WorkerExit, WorkerCrash
  <2>2. Ended
    BY <1>1, <1>3, <2>1, EndedBy
  <2>3. ContainerInv' /\ FileInv' /\ SoleWorker'
    BY <1>1, <2>2, EndedKeeps
  <2>4. \A k \in Jobs : RowOK(k)' /\ Spared(k)
    BY <1>1, <1>2, <2>2, Zenon DEF RowOK, Spared, Unlaunched, Ended
  <2>5. ASSUME NEW d \in Cids
        PROVE  /\ cont'[d].job = cont[d].job
               /\ cont[d].hi - cont[d].lo + 1 <= cont'[d].hi - cont'[d].lo + 1
               /\ cont[d].done => cont'[d].done
    <3>1. cont[d] \in Container
      BY <1>1 DEF TypeOK, WorkerTypeOK
    <3>2. cont'[d].lo = cont[d].lo /\ cont'[d].hi = cont[d].hi
      BY <2>2 DEF Ended
    <3>3. cont[d].hi - cont[d].lo + 1 <= cont'[d].hi - cont'[d].lo + 1
      BY <3>1, <3>2, LineCount, Zenon
    <3> QED BY <2>2, <3>3, Zenon DEF Ended
  <2> QED BY <1>2, <2>1, <2>3, <2>4, <2>5, Zenon DEF Shared, Evolves, Begun
<1>4. CASE cont' # Killed(c)
  <2>1. Works(c) /\ ContainerInv' /\ FileInv'
    BY <1>1, <1>4, WorkerWorks DEF WorkerCrash
  <2>2. PICK j \in Jobs : j = cont[c].job
    BY <2>1 DEF Works
  <2>3. \A d \in Cids : cont'[d].job = cont[d].job /\ (Running(d)' => Running(d))
    BY <2>1, Zenon DEF Works, Running
  <2>4. SoleWorker'
    BY <1>1, <2>1, <2>3, Zenon DEF SoleWorker, Works
  <2>5. ASSUME NEW k \in Jobs
        PROVE  /\ ~overlap[k] => file[k] <= file'[k]
               /\ file[k] > 0 => file'[k] > 0
               /\ file[k] \in 0 .. LastCkpt /\ file'[k] \in 0 .. LastCkpt
               /\ ckpt[k] \in 0 .. LastCkpt
               /\ Unlaunched(k) => Unlaunched(k)'
               /\ overlap' = overlap
    <3>1. /\ file[k] \in 0 .. LastCkpt /\ file'[k] \in 0 .. LastCkpt
          /\ ckpt[k] \in 0 .. LastCkpt
      BY <1>1 DEF TypeOK, WorkerTypeOK, SupervisorTypeOK
    <3>2. file[k] <= file[k]
      BY <3>1, LastCkptAssumption
    <3>3. CASE k = j
      BY <2>1, <2>2, <3>1, <3>3, Zenon DEF Works, Unlaunched
    <3>4. CASE k # j
      BY <1>2, <2>1, <2>2, <2>3, <3>1, <3>2, <3>4, Zenon DEF Works, Unlaunched
    <3> QED BY <3>3, <3>4, Zenon
  <2>6. ASSUME NEW k \in Jobs PROVE RowOK(k)'
    <3> DEFINE r == ckpt[k]
               f == file[k]
               g == file'[k]
    <3>1. /\ r # 0 => f > 0
          /\ overlap[k] \/ r <= f
          /\ state[k] = "completed" /\ ~overlap[k] => f = LastCkpt
      BY <1>1, Zenon DEF RowOK
    <3>2. /\ r \in 0 .. LastCkpt /\ f \in 0 .. LastCkpt /\ g \in 0 .. LastCkpt
          /\ ~overlap[k] => f <= g
          /\ f > 0 => g > 0
      BY <2>5, Zenon
    <3> HIDE DEF r, f, g
    <3>3. /\ r # 0 => g > 0
          /\ overlap[k] \/ r <= g
          /\ state[k] = "completed" /\ ~overlap[k] => g = LastCkpt
      BY <3>1, <3>2, BackedStays, Zenon
    <3> QED BY <1>1, <1>2, <2>5, <3>3, Zenon DEF RowOK, r, f, g
  <2>7. ASSUME NEW d \in Cids
        PROVE  /\ cont[d].hi - cont[d].lo + 1 <= cont'[d].hi - cont'[d].lo + 1
               /\ cont[d].done => cont'[d].done
    <3>1. CASE d = c
      BY <2>1, <3>1 DEF Works
    <3>2. CASE d # c
      <4>1. cont'[d] = cont[d] /\ cont[d] \in Container
        BY <1>1, <2>1, <3>2 DEF Works, TypeOK, WorkerTypeOK
      <4> QED BY <4>1, LineCount, Zenon
    <3> QED BY <3>1, <3>2
  <2>8. Evolves
    BY <1>2, <2>3, <2>5, <2>7 DEF Evolves, Begun
  <2>9. \A k \in Jobs : Spared(k)
    BY <1>2, <2>5 DEF Spared
  <2> QED BY <2>1, <2>4, <2>6, <2>8, <2>9 DEF Shared
<1> QED BY <1>3, <1>4

\* Before main(): no row, no container, and a controller that knows nothing.
LEMMA PeerInit ==
  ASSUME TypeOK, WorkerInit, start = NoStarts, stream = NoStreams, todo = {},
         liveUp = {}, state = [j \in Jobs |-> "absent"], ckpt = [j \in Jobs |-> 0]
  PROVE  Peer /\ \A j \in Jobs : ~Api(j)
<1>1. /\ \A c \in Cids : cont[c] = NoContainer
      /\ \A j \in Jobs : file[j] = 0 /\ state[j] = "absent" /\ ckpt[j] = 0
                         /\ start[j] = NoStart /\ stream[j] = NoStream
  BY DEF WorkerInit, NoStarts, NoStreams
<1>2. ContainerInv /\ FileInv /\ SoleWorker
  <2>1. \A c \in Cids :
          /\ cont[c].st = "none" /\ cont[c].job = None /\ cont[c].lo = 1
          /\ cont[c].hi = 0 /\ cont[c].pc = "boot" /\ cont[c].done = FALSE
          /\ cont[c].code = "none"
    BY <1>1, Shapes, Zenon
  <2>2. FileInv /\ SoleWorker
    BY <2>1 DEF FileInv, SoleWorker, Running
  <2>3. ContainerInv
    <3>1. 1 <= 0 + 1
      OBVIOUS
    <3> QED BY <2>1, <3>1, Zenon DEF ContainerInv
  <2> QED BY <2>2, <2>3
<1>3. ASSUME NEW j \in Jobs PROVE RowOK(j) /\ PeerJob(j) /\ ~Api(j)
  <2>1. j # None
    BY NoneAssumption
  <2>2. Unlaunched(j)
    BY <1>1, <2>1, Shapes, Zenon DEF Unlaunched
  <2>3. RowOK(j)
    BY <1>1, <2>2 DEF RowOK
  <2>4. start[j].pc = "none" /\ start[j].resume = FALSE /\ stream[j].pc = "none"
    BY <1>1, Shapes, Zenon
  <2> QED BY <2>3, <2>4, Zenon DEF PeerJob, PeerStream, PeerStart, PeerScan, PeerFresh,
     Api
<1> QED BY <1>2, <1>3 DEF Peer, Shared
=============================================================================
