---------------------- MODULE ControllerSafety_proofs -----------------------
(* Inv is an inductive invariant of Controller: the first state has it,    *)
(* and every step of a goroutine, a container or main() keeps it.  From it *)
(* follow the safety properties, that Controller implements JobContract,   *)
(* that terminal states are final, and, while the docker client serves the *)
(* supervisor, that no running job and no worker is lost from sight.       *)
EXTENDS Controller_proofs

\* Leaves that name no prover are for SMT or Zenon.
USE SMTT(15), Z3T(15), Zenon

USE DEF Progress

-----------------------------------------------------------------------------
(* The frame of a step: a goroutine, a container or main() disturbs the    *)
(* invariant of at most one job, and these lemmas carry it over for all    *)
(* the others.                                                             *)

\* A Transition changes no other row, and a row only as the table allows.
LEMMA TransitionEffect ==
  ASSUME NEW j \in Jobs, NEW next \in JobState, state \in [Jobs -> RowState],
         NEW k \in Jobs
  PROVE  /\ k # j => Transition(j, next)[k] = state[k]
         /\ \/ Transition(j, next)[k] = state[k]
            \/ k = j /\ IsValidTransition(state[j], next)
                     /\ Transition(j, next)[j] = next
BY DEF Transition

\* The step leaves the row, the goroutines and the file of job k alone.
Frame(k) ==
  /\ Kept(k)
  /\ file'[k] = file[k] /\ overlap'[k] = overlap[k]
  /\ state'[k] = state[k] /\ ckpt'[k] = ckpt[k]
  /\ start'[k] = start[k] /\ stream'[k] = stream[k] /\ cancel'[k] = cancel[k]
  /\ drain'[k] = drain[k] /\ phase' = phase
  /\ k \in todo' => k \in todo
  /\ snap' = snap /\ live' = live /\ liveUp' = liveUp

\* The invariant of a job the step leaves alone.
LEMMA JobFrame ==
  ASSUME NEW k \in Jobs, JobInv(k), Frame(k)
  PROVE  JobInv(k)'
<1> USE DEF Frame
<1>1. StreamOK(k)'
  BY DEF JobInv, StreamOK, Kept, Lines
<1>2. StartOK(k)'
  BY DEF JobInv, StartOK, Unlaunched, Kept
<1>3. PhaseOK(k)' /\ DrainOK(k)' /\ RecordOK(k)'
  BY DEF JobInv, PhaseOK, Serving, DrainOK, RecordOK
<1>4. ScanOK(k)'
  BY DEF JobInv, ScanOK, Kept
<1> QED BY <1>1, <1>2, <1>3, <1>4 DEF JobInv

\* A step that ends containers at most, and disturbs one job.
LEMMA Local ==
  ASSUME Inv, TypeOK', Ended, NEW j \in Jobs, JobInv(j)',
         \A k \in Jobs \ {j} : Kept(k) => Frame(k)
  PROVE  Inv'
<1>1. /\ ContainerInv' /\ FileInv' /\ SoleWorker'
      /\ \A k \in Jobs : Kept(k)
  BY EndedKeeps DEF Inv
<1>2. ASSUME NEW k \in Jobs, k # j PROVE JobInv(k)'
  BY <1>1, <1>2, JobFrame DEF Inv
<1> QED BY <1>1, <1>2 DEF Inv

-----------------------------------------------------------------------------
(* Containers, goroutines and requests. *)

\* Containers end, and the controller has not noticed yet.
LEMMA InvEnded ==
  ASSUME Inv, TypeOK', Ended, UNCHANGED <<mainVars, supervisorVars>>
  PROVE  Inv'
<1>1. /\ ContainerInv' /\ FileInv' /\ SoleWorker'
      /\ \A k \in Jobs : Kept(k)
  BY EndedKeeps DEF Inv
<1>2. ASSUME NEW k \in Jobs PROVE JobInv(k)'
  <2>1. Frame(k)
    BY <1>1 DEF Frame, Ended, mainVars, scanVars, supervisorVars, rowVars, goVars
  <2> QED BY <2>1, JobFrame DEF Inv
<1> QED BY <1>1, <1>2 DEF Inv

\* The worker in c takes a step.
LEMMA InvWorker ==
  ASSUME Inv, TypeOK', NEW c \in Cids, ContainerStep(c)
  PROVE  Inv'
<1>0. TypeOK /\ ContainerInv /\ FileInv /\ SoleWorker /\ \A i \in Jobs : JobInv(i)
  BY DEF Inv
<1>1. CASE cont' = Killed(c)
  <2>1. file' = file /\ overlap' = overlap
    <3>1. CASE WriteState(c)
      <4>1. cont[c] \in Container /\ Running(c) /\ cont \in [Cids -> Container]
        BY <1>0, <3>1 DEF WriteState, TypeOK, WorkerTypeOK
      <4>2. cont'[c].st = "exited"
        BY <1>1, <4>1 DEF Killed, Container
      <4>3. cont'[c].st = cont[c].st
        BY <3>1, <4>1 DEF WriteState, Container
      <4> QED BY <4>1, <4>2, <4>3 DEF Running
    <3> QED BY <3>1 DEF ContainerStep, WorkerStep, WorkerBoot, EmitCheckpoint,
               EmitCompleted, WorkerExit
  <2>2. Ended
    BY <1>0, <1>1, <2>1, EndedBy
  <2> QED BY <2>2, InvEnded DEF ContainerStep
<1>2. CASE cont' # Killed(c)
  <2>1. Works(c) /\ ContainerInv' /\ FileInv'
    BY <1>0, <1>2, WorkerWorks DEF ContainerStep
  <2>2. SoleWorker'
    <3>1. \A d \in Cids : (Running(d)' => Running(d)) /\ cont'[d].job = cont[d].job
      BY <2>1 DEF Works, Running
    <3> QED BY <1>0, <2>1, <3>1 DEF SoleWorker, Works
  <2>3. /\ state' = state /\ ckpt' = ckpt /\ start' = start /\ stream' = stream
        /\ cancel' = cancel /\ drain' = drain /\ phase' = phase
        /\ todo' = todo /\ snap' = snap /\ live' = live /\ liveUp' = liveUp
    BY DEF ContainerStep, mainVars, scanVars, supervisorVars, rowVars, goVars
  <2>0. PICK j \in Jobs : j = cont[c].job
    BY <2>1 DEF Works
  <2>4. ASSUME NEW i \in Jobs, i # j PROVE JobInv(i)'
    <3>1. Kept(i)
      BY <2>0, <2>1, <2>4 DEF Kept, Works
    <3>2. Frame(i)
      BY <2>0, <2>1, <2>3, <2>4, <3>1 DEF Frame, Works
    <3> QED BY <1>0, <3>2, JobFrame
  <2>5. /\ j \in Jobs /\ cont'[c].job = j /\ JobInv(j)
        /\ \A d \in Cids : cont'[d].job = cont[d].job
    BY <2>0, <1>0, <2>1 DEF Works
  <2>6. StreamOK(j)'
    <3> SUFFICES ASSUME stream[j].pc # "none" PROVE StreamOK(j)'
      BY <2>3 DEF StreamOK
    <3> DEFINE d == stream[j].c
    <3>1. /\ d \in Cids /\ cont[d].job = j /\ stream[j].n <= Lines(j)
          /\ stream[j].saw \/ stream[j].ok => cont[d].done
          /\ state[j] \in Tracked /\ start[j].pc = "none"
      BY <2>5 DEF JobInv, StreamOK
    <3>2. /\ cont[d].lo \in 1 .. LastCkpt /\ cont[d].hi \in 0 .. LastCkpt
          /\ cont'[d].lo \in 1 .. LastCkpt /\ cont'[d].hi \in 0 .. LastCkpt
          /\ stream[j].n \in 0 .. LastCkpt
      BY <1>0, <2>5, <3>1, SMTT(20), Z3T(20) DEF TypeOK, WorkerTypeOK, SupervisorTypeOK,
         Container, StreamRec
    <3>3. /\ cont[d].hi - cont[d].lo + 1 <= cont'[d].hi - cont'[d].lo + 1
          /\ cont[d].done => cont'[d].done
      <4>1. CASE d = c
        BY <2>1, <4>1 DEF Works
      <4>2. CASE d # c
        <5>1. cont'[d] = cont[d]
          BY <2>1, <3>1, <4>2 DEF Works
        <5> QED BY <3>2, <5>1, LastCkptAssumption
      <4> QED BY <4>1, <4>2
    <3>4. stream[j].n <= cont'[d].hi - cont'[d].lo + 1
      BY <3>1, <3>2, <3>3, LastCkptAssumption, SMTT(20), Z3T(20) DEF Lines
    <3> QED BY <2>3, <2>5, <3>1, <3>3, <3>4 DEF StreamOK, Lines
  <2>7. StartOK(j)'
    BY <2>0, <2>1, <2>3, <2>5, Zenon DEF JobInv, StartOK, Unlaunched, Works
  <2>8. PhaseOK(j)' /\ DrainOK(j)'
    BY <2>3, <2>5 DEF JobInv, PhaseOK, DrainOK, Serving
  <2>9. ScanOK(j)'
    BY <2>3, <2>5 DEF JobInv, ScanOK
  <2>10. RecordOK(j)'
    <3>1. file[j] \in 0 .. LastCkpt /\ file'[j] \in 0 .. LastCkpt
          /\ ckpt[j] \in 0 .. LastCkpt
      BY <1>0, <2>5 DEF TypeOK, WorkerTypeOK, SupervisorTypeOK
    <3>2. /\ ~overlap[j] => file[j] <= file'[j]
          /\ file[j] > 0 => file'[j] > 0
          /\ overlap' = overlap
      BY <2>0, <2>1 DEF Works
    <3>3. /\ ckpt[j] # 0 => file'[j] > 0
          /\ overlap[j] \/ ckpt[j] <= file'[j]
          /\ state[j] = "completed" /\ ~overlap[j] => file'[j] = LastCkpt
      <4> DEFINE r == ckpt[j]
                 f == file[j]
                 g == file'[j]
      <4>1. /\ r # 0 => f > 0
            /\ overlap[j] \/ r <= f
            /\ state[j] = "completed" /\ ~overlap[j] => f = LastCkpt
        BY <2>5 DEF JobInv, RecordOK
      <4>2. /\ r \in Int /\ f \in Int /\ g \in Int /\ LastCkpt \in Int
            /\ g <= LastCkpt
        BY <3>1, LastCkptAssumption
      <4>3. (~overlap[j] => f <= g) /\ (f > 0 => g > 0)
        BY <3>2
      <4> HIDE DEF r, f, g
      <4>4. /\ r # 0 => g > 0
            /\ overlap[j] \/ r <= g
            /\ state[j] = "completed" /\ ~overlap[j] => g = LastCkpt
        BY <4>1, <4>2, <4>3
      <4> QED BY <4>4 DEF r, f, g
    <3> QED BY <2>3, <2>5, <3>2, <3>3 DEF JobInv, RecordOK
  <2> QED BY <2>1, <2>2, <2>4, <2>6, <2>7, <2>8, <2>9, <2>10 DEF Inv, JobInv
<1> QED BY <1>1, <1>2

\* runStream keeps the invariant.
LEMMA InvStream ==
  ASSUME Inv, TypeOK', NEW j \in Jobs, StreamStep(j), UNCHANGED mainVars
  PROVE  Inv'
<1>0. /\ TypeOK /\ JobInv(j) /\ ContainerInv /\ FileInv /\ SoleWorker
      /\ stream[j].pc # "none" => Reading(j)
  BY DEF Inv, JobInv, StreamOK, Reading
<1>1. /\ stream[j].pc # "none" /\ start' = start /\ cancel' = cancel
      /\ Ended
      /\ \A k \in Jobs \ {j} : stream'[k] = stream[k] /\ state'[k] = state[k]
                               /\ ckpt'[k] = ckpt[k]
      /\ stream'[j].pc # "none" => Reading(j)'
      /\ \/ ckpt'[j] = ckpt[j]
         \/ ckpt'[j] # 0 /\ file[j] > 0 /\ (overlap[j] \/ ckpt'[j] <= file[j])
      /\ \/ state'[j] = state[j]
         \/ state'[j] = "failed"
         \/ state'[j] = "completed" /\ (overlap[j] \/ file[j] = LastCkpt)
  BY <1>0, StreamEffect, Zenon
<1>2. /\ drain' = drain /\ phase' = phase /\ todo' = todo /\ snap' = snap
      /\ live' = live /\ liveUp' = liveUp
  BY DEF mainVars, scanVars
<1>3. state[j] \in Tracked /\ start[j].pc = "none" /\ j \notin todo
  BY <1>0, <1>1 DEF JobInv, StreamOK, ScanOK
<1>4. Kept(j)
  BY <1>0, <1>1, EndedKeeps
<1>5. state'[j] \in Tracked
  BY <1>1, <1>3 DEF Tracked
<1>6. \A k \in Jobs \ {j} : Kept(k) => Frame(k)
  BY <1>1, <1>2 DEF Frame, Ended
<1>8. StreamOK(j)'
  BY <1>1, <1>3, <1>5 DEF StreamOK, Reading
<1>9. RecordOK(j)'
  BY <1>0, <1>1, <1>5 DEF JobInv, RecordOK, Ended, Tracked
<1>10. StartOK(j)'
  BY <1>0, <1>1, <1>3, <1>5 DEF JobInv, StartOK, Unlaunched, Tracked, Ended
<1>11. ScanOK(j)'
  BY <1>0, <1>2, <1>3, <1>4 DEF JobInv, ScanOK, Kept
<1>12. DrainOK(j)' /\ PhaseOK(j)'
  BY <1>0, <1>1, <1>2, <1>5 DEF JobInv, DrainOK, PhaseOK, Serving, Tracked
<1> QED BY <1>1, <1>6, <1>8, <1>9, <1>10, <1>11, <1>12, Local DEF JobInv

\* Supervisor.Start, but for a docker run that succeeds, keeps the invariant.
LEMMA InvStart ==
  ASSUME Inv, TypeOK', NEW j \in Jobs, StartStep(j, pid), UNCHANGED mainVars,
         UNCHANGED workerVars \/ StartUndo(j)
  PROVE  Inv'
<1>0. /\ TypeOK /\ JobInv(j) /\ ContainerInv /\ FileInv /\ SoleWorker
      /\ start[j] \in StartRec
  BY DEF Inv, TypeOK, SupervisorTypeOK
<1>6. /\ start[j].pc # "none" /\ ckpt' = ckpt /\ cancel' = cancel
      /\ Ended /\ file' = file
      /\ \/ /\ start[j].pc = "get"
            /\ state[j] \in {"pending", "interrupted_resumable"}
            /\ Moved(j, [start[j] EXCEPT !.pc = "run",
                 !.resume = state[j] = "interrupted_resumable" /\ ckpt[j] # 0],
                 state[j], stream[j])
         \/ /\ start[j].by = "api"
            /\ Moved(j, [start[j] EXCEPT !.pc = "fail"], state[j], stream[j])
         \/ Moved(j, NoStart, state[j], stream[j])
         \/ Moved(j, NoStart, "failed", stream[j])
         \/ /\ start[j].pc = "transition"
            /\ Moved(j, [start[j] EXCEPT !.pc = "track"], "running", stream[j])
         \/ /\ start[j].pc = "transition"
            /\ Moved(j, [start[j] EXCEPT !.pc = "undo"], state[j], stream[j])
         \/ /\ start[j].pc = "track"
            /\ Moved(j, NoStart, state[j], Tracker(start[j].c))
  BY <1>0, StartEffect, Zenon DEF Ended
<1>1. /\ start[j].pc # "none" /\ ckpt' = ckpt /\ cancel' = cancel
      /\ drain' = drain /\ phase' = phase /\ todo' = todo /\ snap' = snap
      /\ live' = live /\ liveUp' = liveUp
  BY <1>6 DEF mainVars, scanVars
<1>2. /\ stream[j].pc = "none" /\ drain[j].pc = "no" /\ j \notin todo
      /\ phase \notin {"down", "read", "list"} /\ state[j] # "absent"
      /\ (start[j].by = "scan" <=> phase = "scan")
  BY <1>0, <1>1 DEF JobInv, StreamOK, StartOK, DrainOK, ScanOK, PhaseOK
<1>3. file' = file /\ Ended
  BY <1>6
<1>4. Kept(j)
  BY <1>0, <1>3, EndedKeeps
<1> USE DEF Moved
<1>7. \A k \in Jobs \ {j} : Kept(k) => Frame(k)
  BY <1>1, <1>3, <1>6 DEF Frame, Ended
<1>8. StreamOK(j)'
  <2>1. CASE stream'[j] = stream[j]
    BY <1>2, <2>1 DEF StreamOK
  <2>2. CASE start[j].pc = "track" /\ Moved(j, NoStart, state[j], Tracker(start[j].c))
    <3> DEFINE c == start[j].c
    <3>1. c \in Cids /\ cont[c].job = j /\ state[j] \in Tracked
      BY <1>0, <2>2 DEF JobInv, StartOK
    <3>2. /\ cont[c].lo \in 1 .. LastCkpt /\ cont[c].hi \in 0 .. LastCkpt
          /\ cont[c].lo <= cont[c].hi + 1
      BY <1>0, <3>1 DEF TypeOK, WorkerTypeOK, Container, ContainerInv
    <3>3. /\ stream'[j].c = c /\ stream'[j].n = 0
          /\ stream'[j].saw = FALSE /\ stream'[j].ok = FALSE
          /\ start'[j].pc = "none" /\ state'[j] = state[j]
      BY <2>2 DEF Tracker, NoStream, NoStart
    <3>4. 0 <= cont[c].hi - cont[c].lo + 1
      BY <3>2, LogSize, Zenon
    <3>5. /\ cont'[c].job = j /\ cont'[c].hi = cont[c].hi
          /\ cont'[c].lo = cont[c].lo
      BY <1>4, <3>1 DEF Kept
    <3> QED BY <3>1, <3>3, <3>4, <3>5 DEF StreamOK, Lines
  <2> QED BY <1>6, <2>1, <2>2
<1>9. StartOK(j)'
  <2>1. /\ file'[j] = file[j] /\ ckpt'[j] = ckpt[j] /\ state'[j] # "absent"
        /\ Unlaunched(j) => Unlaunched(j)'
    BY <1>1, <1>2, <1>3, <1>6 DEF Ended, Unlaunched
  <2>2. CASE start'[j] = NoStart
    BY <2>1, <2>2 DEF StartOK, NoStart
  <2>3. CASE /\ start[j].pc = "get"
             /\ Moved(j, [start[j] EXCEPT !.pc = "run",
                    !.resume = state[j] = "interrupted_resumable" /\ ckpt[j] # 0],
                  state[j], stream[j])
    <3>1. /\ start'[j].pc = "run" /\ start'[j].by = start[j].by
          /\ start'[j].resume = (state[j] = "interrupted_resumable" /\ ckpt[j] # 0)
      BY <1>0, <2>3 DEF StartRec
    <3>2. /\ ckpt[j] # 0 => file[j] > 0
          /\ state[j] = "interrupted_resumable" => ckpt[j] # 0
          /\ start[j].by = "scan" => state[j] = "interrupted_resumable"
          /\ start[j].by = "api" => Unlaunched(j)
      BY <1>0, <2>3 DEF JobInv, RecordOK, StartOK
    <3> QED BY <2>1, <3>1, <3>2, Zenon DEF StartOK
  <2>4. CASE Moved(j, [start[j] EXCEPT !.pc = "fail"], state[j], stream[j])
    BY <1>0, <2>1, <2>4 DEF JobInv, StartOK, StartRec
  <2>5. CASE /\ start[j].pc = "transition"
             /\ \/ Moved(j, [start[j] EXCEPT !.pc = "track"], "running", stream[j])
                \/ Moved(j, [start[j] EXCEPT !.pc = "undo"], state[j], stream[j])
    <3>1. /\ \/ start'[j].pc = "track" /\ state'[j] = "running"
             \/ start'[j].pc = "undo"
          /\ start'[j].c = start[j].c /\ start'[j].resume = start[j].resume
      BY <1>0, <2>5 DEF StartRec
    <3>2. /\ start[j].resume => file[j] > 0
          /\ start[j].c \in Cids /\ cont[start[j].c].job = j
      BY <1>0, <2>5 DEF JobInv, StartOK
    <3> QED BY <1>4, <2>1, <3>1, <3>2 DEF StartOK, Kept, Tracked
  <2> QED BY <1>6, <2>2, <2>3, <2>4, <2>5
<1>10. PhaseOK(j)'
  <2>1. start'[j].pc = "none" \/ start'[j].by = start[j].by
    <3>1. CASE start'[j] = NoStart
      BY <3>1 DEF NoStart
    <3>2. CASE start'[j] = [start[j] EXCEPT !.pc = "run",
                  !.resume = state[j] = "interrupted_resumable" /\ ckpt[j] # 0]
      BY <1>0, <3>2 DEF StartRec
    <3>3. CASE \/ start'[j] = [start[j] EXCEPT !.pc = "fail"]
               \/ start'[j] = [start[j] EXCEPT !.pc = "track"]
               \/ start'[j] = [start[j] EXCEPT !.pc = "undo"]
      BY <1>0, <3>3 DEF StartRec
    <3> QED BY <1>6, <3>1, <3>2, <3>3
  <2> QED BY <1>0, <1>1, <1>2, <2>1 DEF JobInv, PhaseOK, Serving
<1>11. RecordOK(j)'
  BY <1>0, <1>1, <1>3, <1>6 DEF JobInv, RecordOK, Ended
<1>12. ScanOK(j)' /\ DrainOK(j)'
  BY <1>0, <1>1, <1>2, <1>4 DEF JobInv, ScanOK, DrainOK, Kept
<1> QED BY <1>3, <1>7, <1>8, <1>9, <1>10, <1>11, <1>12, Local DEF JobInv

\* A docker run of Supervisor.Start that succeeds keeps the invariant.
LEMMA InvLaunch ==
  ASSUME Inv, TypeOK', NEW j \in Jobs, NEW c \in Cids, UNCHANGED mainVars,
         start[j].pc = "run", DockerRun(c, j, pid, start[j].resume),
         start' = [start EXCEPT ![j] = [@ EXCEPT !.pc = "transition", !.c = c]],
         UNCHANGED <<rowVars, stream, cancel>>
  PROVE  Inv'
<1>0. /\ TypeOK /\ JobInv(j) /\ ContainerInv /\ FileInv /\ SoleWorker
      /\ start[j] \in StartRec /\ start[j].resume \in BOOLEAN
  BY DEF Inv, TypeOK, SupervisorTypeOK, StartRec
<1>1. /\ state' = state /\ ckpt' = ckpt /\ file' = file
      /\ stream' = stream /\ cancel' = cancel
      /\ drain' = drain /\ phase' = phase /\ todo' = todo /\ snap' = snap
      /\ live' = live /\ liveUp' = liveUp
  BY <1>0 DEF DockerRun, rowVars, mainVars, scanVars
<1>2. /\ start'[j].pc = "transition" /\ start'[j].c = c
      /\ start'[j].resume = start[j].resume /\ start'[j].by = start[j].by
      /\ \A k \in Jobs \ {j} : start'[k] = start[k]
  BY <1>0 DEF TypeOK, SupervisorTypeOK, StartRec
<1>3. /\ start[j].resume => file[j] > 0
      /\ ~start[j].resume => file[j] = 0
  BY <1>0 DEF JobInv, StartOK, Unlaunched, StartRec
<1>4. /\ ContainerInv' /\ FileInv' /\ SoleWorker'
      /\ cont[c].job = None /\ cont'[c].job = j
      /\ \A d \in Cids \ {c} : cont'[d] = cont[d]
      /\ \A k \in Jobs \ {j} : overlap'[k] = overlap[k]
      /\ ~overlap'[j] => ~overlap[j]
  BY <1>0, <1>3, Launched
<1>5. j # None /\ \A k \in Jobs : k # None
  BY NoneAssumption
<1>10. ASSUME NEW k \in Jobs, k # j PROVE JobInv(k)'
  <2>1. Kept(k)
    <3>1. cont[c].job # k /\ cont'[c].job # k
      BY <1>4, <1>5, <1>10
    <3>2. ASSUME NEW d \in Cids, d # c PROVE cont'[d] = cont[d]
      BY <1>4, <3>2
    <3> QED BY <3>1, <3>2 DEF Kept
  <2>2. Frame(k)
    BY <1>1, <1>2, <1>4, <1>10, <2>1 DEF Frame
  <2> QED BY <2>2, JobFrame DEF Inv
<1>11. /\ stream[j].pc = "none" /\ drain[j].pc = "no" /\ j \notin todo
       /\ state[j] # "absent"
  BY <1>0 DEF JobInv, StreamOK, StartOK, DrainOK, ScanOK
<1>12. StreamOK(j)' /\ DrainOK(j)' /\ PhaseOK(j)'
  BY <1>0, <1>1, <1>2, <1>11 DEF JobInv, StreamOK, DrainOK, PhaseOK, Serving
<1>13. StartOK(j)'
  BY <1>1, <1>2, <1>3, <1>4, <1>11 DEF StartOK
<1>14. ScanOK(j)'
  <2>1. \A d \in Cids : cont[d].job = j => cont'[d].job = j
    BY <1>4, Zenon
  <2> QED BY <1>0, <1>1, <1>11, <2>1 DEF JobInv, ScanOK
<1>15. RecordOK(j)'
  BY <1>0, <1>1, <1>4 DEF JobInv, RecordOK
<1> QED BY <1>4, <1>10, <1>12, <1>13, <1>14, <1>15 DEF Inv, JobInv

\* Supervisor.Cancel and the HTTP handlers.
LEMMA InvRequest ==
  ASSUME Inv, TypeOK', NEW j \in Jobs,
         \/ CancelStep(j) /\ UNCHANGED mainVars
         \/ Request(j)
  PROVE  Inv'
<1>0. /\ TypeOK /\ JobInv(j) /\ ContainerInv /\ FileInv /\ SoleWorker
  BY DEF Inv
<1>1. UNCHANGED mainVars
  BY DEF Request
<1>2. /\ ckpt' = ckpt /\ stream' = stream
      /\ drain' = drain /\ phase' = phase /\ todo' = todo /\ snap' = snap
      /\ live' = live /\ liveUp' = liveUp /\ file' = file /\ overlap' = overlap
      /\ cont' = cont \/ cont' = Killed(cancel[j].c)
      /\ \A k \in Jobs \ {j} : state'[k] = state[k] /\ start'[k] = start[k]
                               /\ cancel'[k] = cancel[k]
  <2> USE <1>0, <1>1 DEF mainVars, scanVars, TypeOK, SupervisorTypeOK
  <2>1. CASE CancelStop(j)
    BY <2>1 DEF CancelStop, rowVars
  <2>2. CASE CancelTransition(j)
    BY <2>2, Zenon DEF CancelTransition, Transition, workerVars
  <2>3. CASE CancelGet(j) \/ CancelAbort(j)
    BY <2>3 DEF CancelGet, CancelAbort, rowVars, workerVars
  <2>4. CASE CreateJob(j)
    BY <2>4 DEF CreateJob, workerVars
  <2> QED BY <2>1, <2>2, <2>3, <2>4 DEF CancelStep, Request
<1>3. Ended
  BY <1>0, <1>2, EndedBy, Zenon
<1>4. Kept(j)
  BY <1>0, <1>3, EndedKeeps
<1>5. \A k \in Jobs \ {j} : Kept(k) => Frame(k)
  BY <1>2, Zenon DEF Frame
<1>6. CASE CreateJob(j) /\ Serving
  <2>1. /\ state'[j] = "pending" /\ start'[j].pc = "get" /\ start'[j].by = "api"
        /\ start'[j].resume = FALSE /\ cancel' = cancel
    BY <1>0, <1>6 DEF CreateJob, NoStart, TypeOK, SupervisorTypeOK
  <2>2. /\ Unlaunched(j) /\ stream[j].pc = "none" /\ j \notin todo
        /\ drain[j].pc = "no" /\ phase \in {"serving", "draining", "marking"}
    BY <1>0, <1>6 DEF CreateJob, JobInv, StartOK, StreamOK, ScanOK, DrainOK,
       Tracked, Serving
  <2>3. Unlaunched(j)'
    BY <1>2, <1>3, <2>2 DEF Unlaunched, Ended
  <2>4. StreamOK(j)' /\ StartOK(j)' /\ DrainOK(j)'
    BY <1>2, <2>1, <2>2, <2>3 DEF StreamOK, StartOK, DrainOK
  <2>5. PhaseOK(j)' /\ RecordOK(j)'
    BY <1>0, <1>2, <2>1, <2>2, Zenon DEF JobInv, PhaseOK, RecordOK, Serving
  <2>6. ScanOK(j)'
    BY <1>0, <1>2, <1>4, <2>2, Zenon DEF JobInv, ScanOK, Kept
  <2> QED BY <1>3, <1>5, <2>4, <2>5, <2>6, Local DEF JobInv
<1>7. CASE ~(CreateJob(j) /\ Serving)
  <2>1. /\ start' = start
        /\ \/ state'[j] = state[j]
           \/ state'[j] = "cancelled" /\ state[j] # "absent" /\ Serving
        /\ ~Serving => cancel'[j].pc = "none"
    <3> USE <1>0, <1>7 DEF TypeOK, SupervisorTypeOK
    <3>1. CASE CancelStop(j)
      <4>1. Serving
        BY <3>1 DEF CancelStop, JobInv, PhaseOK
      <4> QED BY <3>1, <4>1 DEF CancelStop, rowVars
    <3>2. CASE CancelTransition(j)
      <4>1. Serving
        BY <3>2 DEF CancelTransition, JobInv, PhaseOK
      <4>2. \/ state'[j] = state[j]
            \/ state'[j] = "cancelled" /\ state[j] # "absent"
        <5>1. /\ state[j] \in RowState
              /\ state' = Transition(j, "cancelled") /\ "cancelled" \in JobState
          BY <3>2 DEF CancelTransition, JobState, Terminal
        <5>2. IsValidTransition(state[j], "cancelled") => state[j] # "absent"
          BY <5>1, ValidFrom
        <5> QED BY <5>1, <5>2 DEF Transition
      <4> QED BY <3>2, <4>1, <4>2 DEF CancelTransition
    <3>3. CASE Serving /\ CancelGet(j)
      BY <3>3 DEF CancelGet, rowVars
    <3>4. CASE CancelAbort(j)
      <4>1. cancel'[j] = NoCancel /\ start' = start /\ state' = state
        BY <3>4 DEF CancelAbort, rowVars
      <4> QED BY <4>1, Shapes, Zenon
    <3> HIDE DEF TypeOK, SupervisorTypeOK
    <3> QED BY <3>1, <3>2, <3>3, <3>4 DEF CancelStep, Request
  <2>2. StreamOK(j)'
    BY <1>0, <1>2, <1>4, <2>1, Zenon DEF JobInv, StreamOK, Kept, Lines, Tracked
  <2>3. StartOK(j)'
    <3>1. /\ start[j].pc # "none" => (start[j].by = "scan" <=> phase = "scan")
          /\ Unlaunched(j) => Unlaunched(j)'
      BY <1>0, <1>2, <1>3, Zenon DEF JobInv, PhaseOK, Unlaunched, Ended
    <3> QED BY <1>0, <1>2, <1>4, <2>1, <3>1, Zenon
            DEF JobInv, StartOK, Kept, Tracked, Serving
  <2>4. PhaseOK(j)' /\ DrainOK(j)' /\ RecordOK(j)'
    BY <1>0, <1>2, <2>1 DEF JobInv, PhaseOK, DrainOK, RecordOK, Serving
  <2>5. ScanOK(j)'
    BY <1>0, <1>2, <1>4, <2>1, Zenon DEF JobInv, ScanOK, Kept, Serving
  <2> QED BY <1>3, <1>5, <2>2, <2>3, <2>4, <2>5, Local DEF JobInv
<1> QED BY <1>6, <1>7

-----------------------------------------------------------------------------
(* The remaining types. *)

\* A step of Cancel, or of a client.
LEMMA TypeCancel ==
  ASSUME NEW j \in Jobs, TypeOK, CancelStep(j) \/ CancelGet(j) \/ CancelAbort(j)
  PROVE  WorkerTypeOK' /\ SupervisorTypeOK'
<1> USE DEF TypeOK, WorkerTypeOK, SupervisorTypeOK
<1>1. CASE CancelGet(j)
  <2>1. [pc |-> IF cid[j] = None THEN "transition" ELSE "stop", c |-> cid[j]]
        \in CancelRec
    BY DEF CancelRec
  <2> QED BY <1>1, <2>1 DEF CancelGet, rowVars, workerVars
<1>2. CASE CancelStop(j)
  <2>1. \A r \in CancelRec : [r EXCEPT !.pc = "transition"] \in CancelRec
    BY Zenon DEF CancelRec
  <2> QED BY <1>2, <2>1, DockerType DEF CancelStop, rowVars
<1>3. CASE CancelTransition(j)
  <2>1. state' \in [Jobs -> RowState]
    BY <1>3, TransitionType DEF CancelTransition, JobState, Terminal
  <2> QED BY <1>3, <2>1, NoneType DEF CancelTransition, workerVars
<1>4. CASE CancelAbort(j)
  BY <1>4, NoneType DEF CancelAbort, rowVars, workerVars
<1> QED BY <1>1, <1>2, <1>3, <1>4 DEF CancelStep

\* A step of the drain.
LEMMA TypeDrain ==
  ASSUME TypeOK, DrainStep PROVE TypeOK'
<1> USE DEF TypeOK, WorkerTypeOK, SupervisorTypeOK, Phase, scanVars,
            supervisorVars, rowVars, goVars, workerVars
<1> DEFINE DrainRec == [pc : {"no", "stop", "wait", "mark"}, c : Cids \cup {None}]
<1>1. ASSUME NEW j \in Jobs, DrainStop(j) PROVE TypeOK'
  <2>1. cont' \in [Cids -> Container]
    BY <1>1, DockerType DEF DrainStop
  <2>2. drain' \in [Jobs -> DrainRec]
    BY <1>1 DEF DrainStop
  <2> QED BY <1>1, <2>1, <2>2 DEF DrainStop
<1>2. ASSUME NEW j \in Jobs, DrainWait(j) PROVE TypeOK'
  <2>1. cont' \in [Cids -> Container]
    BY <1>2, DockerType DEF DrainWait
  <2>2. drain' \in [Jobs -> DrainRec]
    BY <1>2, Zenon DEF DrainWait
  <2> QED BY <1>2, <2>1, <2>2 DEF DrainWait
<1>3. ASSUME NEW j \in Jobs, MarkInterrupted(j) PROVE TypeOK'
  <2>1. state' \in [Jobs -> RowState]
    BY <1>3, TransitionType DEF MarkInterrupted, JobState, Terminal
  <2> QED BY <1>3, <2>1 DEF MarkInterrupted, NoDrain
<1>4. CASE DrainDone
  BY <1>4 DEF DrainDone
<1>5. CASE Exit
  BY <1>5, TypeDie DEF Exit
<1> QED BY <1>1, <1>2, <1>3, <1>4, <1>5 DEF DrainStep

\* Every step keeps the types.
LEMMA TypeNext ==
  ASSUME Inv, Next
  PROVE  TypeOK'
<1>0. /\ TypeOK /\ ContainerInv
      /\ \A j \in Jobs :
           /\ stream[j].pc # "none" => stream[j].c \in Cids
           /\ start[j].pc = "track" => start[j].c \in Cids
      /\ \A j \in liveUp : live[j] \in Cids
  BY Zenon DEF Inv, JobInv, StreamOK, StartOK, ScanOK, TypeOK
<1>1. CASE Boot BY <1>0, <1>1, TypeBoot
<1>2. CASE Crash BY <1>0, <1>2, TypeDie DEF Crash
<1>3. CASE Signal
  <2>1. \A j \in Jobs : stream[j].c \in Cids \cup {None}
    BY <1>0, Zenon DEF TypeOK, SupervisorTypeOK, StreamRec
  <2> QED BY <1>0, <1>3, <2>1, Zenon DEF Signal, NoDrain, TypeOK, WorkerTypeOK,
             SupervisorTypeOK, Phase, scanVars, supervisorVars, rowVars,
             goVars, workerVars
<1>4. CASE ScanStep BY <1>0, <1>4, TypeScan
<1>5. CASE DrainStep BY <1>0, <1>5, TypeDrain
<1>6. ASSUME NEW j \in Jobs, GoStep(j) \/ Request(j) PROVE TypeOK'
  <2>1. WorkerTypeOK' /\ SupervisorTypeOK'
    <3>1. CASE StartStep(j, pid) BY <1>0, <3>1, TypeStart DEF TypeOK
    <3>2. CASE StreamStep(j) BY <1>0, <3>2, TypeStream
    <3>3. CASE CancelStep(j) \/ CancelGet(j) \/ CancelAbort(j)
      BY <1>0, <3>3, TypeCancel
    <3>4. CASE CreateJob(j) BY <1>0, <3>4, TypeCreate
    <3> QED BY <1>6, <3>1, <3>2, <3>3, <3>4 DEF GoStep, Request
  <2>2. UNCHANGED mainVars BY <1>6 DEF GoStep, Request
  <2> QED BY <1>0, <2>1, <2>2, Zenon DEF TypeOK, mainVars, scanVars
<1>7. ASSUME NEW c \in Cids, ContainerStep(c) \/ ContainerCrash(c) \/ Reap(c)
      PROVE  TypeOK'
  <2>1. WorkerTypeOK'
    <3>1. CASE WorkerStep(c) BY <1>0, <3>1, TypeWorker
    <3>2. CASE WorkerCrash(c) \/ Reap(c)
      <4>1. (cont' = Killed(c) \/ cont' = Removed(c)) /\ UNCHANGED <<file, overlap>>
        BY <3>2 DEF WorkerCrash, Reap
      <4>2. Killed(c) \in [Cids -> Container] /\ Removed(c) \in [Cids -> Container]
        BY <1>0, DockerType DEF TypeOK, WorkerTypeOK
      <4> QED BY <1>0, <4>1, <4>2 DEF TypeOK, WorkerTypeOK
    <3> QED BY <1>7, <3>1, <3>2 DEF ContainerStep, ContainerCrash
  <2>2. UNCHANGED <<mainVars, supervisorVars>>
    BY <1>7 DEF ContainerStep, ContainerCrash, Reap
  <2> QED BY <1>0, <2>1, <2>2 DEF TypeOK, SupervisorTypeOK, mainVars, scanVars,
             supervisorVars, rowVars, goVars
<1> QED BY <1>1, <1>2, <1>3, <1>4, <1>5, <1>6, <1>7 DEF Next

-----------------------------------------------------------------------------
(* main(). *)

\* A step of main() that touches no container and keeps every job's part.
LEMMA InvMain ==
  ASSUME Inv, TypeOK', UNCHANGED workerVars, \A k \in Jobs : JobInv(k)'
  PROVE  Inv'
BY EndedKeeps DEF Inv, Ended, workerVars

\* The process starts.
LEMMA InvBoot ==
  ASSUME Inv, TypeOK', Boot PROVE Inv'
<1>1. /\ phase = "down" /\ phase' = "read"
      /\ UNCHANGED <<scanVars, drain, supervisorVars, workerVars>>
  BY DEF Boot
<1>2. ASSUME NEW k \in Jobs PROVE JobInv(k)'
  <2>1. JobInv(k)
    BY DEF Inv
  <2> USE <1>1, <2>1 DEF JobInv, scanVars, supervisorVars, rowVars, goVars,
          workerVars
  <2>2. StreamOK(k)' /\ StartOK(k)' /\ RecordOK(k)'
    BY Zenon DEF StreamOK, StartOK, RecordOK, Unlaunched, Lines
  <2>3. PhaseOK(k)' /\ ScanOK(k)' /\ DrainOK(k)'
    BY Zenon DEF PhaseOK, ScanOK, DrainOK, Serving
  <2> QED BY <2>2, <2>3
<1> QED BY <1>1, <1>2, InvMain

\* The process ends: nothing but rows, files and containers remains.
LEMMA InvDie ==
  ASSUME Inv, TypeOK', Die PROVE Inv'
<1>1. /\ phase' = "down" /\ todo' = {} /\ liveUp' = {}
      /\ UNCHANGED <<rowVars, workerVars>>
      /\ \A k \in Jobs : /\ start'[k] = NoStart /\ stream'[k] = NoStream
                         /\ cancel'[k] = NoCancel /\ drain'[k] = NoDrain
  BY DEF Die, NoStarts, NoStreams, NoCancels
<1>2. ASSUME NEW k \in Jobs PROVE JobInv(k)'
  <2>1. JobInv(k)
    BY DEF Inv
  <2>2. /\ start'[k].pc = "none" /\ start'[k].resume = FALSE
        /\ stream'[k].pc = "none" /\ cancel'[k].pc = "none" /\ drain'[k].pc = "no"
    BY <1>1, Shapes, Zenon
  <2>3. UNCHANGED <<state, ckpt, file, cont, overlap>>
    BY <1>1 DEF rowVars, workerVars
  <2>4. StartOK(k)' /\ RecordOK(k)'
    BY <2>1, <2>2, <2>3, Zenon DEF JobInv, StartOK, RecordOK, Unlaunched
  <2>5. StreamOK(k)' /\ PhaseOK(k)' /\ ScanOK(k)' /\ DrainOK(k)'
    BY <1>1, <2>2, Zenon DEF StreamOK, PhaseOK, ScanOK, DrainOK
  <2> QED BY <2>4, <2>5 DEF JobInv
<1> QED BY <1>1, <1>2, InvMain

\* The steps of the scan and the drain that move main() only.
LEMMA InvPhase ==
  ASSUME Inv, TypeOK', ReadJobs \/ ListLive \/ ScanDone \/ Signal \/ DrainDone
  PROVE  Inv'
<1>1. UNCHANGED <<supervisorVars, workerVars>>
  BY DEF ReadJobs, ListLive, ScanDone, Signal, DrainDone
<1>2. ASSUME NEW k \in Jobs PROVE JobInv(k)'
  <2>1. JobInv(k) /\ ContainerInv /\ TypeOK
    BY DEF Inv
  <2> USE <1>1 DEF supervisorVars, rowVars, goVars, workerVars
  <2>2. StreamOK(k)' /\ StartOK(k)' /\ RecordOK(k)'
    BY <2>1, Zenon DEF JobInv, StreamOK, StartOK, RecordOK, Unlaunched, Lines
  <2>3. CASE ReadJobs
    <3>1. ScanOK(k)'
      <4>1. /\ start[k].pc = "none" /\ stream[k].pc = "none" /\ k \notin todo
            /\ live' = live /\ liveUp' = liveUp /\ ScanOK(k)
        BY <2>1, <2>3, Zenon DEF ReadJobs, JobInv, PhaseOK, ScanOK
      <4>2. CASE todo' = todo
        BY <4>1, <4>2, Zenon DEF ScanOK
      <4>3. CASE /\ phase' = "list"
                 /\ k \in todo' => state[k] # "absent"
                 /\ snap' = [i \in Jobs |-> [state |-> state[i], ckpt |-> ckpt[i]]]
        <5>1. snap'[k].state = state[k] /\ snap'[k].ckpt = ckpt[k]
          BY <4>3
        <5> QED BY <4>1, <4>3, <5>1, Zenon DEF ScanOK
      <4> QED BY <2>3, <4>2, <4>3, Zenon DEF ReadJobs
    <3>2. PhaseOK(k)' /\ DrainOK(k)'
      BY <2>1, <2>3, Zenon DEF ReadJobs, JobInv, PhaseOK, DrainOK, Serving
    <3> QED BY <2>2, <3>1, <3>2 DEF JobInv
  <2>4. CASE ListLive
    <3>1. k \in liveUp' => live'[k] \in Cids /\ cont[live'[k]].job = k
      <4> SUFFICES ASSUME k \in liveUp'
                   PROVE  live'[k] \in Cids /\ cont[live'[k]].job = k
        OBVIOUS
      <4>1. live'[k] \in Listed(k) /\ RunningFor(k) # {}
        BY <2>4 DEF ListLive
      <4>2. live'[k] \in RunningFor(k)
        BY <4>1 DEF Listed
      <4> QED BY <4>2, Zenon DEF RunningFor
    <3>2. ScanOK(k)'
      BY <2>1, <2>4, <3>1, Zenon DEF ListLive, JobInv, ScanOK
    <3>3. PhaseOK(k)' /\ DrainOK(k)'
      BY <2>1, <2>4, Zenon DEF ListLive, JobInv, PhaseOK, DrainOK, Serving
    <3> QED BY <2>2, <3>2, <3>3 DEF JobInv
  <2>5. CASE ScanDone
    <3>1. ScanOK(k)' /\ PhaseOK(k)' /\ DrainOK(k)'
      BY <2>1, <2>5, Zenon DEF ScanDone, JobInv, ScanOK, PhaseOK, DrainOK, Serving
    <3> QED BY <2>2, <3>1 DEF JobInv
  <2>6. CASE Signal
    <3>1. drain'[k].pc # "no" => stream[k].pc # "none"
      BY <2>6, Zenon DEF Signal, NoDrain
    <3>2. DrainOK(k)'
      BY <2>1, <2>6, <3>1, Zenon DEF Signal, JobInv, DrainOK, StreamOK, Tracked
    <3>3. ScanOK(k)' /\ PhaseOK(k)'
      BY <2>1, <2>6, Zenon DEF Signal, JobInv, ScanOK, PhaseOK, Serving, scanVars
    <3> QED BY <2>2, <3>2, <3>3 DEF JobInv
  <2>7. CASE DrainDone
    <3>1. ScanOK(k)' /\ PhaseOK(k)' /\ DrainOK(k)'
      BY <2>1, <2>7, Zenon DEF DrainDone, JobInv, ScanOK, PhaseOK, DrainOK, Serving,
         scanVars
    <3> QED BY <2>2, <3>1 DEF JobInv
  <2> QED BY <2>3, <2>4, <2>5, <2>6, <2>7
<1> QED BY <1>1, <1>2, InvMain

\* The recovery scan reconciles a job: the row is still as it was read, so
\* the verdict agrees with what is recorded.
LEMMA InvReconcile ==
  ASSUME Inv, TypeOK', NEW j \in Jobs,
         \/ ScanAdopt(j) \/ ScanResumable(j) \/ ScanUnresumable(j)
         \/ ScanInterrupted(j) \/ ScanLeave(j)
  PROVE  Inv'
<1>0. TypeOK /\ JobInv(j) /\ ContainerInv
  BY DEF Inv
<1>1. /\ Scanning(j) /\ cancel' = cancel /\ ckpt' = ckpt
      /\ file' = file /\ cont' = cont /\ overlap' = overlap
  BY DEF ScanAdopt, ScanResumable, ScanUnresumable, ScanInterrupted, ScanLeave,
         supervisorVars, rowVars, goVars, workerVars
<1>2. /\ phase = "scan" /\ phase' = phase /\ todo' = todo \ {j} /\ snap' = snap
      /\ live' = live /\ liveUp' = liveUp /\ drain' = drain
      /\ state[j] = snap[j].state /\ ckpt[j] = snap[j].ckpt /\ state[j] # "absent"
      /\ start[j].pc = "none" /\ stream[j].pc = "none"
  BY <1>0, <1>1, Zenon DEF Scanning, JobInv, ScanOK
<1>3. drain[j].pc = "no"
  BY <1>0, <1>2, Zenon DEF JobInv, DrainOK
<1> DEFINE Turned(r, s, q) ==
             /\ start'[j] = r /\ state'[j] = s /\ stream'[j] = q
             /\ \A k \in Jobs : k # j => /\ start'[k] = start[k]
                                         /\ stream'[k] = stream[k]
                                         /\ state'[k] = state[k]
           resume == [NoStart EXCEPT !.pc = "get", !.by = "scan"]
<1>4. \/ /\ state[j] \in {"running", "checkpointing"} /\ j \in liveUp
         /\ Turned(start[j], state[j], Tracker(live[j]))
      \/ ckpt[j] # 0 /\ Turned(resume, "interrupted_resumable", stream[j])
      \/ ckpt[j] = 0 /\ Turned(start[j], "interrupted_unresumable", stream[j])
      \/ Turned(start[j], state[j], stream[j])
  <2> USE <1>0, <1>2 DEF TypeOK, SupervisorTypeOK, WasRunning
  <2>1. CASE ScanAdopt(j)
    BY <2>1 DEF ScanAdopt, rowVars
  <2>2. CASE ScanResumable(j)
    <3>1. state' = [state EXCEPT ![j] = "interrupted_resumable"]
      <4>1. state[j] = "running" \/ state[j] = "checkpointing"
        BY <2>2 DEF ScanResumable
      <4>2. IsValidTransition(state[j], "interrupted_resumable")
        BY <4>1 DEF IsValidTransition, validTransitions, Endings, Terminal
      <4> QED BY <2>2, <4>2, Zenon DEF ScanResumable, Transition
    <3> QED BY <2>2, <3>1 DEF ScanResumable, Resume
  <2>3. CASE ScanUnresumable(j)
    <3>1. state' = [state EXCEPT ![j] = "interrupted_unresumable"]
      <4>1. state[j] = "running" \/ state[j] = "checkpointing"
        BY <2>3 DEF ScanUnresumable
      <4>2. IsValidTransition(state[j], "interrupted_unresumable")
        BY <4>1 DEF IsValidTransition, validTransitions, Endings, Terminal
      <4> QED BY <2>3, <4>2, Zenon DEF ScanUnresumable, Transition
    <3> QED BY <2>3, <3>1 DEF ScanUnresumable, goVars
  <2>4. CASE ScanInterrupted(j)
    <3>1. ckpt[j] # 0
      BY <2>4, Zenon DEF ScanInterrupted, JobInv, RecordOK
    <3> QED BY <2>4, <3>1 DEF ScanInterrupted, Resume, rowVars
  <2>5. CASE ScanLeave(j)
    BY <2>5 DEF ScanLeave, supervisorVars, rowVars, goVars
  <2> QED BY <2>1, <2>2, <2>3, <2>4, <2>5
<1>5. Ended
  BY <1>1 DEF Ended
<1>6. \A k \in Jobs \ {j} : Kept(k) => Frame(k)
  BY <1>1, <1>2, <1>4 DEF Frame
<1>7. StreamOK(j)'
  <2>1. CASE stream'[j] = stream[j]
    BY <1>2, <2>1, Zenon DEF StreamOK
  <2>2. CASE /\ state[j] \in {"running", "checkpointing"} /\ j \in liveUp
             /\ Turned(start[j], state[j], Tracker(live[j]))
    <3> DEFINE c == live[j]
    <3>1. c \in Cids /\ cont[c].job = j
      BY <1>0, <2>2, Zenon DEF JobInv, ScanOK
    <3>2. cont[c] \in Container /\ cont[c].lo <= cont[c].hi + 1
      BY <1>0, <3>1 DEF TypeOK, WorkerTypeOK, ContainerInv
    <3>3. /\ stream'[j].c = c /\ stream'[j].n = 0
          /\ stream'[j].saw = FALSE /\ stream'[j].ok = FALSE
      <4>1. stream'[j] = Tracker(c)
        BY <2>2, Zenon
      <4>2. /\ Tracker(c).c = c /\ Tracker(c).n = 0
            /\ Tracker(c).saw = FALSE /\ Tracker(c).ok = FALSE
        BY Shapes, Zenon
      <4> QED BY <4>1, <4>2, Zenon
    <3>4. 0 <= cont[c].hi - cont[c].lo + 1
      BY <3>2, LinesCounted, Zenon
    <3> QED BY <1>1, <1>2, <2>2, <3>1, <3>3, <3>4, Zenon DEF StreamOK, Lines, Tracked
  <2> QED BY <1>4, <2>1, <2>2
<1>8. StartOK(j)'
  <2>1. CASE start'[j] = start[j]
    <3>1. state'[j] # "absent"
      BY <1>2, <1>4
    <3>2. start[j].resume => file[j] > 0
      BY <1>0, Zenon DEF JobInv, StartOK
    <3> QED BY <1>1, <1>2, <2>1, <3>1, <3>2, Zenon DEF StartOK
  <2>2. CASE Turned(resume, "interrupted_resumable", stream[j])
    <3>1. /\ resume.pc = "get" /\ resume.by = "scan" /\ resume.resume = FALSE
      BY DEF NoStart
    <3> QED BY <2>2, <3>1 DEF StartOK
  <2> QED BY <1>4, <2>1, <2>2
<1>9. PhaseOK(j)'
  <2>1. start'[j].pc = "none" \/ start'[j].by = "scan"
    BY <1>2, <1>4, Zenon DEF NoStart
  <2> QED BY <1>0, <1>1, <1>2, <2>1 DEF JobInv, PhaseOK, Serving
<1>10. ScanOK(j)' /\ DrainOK(j)'
  BY <1>0, <1>1, <1>2, <1>3, Zenon DEF JobInv, ScanOK, DrainOK
<1>11. RecordOK(j)'
  BY <1>0, <1>1, <1>4 DEF JobInv, RecordOK
<1> QED BY <1>5, <1>6, <1>7, <1>8, <1>9, <1>10, <1>11, Local DEF JobInv

\* ShutdownGraceful handles a job of its snapshot.
LEMMA InvDrain ==
  ASSUME Inv, TypeOK', NEW j \in Jobs,
         DrainStop(j) \/ DrainWait(j) \/ MarkInterrupted(j)
  PROVE  Inv'
<1>0. /\ TypeOK /\ JobInv(j) /\ ContainerInv /\ FileInv /\ SoleWorker
  BY DEF Inv
<1>1. /\ phase' = phase /\ todo' = todo /\ snap' = snap /\ live' = live
      /\ liveUp' = liveUp /\ ckpt' = ckpt /\ start' = start /\ stream' = stream
      /\ cancel' = cancel /\ file' = file /\ overlap' = overlap
      /\ drain[j].pc # "no"
  BY DEF DrainStop, DrainWait, MarkInterrupted, scanVars, supervisorVars, rowVars,
         goVars, workerVars
<1>2. Ended
  <2>1. cont' = cont \/ cont' = Killed(drain[j].c)
    BY DEF DrainStop, DrainWait, MarkInterrupted, workerVars
  <2> QED BY <1>0, <1>1, <2>1, EndedBy, Zenon
<1>3. Kept(j)
  BY <1>0, <1>2, EndedKeeps
<1>4. /\ \A k \in Jobs : k # j => drain'[k] = drain[k] /\ state'[k] = state[k]
      /\ \/ state'[j] = state[j]
         \/ /\ phase = "marking"
            /\ \/ state'[j] = "interrupted_unresumable" /\ ckpt[j] = 0
               \/ state'[j] = "interrupted_resumable" /\ ckpt[j] # 0
  <2> USE <1>0 DEF TypeOK, SupervisorTypeOK
  <2>1. CASE DrainStop(j) \/ DrainWait(j)
    BY <2>1 DEF DrainStop, DrainWait, supervisorVars, rowVars
  <2>2. CASE MarkInterrupted(j)
    BY <2>2, Zenon DEF MarkInterrupted, Transition
  <2> QED BY <2>1, <2>2
<1>5. \A k \in Jobs \ {j} : Kept(k) => Frame(k)
  BY <1>1, <1>4, Zenon DEF Frame
<1>6. /\ start[j].pc = "none" /\ state[j] # "absent" /\ state'[j] # "absent"
      /\ phase \in {"draining", "marking"} /\ j \notin todo
      /\ phase = "marking" => stream[j].pc = "none"
  BY <1>0, <1>1, <1>4, Zenon DEF JobInv, DrainOK, ScanOK
<1>7. StreamOK(j)'
  BY <1>0, <1>1, <1>3, <1>4, <1>6, Zenon DEF JobInv, StreamOK, Kept, Lines
<1>8. StartOK(j)'
  BY <1>0, <1>1, <1>6, Zenon DEF JobInv, StartOK
<1>9. PhaseOK(j)' /\ DrainOK(j)'
  BY <1>0, <1>1, <1>6, Zenon DEF JobInv, PhaseOK, DrainOK, Serving
<1>10. ScanOK(j)'
  BY <1>0, <1>1, <1>3, <1>6 DEF JobInv, ScanOK, Kept
<1>11. RecordOK(j)'
  BY <1>0, <1>1, <1>4, Zenon DEF JobInv, RecordOK
<1> QED BY <1>2, <1>5, <1>7, <1>8, <1>9, <1>10, <1>11, Local DEF JobInv

-----------------------------------------------------------------------------
(* The theorems. *)

\* Nothing runs and nothing is stored at first.
LEMMA InvInit == Init => Inv
<1> SUFFICES ASSUME Init PROVE Inv
  OBVIOUS
<1>1. TypeOK
  BY TypeInit
<1>2. ContainerInv /\ FileInv /\ SoleWorker
  BY <1>1, PeerInit DEF Init, SupervisorInit, Peer, Shared
<1>3. ASSUME NEW j \in Jobs PROVE JobInv(j)
  <2>1. /\ state[j] = "absent" /\ ckpt[j] = 0 /\ file[j] = 0
        /\ start[j] = NoStart /\ stream[j] = NoStream /\ cancel[j] = NoCancel
        /\ drain[j] = NoDrain /\ j \notin todo /\ j \notin liveUp
        /\ \A c \in Cids : cont[c] = NoContainer
    BY DEF Init, WorkerInit, SupervisorInit, NoStarts, NoStreams, NoCancels
  <2>2. /\ start[j].pc = "none" /\ start[j].resume = FALSE /\ stream[j].pc = "none"
        /\ cancel[j].pc = "none" /\ drain[j].pc = "no"
        /\ \A c \in Cids : cont[c].job = None
    BY <2>1, Shapes, Zenon
  <2>3. StreamOK(j) /\ PhaseOK(j) /\ ScanOK(j) /\ DrainOK(j)
    BY <2>1, <2>2, Zenon DEF StreamOK, PhaseOK, ScanOK, DrainOK
  <2>4. j # None
    BY NoneAssumption
  <2>5. StartOK(j) /\ RecordOK(j)
    <3>1. 0 <= 0
      OBVIOUS
    <3> QED BY <2>1, <2>2, <2>4, <3>1, Zenon DEF StartOK, Unlaunched, RecordOK
  <2> QED BY <2>3, <2>5 DEF JobInv
<1> QED BY <1>1, <1>2, <1>3 DEF Inv

\* Every step of the controller, its goroutines, clients, containers and the
\* reaper keeps the invariant.
LEMMA InvNext ==
  ASSUME Inv, Next PROVE Inv'
<1>0. TypeOK' /\ TypeOK
  BY TypeNext DEF Inv
<1>1. CASE Boot
  BY <1>0, <1>1, InvBoot
<1>2. CASE Crash
  BY <1>0, <1>2, InvDie DEF Crash
<1>3. CASE Signal
  BY <1>0, <1>3, InvPhase
<1>4. CASE ScanStep
  BY <1>0, <1>4, InvPhase, InvReconcile DEF ScanStep
<1>5. CASE DrainStep
  BY <1>0, <1>5, InvPhase, InvDrain, InvDie DEF DrainStep, Exit
<1>6. ASSUME NEW j \in Jobs, GoStep(j) PROVE Inv'
  <2>1. UNCHANGED mainVars
    BY <1>6 DEF GoStep
  <2>2. CASE StreamStep(j)
    BY <1>0, <2>1, <2>2, InvStream
  <2>3. CASE CancelStep(j)
    BY <1>0, <2>1, <2>3, InvRequest
  <2>4. CASE StartStep(j, pid)
    <3>1. CASE UNCHANGED workerVars \/ StartUndo(j)
      BY <1>0, <2>1, <2>4, <3>1, InvStart
    <3>2. CASE ~(UNCHANGED workerVars \/ StartUndo(j))
      <4>1. StartRun(j, pid)
        BY <2>4, <3>2 DEF StartStep, StartGet, StartTransition, StartTrack,
           StartFail
      <4>2. PICK c \in Cids :
              /\ DockerRun(c, j, pid, start[j].resume)
              /\ start' = [start EXCEPT ![j] = [@ EXCEPT !.pc = "transition",
                                                       !.c = c]]
        BY <3>2, <4>1, Zenon DEF StartRun
      <4>3. start[j].pc = "run" /\ UNCHANGED <<rowVars, stream, cancel>>
        BY <4>1, Zenon DEF StartRun
      <4> QED BY <1>0, <2>1, <4>2, <4>3, InvLaunch, Zenon
    <3> QED BY <3>1, <3>2
  <2> QED BY <1>6, <2>2, <2>3, <2>4 DEF GoStep
<1>7. ASSUME NEW j \in Jobs, Request(j) PROVE Inv'
  BY <1>0, <1>7, InvRequest
<1>8. ASSUME NEW c \in Cids, ContainerStep(c) PROVE Inv'
  BY <1>0, <1>8, InvWorker
<1>9. ASSUME NEW c \in Cids, ContainerCrash(c) \/ Reap(c) PROVE Inv'
  <2>1. Ended
    BY <1>0, <1>9, EndedBy DEF ContainerCrash, WorkerCrash, Reap
  <2> QED BY <1>0, <1>9, <2>1, InvEnded DEF ContainerCrash, Reap
<1> QED BY <1>1, <1>2, <1>3, <1>4, <1>5, <1>6, <1>7, <1>8, <1>9 DEF Next

\* A step that changes nothing.
LEMMA InvStutter ==
  ASSUME Inv, UNCHANGED vars PROVE Inv'
<1> USE DEF vars, mainVars, scanVars, supervisorVars, rowVars, goVars, workerVars
<1>1. TypeOK'
  BY DEF Inv, TypeOK, WorkerTypeOK, SupervisorTypeOK
<1>2. Ended
  BY DEF Ended
<1> QED BY <1>1, <1>2, InvEnded

\* Inv holds in every state of every behaviour of the controller.
THEOREM Invariance == Spec => []Inv
<1>1. Inv /\ [Next]_vars => Inv'
  BY InvNext, InvStutter
<1> QED BY InvInit, <1>1, PTL DEF Spec

\* The rows, goroutines, containers and files are always well-formed.
THEOREM TypeCorrect == Spec => []TypeOK
<1>1. Inv => TypeOK
  BY DEF Inv
<1> QED BY <1>1, Invariance, PTL

\* RecordCheckpoint never gets ahead of write_state, through any number of
\* crashes, restarts, replayed logs and lost lines.
THEOREM RecordsAreBacked == Spec => []CheckpointBacked
<1>1. Inv => CheckpointBacked
  BY Zenon DEF Inv, JobInv, RecordOK, CheckpointBacked
<1> QED BY <1>1, Invariance, PTL

\* A job settled as completed has its final state on disk, and keeps it.
THEOREM CompletedHasFinalState == Spec => []CompletedIsFinal
<1>1. Inv => CompletedIsFinal
  BY DEF Inv, JobInv, RecordOK, CompletedIsFinal
<1> QED BY <1>1, Invariance, PTL

\* Start passes --resume-from only when there is a state file to resume from.
THEOREM ResumesFindState == Spec => []ResumeFindsState
<1>1. Inv => ResumeFindsState
  BY DEF Inv, FileInv, ResumeFindsState
<1> QED BY <1>1, Invariance, PTL

\* The verdicts of the recovery scan and of the drain agree with the record.
THEOREM VerdictsMatch == Spec => []VerdictMatchesRecord
<1>1. Inv => VerdictMatchesRecord
  BY Zenon DEF Inv, JobInv, RecordOK, VerdictMatchesRecord
<1> QED BY <1>1, Invariance, PTL

-----------------------------------------------------------------------------
(* The contract. *)

\* What a step may do to the rows, the records and the files.
Promised == [Contract!Next]_(Contract!contractVars)

\* The two modules share the table of JobStates.
LEMMA SameTable ==
  ASSUME NEW from, NEW to
  PROVE  /\ Contract!IsValidTransition(from, to) = IsValidTransition(from, to)
         /\ Contract!JobState = JobState
BY DEF Contract!IsValidTransition, IsValidTransition, Contract!validTransitions,
       validTransitions, Contract!Endings, Endings, Contract!JobState, JobState,
       Contract!Terminal, Terminal

\* A step that leaves them alone.
LEMMA NothingPromised ==
  ASSUME UNCHANGED <<state, ckpt, file, overlap>> PROVE Promised
BY DEF Promised, Contract!contractVars

\* store.Transition moves a row, or leaves it as it is.
LEMMA TransitionPromised ==
  ASSUME TypeOK, NEW j \in Jobs, NEW next \in JobState,
         state' = Transition(j, next) \/ state' = state,
         UNCHANGED <<ckpt, file, overlap>>,
         state'[j] # state[j] =>
           /\ next = "completed" => file[j] = LastCkpt \/ overlap[j]
           /\ next = "interrupted_unresumable" => ckpt[j] = 0
           /\ next = "interrupted_resumable" => ckpt[j] # 0
  PROVE  Promised
<1>1. CASE state' = state
  BY <1>1, NothingPromised
<1>2. CASE state' # state
  <2>1. /\ IsValidTransition(state[j], next)
        /\ state' = [state EXCEPT ![j] = next]
    BY <1>2 DEF Transition
  <2>2. next # state[j] /\ state'[j] = next
    BY <1>2, <2>1, Zenon DEF TypeOK, SupervisorTypeOK
  <2>3. Contract!Move(j, next)
    BY <2>1, <2>2, SameTable, Zenon DEF Contract!Move
  <2>4. Contract!Next
    BY <2>3, SameTable DEF Contract!Next
  <2> QED BY <2>4 DEF Promised
<1> QED BY <1>1, <1>2

\* Supervisor.Start moves the row, and a docker run may make workers overlap.
LEMMA StartPromised ==
  ASSUME Inv, NEW j \in Jobs, StartStep(j, pid) PROVE Promised
<1>0. TypeOK
  BY DEF Inv
<1>1. CASE StartTransition(j)
  BY <1>0, <1>1, TransitionPromised DEF StartTransition, workerVars, JobState
<1>2. CASE StartFail(j)
  BY <1>0, <1>2, TransitionPromised DEF StartFail, workerVars, JobState, Terminal
<1>3. CASE StartRun(j, pid)
  <2>1. CASE UNCHANGED workerVars
    BY <1>3, <2>1, NothingPromised, Zenon DEF StartRun, rowVars, workerVars
  <2>2. ASSUME NEW c \in Cids, DockerRun(c, j, pid, start[j].resume)
        PROVE  Promised
    <3>1. /\ UNCHANGED <<state, ckpt, file>>
          /\ overlap' = [overlap EXCEPT ![j] = @ \/ RunningFor(j) # {}]
      BY <1>3, <2>2, Zenon DEF StartRun, DockerRun, rowVars
    <3>2. CASE RunningFor(j) # {}
      <4>1. overlap' = [overlap EXCEPT ![j] = TRUE]
        BY <1>0, <3>1, <3>2, Zenon DEF TypeOK, WorkerTypeOK
      <4>2. Contract!Share(j)
        BY <3>1, <4>1, Zenon DEF Contract!Share
      <4> QED BY <4>2 DEF Promised, Contract!Next
    <3>3. CASE RunningFor(j) = {}
      <4>1. overlap' = overlap
        BY <1>0, <3>1, <3>3 DEF TypeOK, WorkerTypeOK
      <4> QED BY <3>1, <4>1, NothingPromised
    <3> QED BY <3>2, <3>3
  <2> QED BY <1>3, <2>1, <2>2, Zenon DEF StartRun
<1>4. CASE StartGet(j) \/ StartUndo(j) \/ StartTrack(j)
  BY <1>4, NothingPromised DEF StartGet, StartUndo, StartTrack, rowVars, workerVars
<1> QED BY <1>1, <1>2, <1>3, <1>4 DEF StartStep

\* runStream records what is on disk and completes what is final.
LEMMA StreamPromised ==
  ASSUME Inv, Inv', NEW j \in Jobs, StreamStep(j) PROVE Promised
<1>0. TypeOK /\ RecordOK(j)' /\ TypeOK'
  BY DEF Inv, JobInv
<1>1. CASE StreamCheckpoint(j)
  <2>1. UNCHANGED <<state, file, overlap>>
    BY <1>1 DEF StreamCheckpoint, workerVars
  <2>2. CASE ckpt' = ckpt
    BY <2>1, <2>2, NothingPromised
  <2>3. CASE ckpt' # ckpt
    <3> DEFINE p == cont[stream[j].c].lo + stream[j].n
    <3>1. ckpt' = [ckpt EXCEPT ![j] = p] /\ ckpt'[j] = p
      BY <1>0, <1>1, <2>3 DEF StreamCheckpoint, RecordCheckpoint, TypeOK, SupervisorTypeOK
    <3>2. p <= file[j] \/ overlap[j]
      BY <1>0, <2>1, <3>1, Zenon DEF RecordOK
    <3>3. p \in 1 .. LastCkpt
      <4>1. stream[j].c \in Cids
        BY <1>1 DEF StreamCheckpoint, Inv, JobInv, StreamOK
      <4>2. cont[stream[j].c].lo \in 1 .. LastCkpt /\ stream[j].n \in 0 .. LastCkpt
        <5>1. cont[stream[j].c] \in Container /\ stream[j] \in StreamRec
          BY <1>0, <4>1 DEF TypeOK, WorkerTypeOK, SupervisorTypeOK
        <5> QED BY <5>1, Ranges, Zenon
      <4>3. ckpt'[j] \in 0 .. LastCkpt
        BY <1>0 DEF TypeOK, SupervisorTypeOK
      <4>4. p \in 0 .. LastCkpt
        BY <3>1, <4>3, Zenon
      <4> QED BY <4>2, <4>4, LogSize, Zenon
    <3>4. Contract!Record(j, p)
      BY <2>1, <3>1, <3>2, Zenon DEF Contract!Record
    <3> QED BY <3>3, <3>4, Zenon DEF Promised, Contract!Next
  <2> QED BY <2>2, <2>3
<1>2. CASE StreamMarkFailed(j)
  BY <1>0, <1>2, TransitionPromised, Zenon
     DEF StreamMarkFailed, workerVars, JobState, Terminal
<1>3. CASE StreamSettle(j)
  <2> DEFINE next == IF stream[j].ok THEN "completed" ELSE "failed"
  <2>1. next \in JobState /\ state' = Transition(j, next)
        /\ UNCHANGED <<ckpt, file, overlap>>
    BY <1>3 DEF StreamSettle, workerVars, JobState, Terminal
  <2>2. state'[j] = state[j] \/ state'[j] = next
    BY <1>0, <2>1 DEF Transition, TypeOK, SupervisorTypeOK
  <2>3. state'[j] # state[j] => (next = "completed" => file[j] = LastCkpt \/ overlap[j])
    BY <1>0, <2>1, <2>2, Zenon DEF RecordOK
  <2>4. next # "interrupted_unresumable" /\ next # "interrupted_resumable"
    OBVIOUS
  <2> QED BY <1>0, <2>1, <2>3, <2>4, TransitionPromised
<1>4. CASE \/ StreamAttach(j) \/ StreamCompleted(j) \/ StreamEOF(j)
           \/ StreamInspect(j) \/ StreamRemove(j)
  BY <1>4, NothingPromised DEF StreamAttach, StreamCompleted, StreamEOF,
     StreamInspect, StreamRemove, rowVars, workerVars
<1> QED BY <1>1, <1>2, <1>3, <1>4 DEF StreamStep

\* A worker advances the file by one checkpoint, or writes the final state
\* again.
LEMMA WorkerPromised ==
  ASSUME Inv, Inv', NEW c \in Cids, ContainerStep(c) PROVE Promised
<1>0. TypeOK /\ TypeOK' /\ ContainerInv /\ FileInv
  BY DEF Inv
<1>1. UNCHANGED <<state, ckpt>>
  BY DEF ContainerStep, supervisorVars, rowVars
<1>2. CASE WriteState(c)
  <2>1. PICK j \in Jobs : j = cont[c].job
    BY <1>0, <1>2 DEF WriteState, Running, ContainerInv, TypeOK, WorkerTypeOK,
       Container
  <2> DEFINE p == cont[c].hi + 1
  <2>2. file' = [file EXCEPT ![j] = p] /\ file'[j] = p /\ overlap' = overlap
    BY <1>0, <1>2, <2>1 DEF WriteState, TypeOK, WorkerTypeOK
  <2>3. /\ cont[c].hi \in 0 .. LastCkpt /\ file[j] \in 0 .. LastCkpt
        /\ cont[c].hi < LastCkpt
    BY <1>0, <1>2, <2>1 DEF WriteState, TypeOK, WorkerTypeOK, Container
  <2>4. p \in 1 .. LastCkpt
    BY <2>3, LastCkptAssumption
  <2>5. ~overlap[j] => cont[c].hi <= file[j] /\ file[j] <= cont[c].hi + 1
    BY <1>0, <1>2, <2>1 DEF FileInv, WriteState, Running
  <2>6. CASE p = file[j]
    <3>1. file' = file
      BY <1>0, <2>2, <2>6 DEF TypeOK, WorkerTypeOK
    <3> QED BY <1>1, <2>2, <3>1, NothingPromised
  <2>7. CASE p # file[j]
    <3>1. p = file[j] + 1 \/ overlap[j]
      <4> DEFINE h == cont[c].hi  f == file[j]
      <4>1. h \in Int /\ f \in Int
        BY <2>3, LastCkptAssumption
      <4>2. h + 1 # f /\ (~overlap[j] => h <= f /\ f <= h + 1)
        BY <2>5, <2>7
      <4> HIDE DEF h, f
      <4>3. h + 1 = f + 1 \/ overlap[j]
        BY <4>1, <4>2, LastLine, Zenon
      <4> QED BY <4>3 DEF h, f
    <3>2. Contract!Persist(j, p)
      BY <1>1, <2>2, <3>1 DEF Contract!Persist
    <3> QED BY <2>4, <3>2 DEF Promised, Contract!Next
  <2> QED BY <2>6, <2>7
<1>3. CASE file' = file /\ overlap' = overlap
  BY <1>1, <1>3, NothingPromised
<1> QED BY <1>2, <1>3 DEF ContainerStep, WorkerStep, WorkerBoot, EmitCheckpoint,
           EmitCompleted, WorkerExit

\* The recovery scan gives up only what has no checkpoint on record.
LEMMA ScanPromised ==
  ASSUME Inv, Inv', ScanStep PROVE Promised
<1>0. TypeOK
  BY DEF Inv
<1>1. CASE ReadJobs \/ ListLive \/ ScanDone
  BY <1>1, NothingPromised, Zenon DEF ReadJobs, ListLive, ScanDone, supervisorVars,
     rowVars, workerVars
<1>2. ASSUME NEW j \in Jobs, ScanAdopt(j) \/ ScanInterrupted(j) \/ ScanLeave(j)
      PROVE  Promised
  BY <1>2, NothingPromised, Zenon DEF ScanAdopt, ScanInterrupted, ScanLeave,
     supervisorVars, rowVars, workerVars
<1>3. ASSUME NEW j \in Jobs, Scanning(j) PROVE ckpt[j] = snap[j].ckpt
  BY <1>3, Zenon DEF Scanning, Inv, JobInv, ScanOK
<1>4. ASSUME NEW j \in Jobs, ScanResumable(j) PROVE Promised
  <2>1. /\ ckpt[j] # 0 /\ UNCHANGED <<ckpt, file, overlap>>
        /\ state' = Transition(j, "interrupted_resumable")
        /\ "interrupted_resumable" \in JobState
    BY <1>3, <1>4 DEF ScanResumable, workerVars, JobState
  <2> QED BY <1>0, <2>1, TransitionPromised
<1>5. ASSUME NEW j \in Jobs, ScanUnresumable(j) PROVE Promised
  <2>1. /\ ckpt[j] = 0 /\ UNCHANGED <<ckpt, file, overlap>>
        /\ state' = Transition(j, "interrupted_unresumable")
        /\ "interrupted_unresumable" \in JobState
    BY <1>3, <1>5 DEF ScanUnresumable, workerVars, JobState, Terminal
  <2> QED BY <1>0, <2>1, TransitionPromised
<1> QED BY <1>1, <1>2, <1>4, <1>5 DEF ScanStep

\* So does the drain.
LEMMA DrainPromised ==
  ASSUME Inv, DrainStep PROVE Promised
<1>0. TypeOK
  BY DEF Inv
<1>1. ASSUME NEW j \in Jobs, MarkInterrupted(j) PROVE Promised
  <2> DEFINE next == IF ckpt[j] = 0 THEN "interrupted_unresumable"
                     ELSE "interrupted_resumable"
  <2>1. /\ state' = Transition(j, next) \/ state' = state
        /\ next \in JobState /\ UNCHANGED <<ckpt, file, overlap>>
    BY <1>1 DEF MarkInterrupted, workerVars, JobState, Terminal
  <2>2. /\ next # "completed"
        /\ next = "interrupted_unresumable" => ckpt[j] = 0
        /\ next = "interrupted_resumable" => ckpt[j] # 0
    OBVIOUS
  <2> QED BY <1>0, <2>1, <2>2, TransitionPromised
<1>2. CASE \/ DrainDone \/ Exit
           \/ \E j \in Jobs : DrainStop(j) \/ DrainWait(j)
  BY <1>2, NothingPromised DEF DrainDone, Exit, Die, DrainStop, DrainWait,
     supervisorVars, rowVars, workerVars
<1> QED BY <1>1, <1>2 DEF DrainStep

\* A client submits a job or cancels one.
LEMMA RequestPromised ==
  ASSUME Inv, NEW j \in Jobs, CancelStep(j) \/ Request(j) PROVE Promised
<1>0. TypeOK
  BY DEF Inv
<1>1. CASE CreateJob(j)
  <2>1. Contract!Submit(j)
    BY <1>1 DEF CreateJob, workerVars, Contract!Submit
  <2> QED BY <2>1 DEF Promised, Contract!Next
<1>2. CASE CancelTransition(j)
  BY <1>0, <1>2, TransitionPromised, Zenon
     DEF CancelTransition, workerVars, JobState, Terminal
<1>3. CASE CancelStop(j) \/ CancelGet(j) \/ CancelAbort(j)
  BY <1>3, NothingPromised DEF CancelStop, CancelGet, CancelAbort, rowVars,
     workerVars
<1> QED BY <1>1, <1>2, <1>3 DEF CancelStep, Request

\* Every step of the controller is a step of the contract or invisible to it.
LEMMA StepPromised ==
  ASSUME Inv, Inv', [Next]_vars PROVE Promised
<1>1. CASE UNCHANGED vars
  BY <1>1, NothingPromised DEF vars, supervisorVars, rowVars, workerVars
<1>2. CASE Boot \/ Crash \/ Signal
  BY <1>2, NothingPromised, Zenon DEF Boot, Crash, Die, Signal, supervisorVars,
     rowVars, workerVars
<1>3. CASE ScanStep
  BY <1>3, ScanPromised
<1>4. CASE DrainStep
  BY <1>4, DrainPromised
<1>5. ASSUME NEW j \in Jobs, GoStep(j) \/ Request(j) PROVE Promised
  BY <1>5, StartPromised, StreamPromised, RequestPromised DEF GoStep
<1>6. ASSUME NEW c \in Cids, ContainerStep(c) PROVE Promised
  BY <1>6, WorkerPromised
<1>7. ASSUME NEW c \in Cids, ContainerCrash(c) \/ Reap(c) PROVE Promised
  BY <1>7, NothingPromised DEF ContainerCrash, WorkerCrash, Reap,
     supervisorVars, rowVars
<1> QED BY <1>1, <1>2, <1>3, <1>4, <1>5, <1>6, <1>7 DEF Next

\* The controller implements the contract of the crash modes, for any jobs,
\* failures and number of restarts.
THEOREM Implementation == Spec => ImplementsContract
<1>1. Init => Contract!Init
  BY DEF Init, WorkerInit, SupervisorInit, Contract!Init
<1>2. Inv /\ Inv' /\ [Next]_vars => [Contract!Next]_(Contract!contractVars)
  BY StepPromised DEF Promised
<1> QED BY <1>1, <1>2, Invariance, PTL DEF Spec, ImplementsContract, Contract!Spec

-----------------------------------------------------------------------------
(* What becomes of a container, and of a job that has ended. *)

\* What any step may do to container c.
Grows(c) ==
  cont[c].st # "none" =>
    /\ cont'[c].st # "none"
    /\ cont'[c].job = cont[c].job /\ cont'[c].pid = cont[c].pid
    /\ cont[c].st # "running" =>
         /\ cont'[c].st \in {cont[c].st, "gone"}
         /\ cont'[c].lo = cont[c].lo /\ cont'[c].hi = cont[c].hi
    /\ cont[c].lo <= cont[c].hi => cont'[c].lo = cont[c].lo
    /\ cont[c].done => cont'[c].done /\ cont'[c].hi = cont[c].hi

\* The docker run of a Start is what makes c.
Launches(c) ==
  \E j \in Jobs : /\ start[j].pc = "run" /\ cont'[c].pid = pid /\ cont'[c].job = j
                  /\ start'[j] = [start[j] EXCEPT !.pc = "transition", !.c = c]

\* Where the container table may change.
LEMMA DockerMoves ==
  ASSUME Next
  PROVE  \/ cont' = cont
         \/ \E d : cont' = Killed(d) \/ cont' = Removed(d)
         \/ \E d \in Cids : WorkerStep(d)
         \/ \E j \in Jobs, d \in Cids :
              /\ start[j].pc = "run" /\ DockerRun(d, j, pid, start[j].resume)
              /\ start' = [start EXCEPT ![j] = [@ EXCEPT !.pc = "transition",
                                                         !.c = d]]
<1>1. ASSUME NEW i \in Jobs, GoStep(i)
      PROVE  \/ cont' = cont \/ cont' = Removed(start[i].c)
             \/ cont' = Removed(stream[i].c) \/ cont' = Killed(cancel[i].c)
             \/ StartRun(i, pid)
  BY <1>1 DEF GoStep, StartStep, StartGet, StartTransition, StartUndo,
     StartTrack, StartFail, StreamStep, StreamAttach, StreamCheckpoint,
     StreamCompleted, StreamEOF, StreamInspect, StreamMarkFailed,
     StreamSettle, StreamRemove, CancelStep, CancelStop, CancelTransition,
     workerVars
<1>2. ASSUME NEW i \in Jobs, StartRun(i, pid), cont' # cont
      PROVE  \E d \in Cids :
              /\ start[i].pc = "run" /\ DockerRun(d, i, pid, start[i].resume)
              /\ start' = [start EXCEPT ![i] = [@ EXCEPT !.pc = "transition",
                                                         !.c = d]]
  BY <1>2, Zenon DEF StartRun, workerVars
<1>3. CASE \E d \in Cids : ContainerCrash(d) \/ Reap(d)
  BY <1>3, Zenon DEF ContainerCrash, WorkerCrash, Reap
<1>4. CASE Boot \/ Crash \/ Signal \/ ScanStep \/ \E i \in Jobs : Request(i)
  BY <1>4, Zenon DEF Boot, Crash, Die, Signal, ScanStep, ReadJobs, ListLive,
       ScanAdopt, ScanResumable, ScanUnresumable, ScanInterrupted, ScanLeave,
       ScanDone, Request, CreateJob, CancelGet, CancelAbort, workerVars
<1>5. CASE DrainStep
  BY <1>5, Zenon DEF DrainStep, DrainStop, DrainWait, MarkInterrupted, DrainDone,
       Exit, Die, workerVars
<1>6. CASE \E i \in Jobs : GoStep(i)
  BY <1>1, <1>2, <1>6, Zenon
<1>7. CASE \E d \in Cids : ContainerStep(d)
  BY <1>7, Zenon DEF ContainerStep
<1> QED BY <1>3, <1>4, <1>5, <1>6, <1>7, Zenon DEF Next

\* Containers only go on, end and are launched by a Start.
LEMMA ContainersGrow ==
  ASSUME Inv, Next, NEW c \in Cids
  PROVE  /\ Grows(c)
         /\ cont[c].st = "none" /\ cont'[c].st # "none" => Launches(c)
<1>0. /\ TypeOK /\ ContainerInv /\ cont[c] \in Container
      /\ cont \in [Cids -> Container]
  BY DEF Inv, TypeOK, WorkerTypeOK
<1>1. CASE cont' = cont
  BY <1>1 DEF Grows
<1>2. ASSUME NEW d, cont' = Killed(d) \/ cont' = Removed(d)
      PROVE  Grows(c) /\ (cont[c].st = "none" => cont'[c].st = "none")
  <2>1. \/ cont'[c] = cont[c]
        \/ /\ cont[c].st = "running"
           /\ cont'[c] = [cont[c] EXCEPT !.st = "exited", !.code = "nonzero"]
        \/ cont[c].st # "none" /\ cont'[c] = [cont[c] EXCEPT !.st = "gone"]
    BY <1>0, <1>2, Zenon DEF Killed, Removed, Running
  <2> QED BY <1>0, <2>1, Zenon DEF Grows, Container
<1>3. ASSUME NEW d \in Cids, WorkerStep(d), cont' # Killed(d)
      PROVE  Grows(c) /\ (cont[c].st = "none" => cont'[c].st = "none")
  <2>1. CASE c # d
    <3>1. cont'[c] = cont[c]
      BY <1>0, <1>3, <2>1 DEF WorkerStep, WorkerBoot, WriteState, EmitCheckpoint,
         EmitCompleted, WorkerExit
    <3> QED BY <3>1 DEF Grows
  <2>2. CASE c = d
    <3>0. cont[c].st = "running"
      BY <1>3, <2>2 DEF WorkerStep, WorkerBoot, WriteState, EmitCheckpoint,
         EmitCompleted, WorkerExit, Running
    <3>1. /\ cont[c].lo \in 1 .. LastCkpt /\ cont[c].hi \in 0 .. LastCkpt
          /\ cont[c].pc = "boot" => cont[c].hi = 0 /\ ~cont[c].done
          /\ cont[c].pc = "emit" => cont[c].hi < LastCkpt
          /\ cont[c].done => cont[c].hi = LastCkpt
      BY <1>0 DEF ContainerInv, Container
    <3>2. \/ \E h : /\ cont[c].pc = "boot"
                    /\ cont'[c] = [cont[c] EXCEPT !.pc = "compute", !.lo = h + 1,
                                                 !.hi = h]
          \/ cont'[c] = [cont[c] EXCEPT !.pc = "emit"]
          \/ /\ cont[c].pc = "emit"
             /\ cont'[c] = [cont[c] EXCEPT !.pc = "compute", !.hi = cont[c].hi + 1]
          \/ cont'[c] = [cont[c] EXCEPT !.pc = "exit", !.done = TRUE]
          \/ cont'[c] = [cont[c] EXCEPT !.st = "exited", !.code = "zero"]
      <4>1. CASE WorkerBoot(c)
        <5> DEFINE from == IF cont[c].resume THEN file[cont[c].job] ELSE 0
                   h == IF from < LastCkpt THEN from ELSE LastCkpt - 1
        <5>1. /\ cont[c].pc = "boot"
              /\ cont' = [cont EXCEPT ![c] =
                   [cont[c] EXCEPT !.pc = "compute", !.lo = h + 1, !.hi = h]]
          BY <1>0, <1>3, <2>2, <4>1 DEF WorkerBoot
        <5> HIDE DEF h
        <5>2. cont'[c] = [cont[c] EXCEPT !.pc = "compute", !.lo = h + 1, !.hi = h]
          BY <1>0, <5>1
        <5> QED BY <5>1, <5>2, Zenon
      <4>2. CASE ~WorkerBoot(c)
        BY <1>0, <1>3, <2>2, <4>2, Zenon DEF WorkerStep, WriteState, EmitCheckpoint,
           EmitCompleted, WorkerExit
      <4> QED BY <4>1, <4>2, Zenon
    <3>3. /\ cont'[c].st \in {"running", "exited"}
          /\ cont'[c].job = cont[c].job /\ cont'[c].pid = cont[c].pid
      BY <1>0, <3>0, <3>2, Zenon DEF Container
    <3>4. cont[c].lo <= cont[c].hi => cont'[c].lo = cont[c].lo
      <4>1. cont[c].lo <= cont[c].hi => cont[c].pc # "boot"
        BY <3>1, LogSize, Zenon
      <4> QED BY <1>0, <3>2, <4>1, Zenon DEF Container
    <3>5. cont[c].done => cont'[c].done /\ cont'[c].hi = cont[c].hi
      <4>1. cont[c].done => cont[c].pc \notin {"boot", "emit"}
        BY <3>1, LastCkptAssumption
      <4> QED BY <1>0, <3>2, <4>1, Zenon DEF Container
    <3> QED BY <3>0, <3>3, <3>4, <3>5 DEF Grows
  <2> QED BY <2>1, <2>2
<1>4. ASSUME NEW j \in Jobs, NEW d \in Cids, start[j].pc = "run",
             DockerRun(d, j, pid, start[j].resume),
             start' = [start EXCEPT ![j] = [@ EXCEPT !.pc = "transition", !.c = d]]
      PROVE  /\ Grows(c)
             /\ cont[c].st = "none" /\ cont'[c].st # "none" => Launches(c)
  <2>1. CASE c # d
    <3>1. cont'[c] = cont[c]
      <4>1. \E n : cont' = [cont EXCEPT ![d] = n]
        BY <1>4, Zenon DEF DockerRun
      <4> QED BY <1>0, <2>1, <4>1
    <3> QED BY <3>1 DEF Grows
  <2>2. CASE c = d
    <3>1. cont[c].st = "none" /\ cont'[c].pid = pid /\ cont'[c].job = j
      BY <1>0, <1>4, <2>2 DEF DockerRun, NoContainer
    <3>2. start'[j] = [start[j] EXCEPT !.pc = "transition", !.c = c]
      BY <1>0, <1>4, <2>2 DEF TypeOK, SupervisorTypeOK
    <3> QED BY <1>4, <3>1, <3>2, Zenon DEF Grows, Launches
  <2> QED BY <2>1, <2>2
<1> QED BY <1>1, <1>2, <1>3, <1>4, DockerMoves, Zenon

\* Only a Start past its state check launches a container.
LEMMA LaunchedByRun ==
  ASSUME Inv, Next, NEW j \in Jobs, start[j].pc # "run", NEW c \in Cids,
         cont'[c].job = j
  PROVE  cont[c].job = j
<1>1. cont'[c].st # "none"
  BY InvNext, NoneAssumption, Zenon DEF Inv, ContainerInv
<1>2. cont[c].st # "none"
  BY <1>1, ContainersGrow, Zenon DEF Launches
<1> QED BY <1>2, ContainersGrow DEF Grows

\* A terminal row never changes again, and only a Start that was already past
\* its state check still launches a container for it.
THEOREM TerminalStaysFinal == Spec => TerminalIsFinal
<1>1. Inv /\ Inv' /\ [Next]_vars =>
        [\A j \in Jobs : IsTerminal(state[j]) =>
           /\ state'[j] = state[j]
           /\ start[j].pc # "run" =>
                \A c \in Cids : cont'[c].job = j => cont[c].job = j]_vars
  <2> SUFFICES ASSUME Inv, Inv', Next, NEW j \in Jobs, IsTerminal(state[j]) PROVE
        /\ state'[j] = state[j]
        /\ start[j].pc # "run" =>
             \A c \in Cids : cont'[c].job = j => cont[c].job = j
    BY Zenon
  <2>1. state'[j] = state[j]
    <3>1. TypeOK /\ Promised
      BY StepPromised DEF Inv
    <3>2. ASSUME NEW i \in Jobs, NEW s \in JobState, Contract!Move(i, s)
          PROVE  i # j /\ state'[j] = state[j]
      <4>1. /\ IsValidTransition(state[i], s) /\ s # state[i]
            /\ state' = [state EXCEPT ![i] = s] /\ state[i] \in RowState
        BY <3>1, <3>2, SameTable, Zenon DEF Contract!Move, TypeOK, SupervisorTypeOK
      <4>2. i # j
        BY <4>1, ValidFrom DEF IsTerminal
      <4> QED BY <3>1, <4>1, <4>2 DEF TypeOK, SupervisorTypeOK
    <3>3. ASSUME NEW i \in Jobs, Contract!Submit(i) PROVE state'[j] = state[j]
      <4>1. i # j
        BY <3>3 DEF Contract!Submit, IsTerminal, Terminal
      <4> QED BY <3>1, <3>3, <4>1 DEF Contract!Submit, TypeOK, SupervisorTypeOK
    <3>4. CASE state' = state
      BY <3>4
    <3> QED BY <3>1, <3>2, <3>3, <3>4, SameTable DEF Promised, Contract!Next,
               Contract!Share, Contract!Persist, Contract!Record,
               Contract!contractVars
  <2>2. start[j].pc # "run" => \A c \in Cids : cont'[c].job = j => cont[c].job = j
    BY LaunchedByRun
  <2> QED BY <2>1, <2>2
<1> QED BY <1>1, Invariance, PTL DEF Spec, TerminalIsFinal

-----------------------------------------------------------------------------
(* No running job and no worker is lost from sight, and the last record of *)
(* a job is complete, as long as the docker client serves the supervisor.  *)
(* Every invariant here is one job's, or main()'s, and rests on Inv.       *)

-----------------------------------------------------------------------------
(* What a step may do to one job. *)

\* The row and the goroutines of job j stay as they are.
Rests(j) ==
  /\ start'[j] = start[j] /\ stream'[j] = stream[j]
  /\ state'[j] = state[j] /\ ckpt'[j] = ckpt[j]

\* main() stays where it is, and the scan has as much to do for j.
Stays(j) ==
  phase' = phase /\ pid' = pid /\ boots' = boots /\ (j \in todo' <=> j \in todo)

\* main() goes on to its next phase.
Turns == Boot \/ ReadJobs \/ ListLive \/ ScanDone \/ Signal \/ DrainDone

\* A cancel or a drain gives a verdict on j.
Judged(j) ==
  /\ start'[j] = start[j] /\ stream'[j] = stream[j] /\ ckpt'[j] = ckpt[j]
  /\ \E s \in {"cancelled", "interrupted_resumable", "interrupted_unresumable"} :
       state'[j] = s /\ IsValidTransition(state[j], s)

\* The scan handles j.
Reconciled(j) ==
  \/ ScanAdopt(j) \/ ScanResumable(j) \/ ScanUnresumable(j)
  \/ ScanInterrupted(j) \/ ScanLeave(j)

\* What a step may do to one job.
Moves(j) ==
  \/ StreamStep(j) /\ Stays(j)
  \/ StartStep(j, pid) /\ Stays(j)
  \/ CreateJob(j) /\ Stays(j)
  \/ Reconciled(j)
  \/ Judged(j) /\ Stays(j)
  \/ Rests(j) /\ (Stays(j) \/ Turns)
  \/ Die

\* A goroutine leaves the other jobs alone.
LEMMA OthersRest ==
  ASSUME TypeOK, NEW i \in Jobs, NEW j \in Jobs, i # j,
         StartStep(i, pid) \/ StreamStep(i) \/ CreateJob(i) \/ Reconciled(i)
  PROVE  Rests(j)
<1> USE DEF TypeOK, SupervisorTypeOK, Rests
<1>1. CASE StartStep(i, pid)
  BY <1>1, Zenon
  DEF StartStep, StartGet, StartRun, StartTransition, StartUndo, StartTrack,
     StartFail, StartError, Transition, rowVars
<1>2. CASE StreamStep(i)
  BY <1>2, Zenon
  DEF StreamStep, StreamAttach, StreamCheckpoint, StreamCompleted, StreamEOF,
     StreamInspect, StreamMarkFailed, StreamSettle, StreamRemove, Transition,
     RecordCheckpoint, rowVars
<1>3. CASE CreateJob(i)
  BY <1>3 DEF CreateJob
<1>4. CASE Reconciled(i)
  BY <1>4 DEF Reconciled, ScanAdopt, ScanResumable, ScanUnresumable, ScanInterrupted,
     ScanLeave, Transition, Resume, rowVars, goVars, supervisorVars
<1> QED BY <1>1, <1>2, <1>3, <1>4, Zenon

\* Every step, as one job sees it.
LEMMA JobMoves ==
  ASSUME TypeOK, Next, NEW j \in Jobs
  PROVE  Moves(j)
<1>1. ASSUME NEW i \in Jobs, GoStep(i) PROVE Moves(j)
  <2>1. Stays(j)
    BY <1>1 DEF GoStep, mainVars, scanVars, Stays
  <2>2. CASE StartStep(i, pid) \/ StreamStep(i)
    BY <2>1, <2>2, OthersRest DEF Moves
  <2>3. CASE CancelStop(i)
    BY <2>1, <2>3 DEF CancelStop, Moves, Rests, rowVars
  <2>4. CASE CancelTransition(i)
    <3>1. CASE i = j /\ IsValidTransition(state[j], "cancelled")
      BY <2>1, <2>4, <3>1 DEF CancelTransition, Moves, Judged, Transition, TypeOK,
         SupervisorTypeOK
    <3>2. CASE ~(i = j /\ IsValidTransition(state[j], "cancelled"))
      BY <2>1, <2>4, <3>2 DEF CancelTransition, Moves, Rests, Transition, TypeOK,
         SupervisorTypeOK
    <3> QED BY <3>1, <3>2
  <2> QED BY <1>1, <2>2, <2>3, <2>4 DEF GoStep, CancelStep
<1>2. ASSUME NEW i \in Jobs, Request(i) PROVE Moves(j)
  <2>1. Stays(j)
    BY <1>2 DEF Request, mainVars, scanVars, Stays
  <2>2. CASE CreateJob(i)
    BY <2>1, <2>2, OthersRest DEF Moves
  <2>3. CASE CancelGet(i) \/ CancelAbort(i)
    BY <2>1, <2>3, Zenon DEF CancelGet, CancelAbort, Moves, Rests, rowVars
  <2> QED BY <1>2, <2>2, <2>3 DEF Request
<1>3. CASE ScanStep
  <2>1. ASSUME NEW i \in Jobs, Reconciled(i) PROVE Moves(j)
    <3>1. CASE i = j
      BY <2>1, <3>1 DEF Moves
    <3>2. CASE i # j
      <4>1. Stays(j)
        BY <2>1, <3>2, Zenon DEF Reconciled, ScanAdopt, ScanResumable, ScanUnresumable,
           ScanInterrupted, ScanLeave, Scanning, Stays
      <4> QED BY <2>1, <3>2, <4>1, OthersRest DEF Moves
    <3> QED BY <3>1, <3>2
  <2>2. CASE ReadJobs \/ ListLive \/ ScanDone
    BY <2>2, Zenon DEF ReadJobs, ListLive, ScanDone, Moves, Turns, Rests, supervisorVars,
       goVars, rowVars
  <2> QED BY <1>3, <2>1, <2>2 DEF ScanStep, Reconciled
<1>4. CASE DrainStep
  <2>1. ASSUME NEW i \in Jobs, MarkInterrupted(i) PROVE Moves(j)
    <3>1. Stays(j)
      BY <2>1, Zenon DEF MarkInterrupted, Stays, scanVars
    <3>2. CASE state'[j] = state[j]
      BY <2>1, <3>1, <3>2, Zenon DEF MarkInterrupted, Moves, Rests, goVars
    <3>3. CASE state'[j] # state[j]
      <4>1. \E s \in {"interrupted_resumable", "interrupted_unresumable"} :
              state'[j] = s /\ IsValidTransition(state[j], s)
        BY <2>1, <3>3 DEF MarkInterrupted, Transition, TypeOK, SupervisorTypeOK
      <4> QED BY <2>1, <3>1, <4>1, Zenon DEF MarkInterrupted, Moves, Judged, goVars
    <3> QED BY <3>2, <3>3, Zenon
  <2>2. CASE \E i \in Jobs : DrainStop(i) \/ DrainWait(i)
    BY <2>2 DEF DrainStop, DrainWait, Moves, Stays, Rests, scanVars, supervisorVars,
       goVars, rowVars
  <2>3. CASE DrainDone
    BY <2>3, Zenon DEF DrainDone, Moves, Turns, Rests, supervisorVars, goVars, rowVars
  <2> QED BY <1>4, <2>1, <2>2, <2>3, Zenon DEF DrainStep, Exit, Moves
<1>5. CASE Boot \/ Signal
  BY <1>5, Zenon DEF Boot, Signal, Moves, Turns, Rests, supervisorVars, goVars, rowVars
<1>6. CASE \E c \in Cids : ContainerStep(c) \/ ContainerCrash(c) \/ Reap(c)
  BY <1>6, Zenon DEF ContainerStep, ContainerCrash, Reap, Moves, Rests, Stays, mainVars,
     scanVars, supervisorVars, goVars, rowVars
<1> QED BY <1>1, <1>2, <1>3, <1>4, <1>5, <1>6 DEF Next, Crash, Moves

-----------------------------------------------------------------------------
(* The invariants: the log that is read, pids, who looks after a row, who  *)
(* holds a container, and what is recorded.                                *)

\* How far runStream is with the log, while docker logs only ends with its
\* container: the tracker outlives the container, and has read all of the log
\* when it settles the job.
LogOK(j) ==
  stream[j].pc # "none" =>
    /\ stream[j].saw => stream[j].n = Lines(j)
    /\ stream[j].pc \in {"inspect", "settle", "remove"}
         => cont[stream[j].c].st \in {"exited", "gone"}
    /\ stream[j].pc = "inspect" /\ cont[stream[j].c].st = "exited"
         => stream[j].n = Lines(j)
    /\ stream[j].pc = "settle" /\ stream[j].ok => stream[j].n = Lines(j)

\* The log of a tracker that does not move.
LEMMA LogRests ==
  ASSUME Inv, Next, NEW j \in Jobs, LogOK(j), stream'[j] = stream[j]
  PROVE  LogOK(j)'
<1> SUFFICES ASSUME stream[j].pc # "none" PROVE LogOK(j)'
  BY Zenon DEF LogOK
<1> DEFINE c == stream[j].c
<1>1. /\ c \in Cids /\ cont[c].job = j /\ stream[j].n <= Lines(j)
      /\ stream[j].saw \/ stream[j].ok => cont[c].done
  BY Zenon DEF Inv, JobInv, StreamOK
<1>2. Grows(c) /\ cont[c].st # "none"
  BY <1>1, ContainersGrow, NoneAssumption, Zenon DEF Inv, ContainerInv
<1>3. cont[c].st # "running" \/ cont[c].done => Lines(j)' = Lines(j)
  <2>1. cont[c].done => cont[c].lo <= cont[c].hi
    <3>1. cont[c] \in Container
      BY <1>1, Zenon DEF Inv, TypeOK, WorkerTypeOK
    <3>2. cont[c].done => cont[c].hi = LastCkpt
      BY <1>1, Zenon DEF Inv, ContainerInv
    <3> QED BY <3>1, <3>2, LastCkptAssumption DEF Container
  <2> QED BY <1>2, <2>1, Zenon DEF Grows, Lines
<1>4. cont[c].st \in {"exited", "gone"} => cont'[c].st \in {cont[c].st, "gone"}
  BY <1>2, Zenon DEF Grows
<1>5. cont[c].st \in {"running", "exited", "gone"}
  BY <1>1, <1>2, Zenon DEF Inv, TypeOK, WorkerTypeOK, Container
<1> QED BY <1>1, <1>3, <1>4, <1>5, Zenon DEF LogOK

\* A new tracker has read nothing.
LEMMA LogOfTracker ==
  ASSUME NEW j \in Jobs, NEW c, stream'[j] \in {NoStream, Tracker(c)}
  PROVE  LogOK(j)'
<1>1. CASE stream'[j] = NoStream
  BY <1>1 DEF LogOK, NoStream
<1>2. CASE stream'[j] = Tracker(c)
  <2>1. stream'[j].pc = "attach" /\ stream'[j].saw = FALSE
    BY <1>2 DEF Tracker, NoStream
  <2> QED BY <2>1 DEF LogOK
<1> QED BY <1>1, <1>2

\* runStream, as long as docker logs does not end before its container.
LEMMA LogStream ==
  ASSUME "eof" \notin Faults, Inv, NEW j \in Jobs, LogOK(j), StreamStep(j)
  PROVE  /\ LogOK(j)'
         /\ stream'[j] = NoStream => stream[j].pc \in {"inspect", "markFailed", "remove"}
         /\ stream'[j] # NoStream => stream'[j].c = stream[j].c
<1> DEFINE c == stream[j].c
<1>0. stream[j] \in StreamRec /\ stream \in [Jobs -> StreamRec]
  BY DEF Inv, TypeOK, SupervisorTypeOK
<1>1. stream[j].pc # "none"
  BY DEF StreamStep, StreamAttach, StreamCheckpoint, StreamCompleted, StreamEOF,
     StreamInspect, StreamMarkFailed, StreamSettle, StreamRemove
<1>2. /\ c \in Cids /\ stream[j].n <= Lines(j)
      /\ stream[j].saw => stream[j].n = Lines(j)
      /\ stream[j].pc = "inspect" =>
           cont[c].st = "gone" \/ (cont[c].st = "exited" /\ stream[j].n = Lines(j))
      /\ stream[j].pc \in {"settle", "remove"} => cont[c].st \in {"exited", "gone"}
  BY <1>1, Zenon DEF Inv, JobInv, StreamOK, LogOK
<1>3. CASE StreamAttach(j)
  <2>1. \/ stream'[j] = [stream[j] EXCEPT !.pc = "read"]
        \/ stream'[j] = [stream[j] EXCEPT !.pc = "markFailed"]
    BY <1>0, <1>3 DEF StreamAttach
  <2>2. cont' = cont
    BY <1>3 DEF StreamAttach, workerVars
  <2> QED BY <1>0, <1>2, <2>1, <2>2 DEF LogOK, Lines, StreamRec, NoStream
<1>4. CASE StreamCheckpoint(j)
  <2>1. stream'[j] = [stream[j] EXCEPT !.n = stream[j].n + 1] /\ cont' = cont
    BY <1>0, <1>4 DEF StreamCheckpoint, workerVars
  <2>2. stream[j].pc = "read" /\ ~stream[j].saw
    <3>1. stream[j].n \in Int
      BY <1>0, LastCkptAssumption DEF StreamRec
    <3> QED BY <1>2, <1>4, <3>1 DEF StreamCheckpoint
  <2> QED BY <1>0, <2>1, <2>2 DEF LogOK, StreamRec, NoStream
<1>5. CASE StreamCompleted(j)
  <2>1. /\ stream'[j] = [stream[j] EXCEPT !.saw = TRUE] /\ cont' = cont
        /\ stream[j].pc = "read" /\ stream[j].n = Lines(j)
    BY <1>0, <1>5 DEF StreamCompleted, workerVars
  <2> QED BY <1>0, <2>1 DEF LogOK, Lines, StreamRec, NoStream
<1>6. CASE StreamEOF(j)
  <2>1. /\ stream'[j] = [stream[j] EXCEPT !.pc = "inspect"] /\ cont' = cont
        /\ cont[c].st = "gone" \/ (cont[c].st = "exited" /\ stream[j].n = Lines(j))
    BY <1>0, <1>6 DEF StreamEOF, LogsEnded, workerVars
  <2> QED BY <1>0, <1>2, <2>1 DEF LogOK, Lines, StreamRec, NoStream
<1>7. CASE StreamInspect(j)
  <2>1. /\ cont' = cont /\ stream[j].pc = "inspect"
        /\ \/ stream'[j] = [stream[j] EXCEPT !.pc = "markFailed"]
           \/ stream'[j] = NoStream
           \/ /\ cont[c].st = "exited"
              /\ stream'[j] = [stream[j] EXCEPT !.pc = "settle",
                   !.ok = cont[c].code = "zero" \/ stream[j].saw]
    BY <1>0, <1>7 DEF StreamInspect, workerVars
  <2>2. CASE stream'[j] = NoStream
    BY <2>1, <2>2, LogOfTracker
  <2>3. CASE stream'[j] = [stream[j] EXCEPT !.pc = "markFailed"]
    BY <1>0, <1>2, <2>1, <2>3 DEF LogOK, Lines, StreamRec, NoStream
  <2>4. CASE /\ cont[c].st = "exited"
             /\ stream'[j] = [stream[j] EXCEPT !.pc = "settle",
                   !.ok = cont[c].code = "zero" \/ stream[j].saw]
    <3>1. /\ stream'[j].c = c /\ stream'[j].n = stream[j].n
          /\ stream'[j].pc = "settle"
      BY <1>0, <2>4 DEF StreamRec
    <3>2. stream[j].n = Lines(j)
      BY <1>2, <2>1, <2>4
    <3> QED BY <2>1, <2>4, <3>1, <3>2 DEF LogOK, Lines, NoStream
  <2> QED BY <2>1, <2>2, <2>3, <2>4
<1>8. CASE StreamSettle(j)
  <2>1. /\ stream'[j] = [stream[j] EXCEPT !.pc = "remove"] /\ cont' = cont
        /\ stream[j].pc = "settle"
    BY <1>0, <1>8 DEF StreamSettle, workerVars
  <2> QED BY <1>0, <1>2, <2>1 DEF LogOK, Lines, StreamRec, NoStream
<1>9. CASE StreamMarkFailed(j) \/ StreamRemove(j)
  <2>1. stream'[j] = NoStream /\ stream[j].pc \in {"markFailed", "remove"}
    BY <1>0, <1>9 DEF StreamMarkFailed, StreamRemove
  <2> QED BY <2>1, LogOfTracker
<1> QED BY <1>3, <1>4, <1>5, <1>6, <1>7, <1>8, <1>9, Zenon DEF StreamStep

\* What becomes of the tracker of a job whose Start goes on.
LEMMA StartTracks ==
  ASSUME TypeOK, NEW j \in Jobs, StartStep(j, pid)
  PROVE  \/ stream'[j] = stream[j]
         \/ start[j].pc = "track" /\ stream'[j] = Tracker(start[j].c)
BY Zenon DEF StartStep, StartGet, StartRun, StartTransition, StartUndo, StartTrack,
   StartFail, TypeOK, SupervisorTypeOK

\* Every step.
LEMMA LogNext ==
  ASSUME "eof" \notin Faults, Inv, Next, NEW j \in Jobs, LogOK(j)
  PROVE  LogOK(j)'
<1>0. TypeOK
  BY DEF Inv
<1>1. CASE stream'[j] = stream[j]
  BY <1>1, LogRests
<1>2. CASE StreamStep(j)
  BY <1>2, LogStream
<1>3. CASE StartStep(j, pid)
  BY <1>0, <1>1, <1>3, StartTracks, LogOfTracker
<1>4. CASE Reconciled(j)
  <2>1. stream'[j] = stream[j] \/ stream'[j] = Tracker(live[j])
    BY <1>0, <1>4, Zenon DEF Reconciled, ScanAdopt, ScanResumable, ScanUnresumable,
       ScanInterrupted, ScanLeave, goVars, supervisorVars, TypeOK, SupervisorTypeOK
  <2> QED BY <1>1, <2>1, LogOfTracker
<1>5. CASE Die
  BY <1>5, LogOfTracker DEF Die, NoStreams
<1>6. CASE CreateJob(j) \/ Judged(j) \/ Rests(j)
  BY <1>1, <1>6 DEF CreateJob, Judged, Rests
<1> QED BY <1>0, <1>2, <1>3, <1>4, <1>5, <1>6, JobMoves DEF Moves

\* The pids of controllers, while none is used twice: before its scan has
\* handled a job, a controller finds no container of the job with its own pid.
PidOK ==
  /\ IF phase = "down" THEN pid = 0 ELSE pid = boots /\ boots > 0
  /\ \A c \in Cids : cont[c].st # "none" =>
       /\ cont[c].pid \in 1 .. boots
       /\ phase \in {"read", "list"} \/ cont[c].job \in todo => cont[c].pid # pid

\* Every step.
LEMMA PidNext ==
  ASSUME ~PidReuse, Inv, PidOK, Next
  PROVE  PidOK'
<1>0. boots \in Nat /\ TypeOK /\ \A c \in Cids : cont[c].pid \in Nat
  BY MaxBootsAssumption DEF Inv, TypeOK, WorkerTypeOK, Container
<1>1. CASE Boot
  <2>1. /\ phase' = "read" /\ pid' = boots + 1 /\ boots' = boots + 1 /\ cont' = cont
    BY <1>1 DEF Boot, workerVars
  <2> QED BY <1>0, <2>1 DEF PidOK
<1>2. CASE Die
  <2>1. phase' = "down" /\ pid' = 0 /\ boots' = boots /\ cont' = cont /\ todo' = {}
    BY <1>2 DEF Die, workerVars
  <2> QED BY <1>0, <2>1 DEF PidOK
<1>3. CASE ~Boot /\ ~Die
  <2>1. /\ pid' = pid /\ boots' = boots /\ (phase' = "down" <=> phase = "down")
        /\ phase' \in {"read", "list"} => phase \in {"read", "list"}
        /\ todo' \subseteq todo \/ phase = "read"
    <3>1. CASE ScanStep
      BY <3>1, Zenon DEF ScanStep, ReadJobs, ListLive, ScanAdopt, ScanResumable,
         ScanUnresumable, ScanInterrupted, ScanLeave, ScanDone, Scanning
    <3>2. CASE Signal \/ DrainStep
      BY <1>3, <3>2 DEF Signal, DrainStep, DrainStop, DrainWait, MarkInterrupted,
         DrainDone, Exit, scanVars
    <3>3. CASE UNCHANGED mainVars
      BY <3>3 DEF mainVars, scanVars
    <3> QED BY <1>3, <3>1, <3>2, <3>3, Zenon DEF Next, Crash, GoStep, Request,
         ContainerStep, ContainerCrash, Reap
  <2>2. ASSUME NEW c \in Cids, cont'[c].st # "none"
        PROVE  /\ cont'[c].pid \in 1 .. boots
               /\ phase' \in {"read", "list"} \/ cont'[c].job \in todo'
                    => cont'[c].pid # pid
    <3>1. CASE cont[c].st # "none"
      <4>1. cont'[c].pid = cont[c].pid /\ cont'[c].job = cont[c].job
        BY <3>1, ContainersGrow DEF Grows
      <4> QED BY <2>1, <3>1, <4>1 DEF PidOK
    <3>2. CASE cont[c].st = "none"
      <4>1. PICK j \in Jobs : start[j].pc = "run" /\ cont'[c].pid = pid
                              /\ cont'[c].job = j
        BY <2>2, <3>2, ContainersGrow, Zenon DEF Launches
      <4>2. phase \notin {"down", "read", "list"} /\ j \notin todo
        BY <4>1 DEF Inv, JobInv, PhaseOK, ScanOK
      <4>3. pid \in 1 .. boots
        BY <1>0, <4>2 DEF PidOK
      <4> QED BY <2>1, <4>1, <4>2, <4>3
    <3> QED BY <3>1, <3>2
  <2> QED BY <2>1, <2>2 DEF PidOK
<1> QED BY <1>1, <1>2, <1>3

\* Who looks after a running row: its Start, its tracker, or the scan that has
\* still to handle it.
WatchOK(j) ==
  /\ start[j].pc \notin {"none", "track"} => state[j] # "running"
  /\ stream[j].pc = "remove" => state[j] # "running"
  /\ state[j] = "running" =>
       /\ phase = "list" => j \in todo
       /\ phase \in {"scan", "serving", "draining"} =>
            start[j].pc = "track" \/ stream[j].pc # "none" \/ j \in todo

\* runStream gives up its tracker when it has recorded the end of the job.
LEMMA WatchStream ==
  ASSUME "eof" \notin Faults, Inv, NEW j \in Jobs, LogOK(j), WatchOK(j),
         StreamStep(j), Stays(j)
  PROVE  WatchOK(j)'
<1>0. /\ stream[j] \in StreamRec /\ stream \in [Jobs -> StreamRec]
      /\ state \in [Jobs -> RowState]
  BY DEF Inv, TypeOK, SupervisorTypeOK
<1>1. /\ stream[j].pc # "none" /\ start' = start
  BY DEF StreamStep, StreamAttach, StreamCheckpoint, StreamCompleted, StreamEOF,
     StreamInspect, StreamMarkFailed, StreamSettle, StreamRemove
<1>2. start[j].pc = "none" /\ phase' # "list"
  BY <1>1, Zenon DEF Inv, JobInv, StreamOK, PhaseOK, Stays
<1> SUFFICES ASSUME state'[j] = "running"
             PROVE  stream'[j].pc \notin {"none", "remove"}
  BY <1>1, <1>2, Zenon DEF WatchOK
<1>3. state[j] = "running"
  BY <1>0 DEF StreamStep, StreamAttach, StreamCheckpoint, StreamCompleted, StreamEOF,
     StreamInspect, StreamMarkFailed, StreamSettle, StreamRemove, rowVars, Transition
<1>4. \A s \in {"completed", "failed"} : Transition(j, s)[j] = s
  BY <1>0, <1>3 DEF Transition, IsValidTransition, validTransitions, Endings
<1>5. ~StreamMarkFailed(j) /\ ~StreamSettle(j)
  BY <1>4 DEF StreamMarkFailed, StreamSettle
<1>6. ~StreamRemove(j)
  BY <1>3 DEF StreamRemove, WatchOK
<1>7. CASE StreamInspect(j)
  <2>1. cont[stream[j].c].st # "running"
    BY <1>7 DEF StreamInspect, LogOK
  <2>2. \/ stream'[j] = [stream[j] EXCEPT !.pc = "markFailed"]
        \/ stream'[j] = [stream[j] EXCEPT !.pc = "settle",
             !.ok = cont[stream[j].c].code = "zero" \/ stream[j].saw]
    BY <1>0, <1>7, <2>1 DEF StreamInspect
  <2>3. stream'[j].pc \in {"markFailed", "settle"}
    BY <1>0, <2>2, Zenon DEF StreamRec
  <2> QED BY <2>3
<1>8. CASE StreamAttach(j) \/ StreamCheckpoint(j) \/ StreamCompleted(j) \/ StreamEOF(j)
  BY <1>0, <1>8 DEF StreamAttach, StreamCheckpoint, StreamCompleted, StreamEOF,
     StreamRec
<1> QED BY <1>5, <1>6, <1>7, <1>8, Zenon DEF StreamStep

\* Start makes a row running when all that is left to do is to track it.
LEMMA WatchStart ==
  ASSUME Inv, NEW j \in Jobs, WatchOK(j), StartStep(j, pid), Stays(j)
  PROVE  WatchOK(j)'
<1>0. /\ start[j] \in StartRec /\ start \in [Jobs -> StartRec]
      /\ stream \in [Jobs -> StreamRec] /\ state \in [Jobs -> RowState]
  BY DEF Inv, TypeOK, SupervisorTypeOK
<1>1. start[j].pc # "none"
  BY Zenon
  DEF StartStep, StartGet, StartRun, StartTransition, StartUndo, StartTrack, StartFail
<1>2. stream[j].pc = "none" /\ j \notin todo /\ phase' = phase /\ phase # "list"
  BY <1>1, Zenon DEF Inv, JobInv, StreamOK, ScanOK, PhaseOK, Stays
<1>3. CASE StartGet(j) \/ StartRun(j, pid) \/ StartUndo(j)
  <2>1. /\ state' = state /\ stream' = stream /\ state[j] # "running"
    BY <1>3, Zenon DEF StartGet, StartRun, StartUndo, rowVars, WatchOK
  <2> QED BY <1>2, <2>1, Zenon DEF WatchOK
<1>4. CASE StartTransition(j)
  <2>1. stream' = stream /\ state[j] # "running"
    BY <1>4 DEF StartTransition, WatchOK
  <2>2. \/ start'[j].pc = "track"
        \/ state' = state
    BY <1>0, <1>4 DEF StartTransition, Transition, StartRec
  <2> QED BY <1>2, <2>1, <2>2 DEF WatchOK
<1>5. CASE StartTrack(j)
  <2>1. start'[j].pc = "none" /\ stream'[j].pc = "attach"
    BY <1>0, <1>5 DEF StartTrack, Tracker, NoStream, NoStart
  <2> QED BY <1>2, <2>1 DEF WatchOK
<1>6. CASE StartFail(j)
  <2>1. stream' = stream /\ state[j] # "running" /\ state'[j] # "running"
    BY <1>0, <1>6 DEF StartFail, WatchOK, Transition
  <2> QED BY <1>2, <2>1 DEF WatchOK
<1> QED BY <1>3, <1>4, <1>5, <1>6 DEF StartStep

\* The scan hands over what it handles: to a tracker or to a Start; or the row
\* is not running any more.
LEMMA WatchScan ==
  ASSUME Inv, PidOK, NEW j \in Jobs, WatchOK(j), Reconciled(j)
  PROVE  WatchOK(j)'
<1>0. /\ start \in [Jobs -> StartRec] /\ stream \in [Jobs -> StreamRec]
      /\ state \in [Jobs -> RowState]
  BY DEF Inv, TypeOK, SupervisorTypeOK
<1>1. Scanning(j)
  BY Zenon DEF Reconciled, ScanAdopt, ScanResumable, ScanUnresumable, ScanInterrupted,
     ScanLeave
<1>2. /\ phase' = "scan" /\ start[j].pc = "none" /\ stream[j].pc = "none"
      /\ state[j] = snap[j].state
  BY <1>1, Zenon DEF Scanning, Inv, JobInv, ScanOK
<1>3. CASE ScanAdopt(j)
  <2>1. start' = start /\ stream'[j].pc = "attach"
    BY <1>0, <1>3 DEF ScanAdopt, Tracker, NoStream
  <2> QED BY <1>2, <2>1, Zenon DEF WatchOK
<1>4. CASE ScanResumable(j) \/ ScanUnresumable(j) \/ ScanInterrupted(j)
  <2>1. stream' = stream /\ state'[j] # "running"
    BY <1>0, <1>2, <1>4 DEF ScanResumable, ScanUnresumable, ScanInterrupted,
       WasRunning, Transition, IsValidTransition, validTransitions, Endings, goVars,
       rowVars
  <2> QED BY <1>2, <2>1 DEF WatchOK
<1>5. CASE ScanLeave(j)
  <2>1. start' = start /\ stream' = stream /\ state' = state
    BY <1>5 DEF ScanLeave, supervisorVars, goVars, rowVars
  <2>2. state[j] # "running"
    <3>1. CASE snap[j].state = "pending"
      BY <1>2, <3>1
    <3>2. CASE j \in liveUp /\ cont[live[j]].pid = pid
      <4>1. live[j] \in Cids /\ cont[live[j]].job = j
        BY <3>2, Zenon DEF Inv, JobInv, ScanOK
      <4>2. cont[live[j]].st # "none" /\ j \in todo
        BY <1>1, <4>1, NoneAssumption, Zenon DEF Inv, ContainerInv, Scanning
      <4> QED BY <3>2, <4>1, <4>2 DEF PidOK
    <3> QED BY <1>5, <3>1, <3>2 DEF ScanLeave
  <2> QED BY <1>2, <2>1, <2>2 DEF WatchOK
<1> QED BY <1>3, <1>4, <1>5 DEF Reconciled

\* Every step, if the query of the scan does not fail.
LEMMA WatchNext ==
  ASSUME "eof" \notin Faults, "scan" \notin Faults, Inv, PidOK, Next,
         NEW j \in Jobs, LogOK(j), WatchOK(j)
  PROVE  WatchOK(j)'
<1>0. TypeOK
  BY DEF Inv
<1>1. CASE StreamStep(j) /\ Stays(j)
  BY <1>1, WatchStream
<1>2. CASE StartStep(j, pid) /\ Stays(j)
  BY <1>2, WatchStart
<1>3. CASE Reconciled(j)
  BY <1>3, WatchScan
<1>4. CASE CreateJob(j)
  <2>1. state'[j] = "pending"
    BY <1>0, <1>4 DEF CreateJob, TypeOK, SupervisorTypeOK
  <2> QED BY <2>1 DEF WatchOK
<1>5. CASE Judged(j)
  <2>1. state'[j] # "running"
    BY <1>5, Zenon DEF Judged
  <2> QED BY <2>1 DEF WatchOK
<1>6. CASE Die
  <2>1. phase' = "down" /\ start'[j].pc = "none" /\ stream'[j].pc = "none"
    BY <1>6 DEF Die, NoStarts, NoStreams, NoStart, NoStream
  <2> QED BY <2>1, Zenon DEF WatchOK
<1>7. CASE Rests(j) /\ Stays(j)
  BY <1>7, Zenon DEF Rests, Stays, WatchOK
<1>8. CASE Rests(j) /\ Turns
  <2>1. CASE phase' \in {"read", "marking"}
    BY <1>8, <2>1 DEF Rests, WatchOK
  <2>2. CASE phase' \notin {"read", "marking"}
    <3>1. \/ phase' = "list" /\ (state[j] = "running" => j \in todo')
          \/ phase = "list" /\ phase' = "scan" /\ todo' = todo
          \/ phase = "scan" /\ phase' = "serving" /\ todo' = {} /\ todo = {}
          \/ phase = "serving" /\ phase' = "draining" /\ todo' = todo
      BY <1>8, <2>2, Zenon
      DEF Turns, Boot, ReadJobs, ListLive, ScanDone, Signal, DrainDone,
         scanVars
    <3> QED BY <1>8, <3>1 DEF Rests, WatchOK
  <2> QED BY <2>1, <2>2
<1> QED BY <1>0, <1>1, <1>2, <1>3, <1>4, <1>5, <1>6, <1>7, <1>8, JobMoves DEF Moves

\* When runStream fails a job unsettled, its container has ended.
GoneOK(j) ==
  stream[j].pc = "markFailed" => cont[stream[j].c].st \in {"exited", "gone"}

\* Every step, if the docker client answers logs and inspect.
LEMMA GoneNext ==
  ASSUME "logs" \notin Faults, "inspect" \notin Faults, Inv, Next,
         NEW j \in Jobs, GoneOK(j)
  PROVE  GoneOK(j)'
<1>0. TypeOK /\ stream[j] \in StreamRec /\ stream \in [Jobs -> StreamRec]
  BY DEF Inv, TypeOK, SupervisorTypeOK
<1>1. CASE stream'[j] = stream[j]
  <2> SUFFICES ASSUME stream[j].pc = "markFailed"
               PROVE  cont'[stream[j].c].st \in {"exited", "gone"}
    BY <1>1 DEF GoneOK
  <2>1. stream[j].c \in Cids /\ cont[stream[j].c].st \in {"exited", "gone"}
    BY Zenon DEF GoneOK, Inv, JobInv, StreamOK
  <2> QED BY <2>1, ContainersGrow, Zenon DEF Grows
<1>2. CASE stream'[j].pc # "markFailed"
  BY <1>2 DEF GoneOK
<1>3. ASSUME NEW c, stream'[j] = Tracker(c) PROVE stream'[j].pc # "markFailed"
  BY <1>3 DEF Tracker, NoStream
<1>4. CASE StreamStep(j)
  <2>1. CASE StreamInspect(j)
    <3>1. /\ cont' = cont
          /\ \/ /\ cont[stream[j].c].st = "gone"
                /\ stream'[j] = [stream[j] EXCEPT !.pc = "markFailed"]
             \/ stream'[j] = NoStream
             \/ stream'[j] = [stream[j] EXCEPT !.pc = "settle",
                   !.ok = cont[stream[j].c].code = "zero" \/ stream[j].saw]
      BY <1>0, <2>1 DEF StreamInspect, workerVars
    <3>2. \/ cont[stream[j].c].st = "gone" /\ stream'[j].c = stream[j].c
          \/ stream'[j].pc \in {"none", "settle"}
      <4>1. [stream[j] EXCEPT !.pc = "markFailed"].c = stream[j].c
        BY <1>0, Zenon DEF StreamRec
      <4>2. [stream[j] EXCEPT !.pc = "settle",
               !.ok = cont[stream[j].c].code = "zero" \/ stream[j].saw].pc = "settle"
        BY <1>0, Zenon DEF StreamRec
      <4>3. NoStream.pc = "none"
        BY DEF NoStream
      <4> QED BY <3>1, <4>1, <4>2, <4>3, Zenon
    <3> QED BY <3>1, <3>2 DEF GoneOK
  <2>2. CASE ~StreamInspect(j)
    <3>1. \/ stream'[j] = NoStream
          \/ stream'[j] = [stream[j] EXCEPT !.pc = "read"]
          \/ stream[j].pc = "read" /\ stream'[j] = [stream[j] EXCEPT !.n = @ + 1]
          \/ stream[j].pc = "read" /\ stream'[j] = [stream[j] EXCEPT !.saw = TRUE]
          \/ stream'[j] = [stream[j] EXCEPT !.pc = "inspect"]
          \/ stream'[j] = [stream[j] EXCEPT !.pc = "remove"]
      BY <1>0, <1>4, <2>2, Zenon DEF StreamStep, StreamAttach, StreamCheckpoint,
         StreamCompleted, StreamEOF, StreamMarkFailed, StreamSettle, StreamRemove
    <3>2. stream'[j].pc # "markFailed"
      BY <1>0, <3>1 DEF StreamRec, NoStream
    <3> QED BY <1>2, <3>2
  <2> QED BY <2>1, <2>2
<1>5. CASE StartStep(j, pid)
  BY <1>0, <1>1, <1>2, <1>3, <1>5, StartTracks, Zenon
<1>6. CASE Reconciled(j)
  <2>1. stream'[j] = stream[j] \/ stream'[j] = Tracker(live[j])
    BY <1>0, <1>6, Zenon DEF Reconciled, ScanAdopt, ScanResumable, ScanUnresumable,
       ScanInterrupted, ScanLeave, goVars, supervisorVars
  <2> QED BY <1>1, <1>2, <1>3, <2>1
<1>7. CASE Die
  BY <1>2, <1>7 DEF Die, NoStreams, NoStream
<1>8. CASE CreateJob(j) \/ Judged(j) \/ Rests(j)
  BY <1>1, <1>8 DEF CreateJob, Judged, Rests
<1> QED BY <1>0, <1>4, <1>5, <1>6, <1>7, <1>8, JobMoves DEF Moves

\* The Start or the tracker of j holds container c.
Holds(j, c) ==
  \/ start[j].pc \in {"transition", "undo", "track"} /\ start[j].c = c
  \/ stream[j].pc # "none" /\ stream[j].c = c

HeldOK ==
  \A c \in Cids : Running(c) /\ cont[c].pid = pid => \E j \in Jobs : Holds(j, c)

\* runStream lets go of a container only when it has ended.
LEMMA HeldByStream ==
  ASSUME "eof" \notin Faults, Inv, Next, NEW j \in Jobs, NEW c \in Cids,
         LogOK(j), GoneOK(j), Holds(j, c), Running(c)', StreamStep(j)
  PROVE  Holds(j, c)'
<1>0. stream[j] \in StreamRec /\ stream \in [Jobs -> StreamRec]
  BY DEF Inv, TypeOK, SupervisorTypeOK
<1>1. stream[j].pc # "none"
  BY DEF StreamStep, StreamAttach, StreamCheckpoint, StreamCompleted, StreamEOF,
     StreamInspect, StreamMarkFailed, StreamSettle, StreamRemove
<1>2. stream[j].c = c /\ cont[c].job = j
  BY <1>1, Zenon DEF Inv, JobInv, StreamOK, Holds
<1>3. cont[c].st = "running"
  <2>1. cont[c].st # "none"
    BY <1>2, NoneAssumption, Zenon DEF Inv, ContainerInv
  <2> QED BY <2>1, ContainersGrow, Zenon DEF Grows, Running
<1>4. stream[j].pc \notin {"inspect", "markFailed", "remove"}
  BY <1>2, <1>3, Zenon DEF LogOK, GoneOK
<1>5. stream'[j] # NoStream /\ stream'[j].c = c
  BY <1>2, <1>4, LogStream, Zenon
<1>6. stream'[j].pc # "none"
  <2>1. \/ stream'[j] = [stream[j] EXCEPT !.pc = "read"]
        \/ stream'[j] = [stream[j] EXCEPT !.pc = "markFailed"]
        \/ stream'[j] = [stream[j] EXCEPT !.n = @ + 1]
        \/ stream'[j] = [stream[j] EXCEPT !.saw = TRUE]
        \/ stream'[j] = [stream[j] EXCEPT !.pc = "inspect"]
        \/ stream'[j] = [stream[j] EXCEPT !.pc = "remove"]
    BY <1>0, <1>4, Zenon DEF StreamStep, StreamAttach, StreamCheckpoint, StreamCompleted,
       StreamEOF, StreamInspect, StreamMarkFailed, StreamSettle, StreamRemove
  <2> QED BY <1>0, <1>1, <2>1 DEF StreamRec
<1> QED BY <1>5, <1>6, Zenon DEF Holds

\* Start hands its container on to the tracker, or removes it.
LEMMA HeldByStart ==
  ASSUME Inv, NEW j \in Jobs, NEW c \in Cids, Holds(j, c), Running(c)',
         StartStep(j, pid)
  PROVE  Holds(j, c)'
<1>0. /\ start[j] \in StartRec /\ start \in [Jobs -> StartRec]
      /\ stream \in [Jobs -> StreamRec] /\ cont \in [Cids -> Container]
  BY DEF Inv, TypeOK, SupervisorTypeOK, WorkerTypeOK
<1>1. start[j].pc # "none"
  BY Zenon
  DEF StartStep, StartGet, StartRun, StartTransition, StartUndo, StartTrack, StartFail
<1>2. /\ start[j].pc \in {"transition", "undo", "track"} /\ start[j].c = c
      /\ cont[c].job = j
  BY <1>1, Zenon DEF Inv, JobInv, StreamOK, StartOK, Holds
<1>3. CASE StartTransition(j)
  <2>1. \/ start'[j] = [start[j] EXCEPT !.pc = "track"]
        \/ start'[j] = [start[j] EXCEPT !.pc = "undo"]
    BY <1>0, <1>3 DEF StartTransition
  <2>2. start'[j].pc \in {"track", "undo"} /\ start'[j].c = c
    BY <1>0, <1>2, <2>1 DEF StartRec
  <2> QED BY <2>2, Zenon DEF Holds
<1>4. ~StartUndo(j)
  <2>1. cont[c].st # "none"
    BY <1>2, NoneAssumption, Zenon DEF Inv, ContainerInv
  <2>2. SUFFICES ASSUME StartUndo(j) PROVE FALSE
    OBVIOUS
  <2>3. cont'[c] = [cont[c] EXCEPT !.st = "gone"] /\ cont[c] \in Container
    BY <1>0, <1>2, <2>1, <2>2 DEF StartUndo, Removed
  <2>4. cont'[c].st = "gone"
    BY <2>3 DEF Container
  <2> QED BY <2>4 DEF Running
<1>5. CASE StartTrack(j)
  <2>1. stream'[j] = Tracker(c)
    BY <1>0, <1>2, <1>5 DEF StartTrack
  <2>2. stream'[j].pc = "attach" /\ stream'[j].c = c
    BY <2>1 DEF Tracker, NoStream
  <2> QED BY <2>2 DEF Holds
<1> QED BY <1>2, <1>3, <1>4, <1>5, Zenon DEF StartStep, StartGet, StartRun, StartFail

\* Every step.
LEMMA HeldNext ==
  ASSUME "eof" \notin Faults, ~PidReuse, Inv, PidOK, HeldOK, Next,
         \A j \in Jobs : LogOK(j) /\ GoneOK(j)
  PROVE  HeldOK'
<1> SUFFICES ASSUME NEW c \in Cids, Running(c)', cont'[c].pid = pid'
             PROVE  \E j \in Jobs : Holds(j, c)'
  BY DEF HeldOK
<1>0. TypeOK /\ boots \in Nat /\ start \in [Jobs -> StartRec]
  BY MaxBootsAssumption DEF Inv, TypeOK, SupervisorTypeOK
<1>1. CASE cont[c].st = "none"
  <2>1. cont'[c].st # "none"
    BY DEF Running
  <2>2. PICK j \in Jobs : start'[j] = [start[j] EXCEPT !.pc = "transition", !.c = c]
    BY <1>1, <2>1, ContainersGrow, Zenon DEF Launches
  <2>3. start'[j].pc = "transition" /\ start'[j].c = c
    BY <1>0, <2>2 DEF StartRec
  <2> QED BY <2>3 DEF Holds
<1>2. CASE cont[c].st # "none"
  <2>1. Running(c) /\ cont'[c].pid = cont[c].pid
    BY <1>2, ContainersGrow DEF Grows, Running
  <2>2. cont[c].pid \in 1 .. boots
    BY <1>2 DEF PidOK
  <2>3. ~Die /\ ~Boot
    <3>1. pid' \in 1 .. boots
      BY <2>1, <2>2
    <3>2. pid' # 0 /\ pid' # boots + 1
      BY <1>0, <3>1
    <3> QED BY <3>2, Zenon DEF Die, Boot
  <2>4. pid' = pid
    <3>1. CASE ScanStep
      BY <3>1, Zenon DEF ScanStep, ReadJobs, ListLive, ScanAdopt, ScanResumable,
         ScanUnresumable, ScanInterrupted, ScanLeave, ScanDone, Scanning
    <3>2. CASE Signal \/ DrainStep
      BY <2>3, <3>2 DEF Signal, DrainStep, DrainStop, DrainWait, MarkInterrupted,
         DrainDone, Exit, scanVars
    <3>3. CASE UNCHANGED mainVars
      BY <3>3 DEF mainVars
    <3> QED BY <2>3, <3>1, <3>2, <3>3, Zenon DEF Next, Crash, GoStep, Request,
         ContainerStep, ContainerCrash, Reap
  <2>5. PICK j \in Jobs : Holds(j, c)
    BY <2>1, <2>4, Zenon DEF HeldOK
  <2>6. CASE StreamStep(j)
    BY <2>5, <2>6, HeldByStream
  <2>7. CASE StartStep(j, pid)
    BY <2>5, <2>7, HeldByStart
  <2>8. CASE CreateJob(j)
    BY <2>5, <2>8 DEF CreateJob, Holds, Inv, JobInv, StartOK
  <2>9. ~Reconciled(j)
    <3>1. SUFFICES ASSUME Reconciled(j) PROVE FALSE
      OBVIOUS
    <3>2. j \in todo
      BY <3>1, Zenon DEF Reconciled, ScanAdopt, ScanResumable, ScanUnresumable,
         ScanInterrupted, ScanLeave, Scanning
    <3> QED BY <2>5, <3>2, Zenon DEF Holds, Inv, JobInv, ScanOK
  <2>10. CASE Judged(j) \/ Rests(j)
    BY <2>5, <2>10, Zenon DEF Judged, Rests, Holds
  <2> QED BY <1>0, <2>3, <2>6, <2>7, <2>8, <2>9, <2>10, JobMoves DEF Moves
<1> QED BY <1>1, <1>2

\* What the row records of the log that is being read, and of the log that
\* completed the job.
FinalOK(j) ==
  /\ stream[j].pc # "none" /\ stream[j].n > 0
       => ckpt[j] = cont[stream[j].c].lo + stream[j].n - 1
  /\ state[j] = "completed" =>
       /\ ckpt[j] = LastCkpt
       /\ start[j].pc = "none" /\ stream[j].pc \in {"none", "remove"}

\* A log that is being read keeps its first line.
LEMMA FinalRests ==
  ASSUME Inv, Next, NEW j \in Jobs, FinalOK(j), stream'[j] = stream[j],
         ckpt'[j] = ckpt[j], state'[j] = "completed" => state[j] = "completed",
         start[j].pc = "none" /\ state[j] = "completed" => start'[j].pc = "none"
  PROVE  FinalOK(j)'
<1>1. ASSUME stream[j].pc # "none", stream[j].n > 0
      PROVE  cont'[stream[j].c].lo = cont[stream[j].c].lo
  <2> DEFINE c == stream[j].c
  <2>1. c \in Cids /\ cont[c].job = j /\ stream[j].n <= cont[c].hi - cont[c].lo + 1
    BY <1>1, Zenon DEF Inv, JobInv, StreamOK, Lines
  <2>2. cont[c] \in Container /\ stream[j] \in StreamRec
    BY <2>1, Zenon DEF Inv, TypeOK, WorkerTypeOK, SupervisorTypeOK
  <2>3. cont[c].lo \in Int /\ cont[c].hi \in Int /\ stream[j].n \in Int
    BY <2>2, LastCkptAssumption DEF Container, StreamRec
  <2>4. cont[c].lo <= cont[c].hi
    BY <1>1, <2>1, <2>3
  <2>5. cont[c].st # "none"
    BY <2>1, NoneAssumption, Zenon DEF Inv, ContainerInv
  <2> QED BY <2>1, <2>4, <2>5, ContainersGrow, Zenon DEF Grows
<1> QED BY <1>1, Zenon DEF FinalOK

\* runStream, if every checkpoint it reads is recorded.
LEMMA FinalStream ==
  ASSUME "record" \notin Faults, Inv, NEW j \in Jobs, LogOK(j), FinalOK(j),
         StreamStep(j)
  PROVE  FinalOK(j)'
<1> DEFINE r == stream[j]  c == stream[j].c
<1>0. /\ r \in StreamRec /\ stream \in [Jobs -> StreamRec]
      /\ state \in [Jobs -> RowState] /\ ckpt \in [Jobs -> 0 .. LastCkpt]
  BY DEF Inv, TypeOK, SupervisorTypeOK
<1>1. r.pc # "none" /\ start' = start
  BY DEF StreamStep, StreamAttach, StreamCheckpoint, StreamCompleted, StreamEOF,
     StreamInspect, StreamMarkFailed, StreamSettle, StreamRemove
<1>2. /\ c \in Cids /\ start[j].pc = "none" /\ cont[c] \in Container
      /\ r.ok => cont[c].done
  BY <1>1, Zenon DEF Inv, JobInv, StreamOK, TypeOK, WorkerTypeOK
<1>3. /\ cont[c].lo \in Int /\ cont[c].hi \in Int /\ r.n \in Int
      /\ cont[c].lo <= LastCkpt /\ r.n >= 0
  BY <1>0, <1>2, Ranges, Zenon
<1>4. CASE StreamAttach(j) \/ StreamCompleted(j) \/ StreamEOF(j) \/ StreamInspect(j)
  <2>1. /\ state' = state /\ ckpt' = ckpt /\ cont' = cont
        /\ r.pc \in {"attach", "read", "inspect"}
    BY <1>4 DEF StreamAttach, StreamCompleted, StreamEOF, StreamInspect, rowVars,
       workerVars
  <2>2. state[j] # "completed"
    BY <2>1, Zenon DEF FinalOK
  <2>3. \/ stream'[j] = NoStream
        \/ \E p \in {"read", "markFailed", "inspect"} :
             stream'[j] = [r EXCEPT !.pc = p]
        \/ stream'[j] = [r EXCEPT !.saw = TRUE]
        \/ stream'[j] = [r EXCEPT !.pc = "settle",
                           !.ok = cont[c].code = "zero" \/ r.saw]
    <3>1. CASE StreamInspect(j)
      <4>1. \/ stream'[j] = NoStream
            \/ stream'[j] = [r EXCEPT !.pc = "markFailed"]
            \/ stream'[j] = [r EXCEPT !.pc = "settle",
                               !.ok = cont[c].code = "zero" \/ r.saw]
        BY <1>0, <3>1 DEF StreamInspect
      <4> QED BY <4>1
    <3>2. CASE ~StreamInspect(j)
      BY <1>0, <1>4, <3>2, Zenon DEF StreamAttach, StreamCompleted, StreamEOF
    <3> QED BY <3>1, <3>2
  <2>4. stream'[j].pc = "none" \/ (stream'[j].c = c /\ stream'[j].n = r.n)
    <3>1. CASE stream'[j] = [r EXCEPT !.pc = "settle",
                               !.ok = cont[c].code = "zero" \/ r.saw]
      BY <1>0, <3>1, Zenon DEF StreamRec
    <3>2. CASE \/ \E p : stream'[j] = [r EXCEPT !.pc = p]
               \/ stream'[j] = [r EXCEPT !.saw = TRUE]
      BY <1>0, <3>2, Zenon DEF StreamRec
    <3>3. CASE stream'[j] = NoStream
      BY <3>3, Shapes, Zenon
    <3> QED BY <2>3, <3>1, <3>2, <3>3, Zenon
  <2> QED BY <1>1, <2>1, <2>2, <2>4, Zenon DEF FinalOK
<1>5. CASE StreamCheckpoint(j)
  <2>1. /\ state' = state /\ cont' = cont /\ r.pc = "read"
        /\ ckpt'[j] = cont[c].lo + r.n
        /\ stream'[j] = [r EXCEPT !.n = r.n + 1]
    BY <1>0, <1>5 DEF StreamCheckpoint, RecordCheckpoint, workerVars
  <2>2. state[j] # "completed"
    BY <2>1 DEF FinalOK
  <2>3. stream'[j].c = c /\ stream'[j].n = r.n + 1
    BY <1>0, <2>1 DEF StreamRec
  <2>4. ckpt'[j] = cont'[c].lo + stream'[j].n - 1
    BY <1>3, <2>1, <2>3
  <2> QED BY <2>1, <2>2, <2>3, <2>4 DEF FinalOK
<1>6. CASE StreamMarkFailed(j) \/ StreamRemove(j)
  <2>1. ckpt' = ckpt /\ stream'[j] = NoStream
    BY <1>0, <1>6 DEF StreamMarkFailed, StreamRemove, rowVars
  <2>2. state'[j] = "completed" => state[j] = "completed"
    BY <1>0, <1>6 DEF StreamMarkFailed, StreamRemove, rowVars, Transition
  <2>3. stream'[j].pc = "none"
    BY <2>1 DEF NoStream
  <2> QED BY <1>1, <1>2, <2>1, <2>2, <2>3, Zenon DEF FinalOK
<1>7. CASE StreamSettle(j)
  <2>1. /\ ckpt' = ckpt /\ cont' = cont /\ r.pc = "settle"
        /\ stream'[j] = [r EXCEPT !.pc = "remove"]
        /\ state'[j] = "completed" => r.ok \/ state[j] = "completed"
    BY <1>0, <1>7 DEF StreamSettle, Transition, workerVars
  <2>2. state[j] # "completed"
    BY <2>1 DEF FinalOK
  <2>3. stream'[j].c = c /\ stream'[j].n = r.n /\ stream'[j].pc = "remove"
    BY <1>0, <2>1 DEF StreamRec
  <2>4. r.ok => ckpt[j] = LastCkpt
    <3> SUFFICES ASSUME r.ok PROVE ckpt[j] = LastCkpt
      OBVIOUS
    <3>1. r.n = cont[c].hi - cont[c].lo + 1 /\ cont[c].hi = LastCkpt
      BY <1>2, <2>1 DEF LogOK, Lines, Inv, ContainerInv
    <3>2. r.n > 0
      <4>1. cont[c].lo <= cont[c].hi
        BY <1>3, <3>1, Zenon
      <4>2. cont[c].lo \in 1 .. LastCkpt /\ cont[c].hi \in 0 .. LastCkpt
        BY <1>0, <1>2, Ranges, Zenon
      <4>3. cont[c].hi - cont[c].lo + 1 > 0
        BY <4>1, <4>2, LogSize, Zenon
      <4> QED BY <3>1, <4>3, Zenon
    <3>3. ckpt[j] = cont[c].lo + r.n - 1
      BY <1>1, <3>2 DEF FinalOK
    <3> DEFINE a == cont[c].lo  b == cont[c].hi
    <3>4. a \in Int /\ b \in Int
      BY <1>3, Zenon
    <3>5. ckpt[j] = a + (b - a + 1) - 1 /\ b = LastCkpt
      BY <3>1, <3>3
    <3> HIDE DEF a, b
    <3> QED BY <3>4, <3>5, LastLine, Zenon
  <2> QED BY <1>1, <1>2, <2>1, <2>2, <2>3, <2>4 DEF FinalOK
<1> QED BY <1>4, <1>5, <1>6, <1>7 DEF StreamStep

\* Every step.
LEMMA FinalNext ==
  ASSUME "record" \notin Faults, Inv, Next, NEW j \in Jobs, LogOK(j), FinalOK(j)
  PROVE  FinalOK(j)'
<1>0. /\ TypeOK /\ start \in [Jobs -> StartRec] /\ stream \in [Jobs -> StreamRec]
      /\ state \in [Jobs -> RowState]
  BY DEF Inv, TypeOK, SupervisorTypeOK
<1>1. ASSUME NEW c, stream'[j] = Tracker(c), state'[j] # "completed"
      PROVE  FinalOK(j)'
  <2>1. stream'[j].n = 0
    <3>1. Tracker(c).n = 0
      BY Shapes, Zenon
    <3> QED BY <1>1, <3>1, Zenon
  <2>2. ~(stream'[j].n > 0)
    BY <2>1
  <2> QED BY <1>1, <2>2, Zenon DEF FinalOK
<1>2. CASE StreamStep(j)
  BY <1>2, FinalStream
<1>3. CASE StartStep(j, pid)
  <2>1. start[j].pc # "none" /\ ckpt' = ckpt
    BY <1>3, Zenon
    DEF StartStep, StartGet, StartRun, StartTransition, StartUndo, StartTrack,
       StartFail, rowVars
  <2>2. state[j] # "completed"
    BY <2>1 DEF FinalOK
  <2>3. state'[j] # "completed"
    BY <1>0, <1>3, <2>2, Zenon
    DEF StartStep, StartGet, StartRun, StartTransition, StartUndo,
       StartTrack, StartFail, rowVars, Transition
  <2> QED BY <1>0, <1>1, <1>3, <2>1, <2>2, <2>3, StartTracks, FinalRests, Zenon
<1>4. CASE Reconciled(j)
  <2>1. /\ ckpt' = ckpt
        /\ snap[j].state \in {"running", "checkpointing", "pending",
                              "interrupted_resumable"}
        /\ j \in todo
    BY <1>4, Zenon
    DEF Reconciled, ScanAdopt, ScanResumable, ScanUnresumable, ScanInterrupted,
       ScanLeave, Scanning, WasRunning, rowVars, supervisorVars
  <2>2. state[j] # "completed"
    BY <2>1, Zenon DEF Inv, JobInv, ScanOK
  <2>3. state'[j] # "completed"
    BY <1>0, <1>4, <2>2, Zenon DEF Reconciled, ScanAdopt, ScanResumable, ScanUnresumable,
       ScanInterrupted, ScanLeave, Transition, rowVars, supervisorVars
  <2>4. stream'[j] = stream[j] \/ stream'[j] = Tracker(live[j])
    BY <1>0, <1>4, Zenon DEF Reconciled, ScanAdopt, ScanResumable, ScanUnresumable,
       ScanInterrupted, ScanLeave, goVars, supervisorVars
  <2> QED BY <1>1, <2>1, <2>2, <2>3, <2>4, FinalRests, Zenon
<1>5. CASE CreateJob(j)
  <2>1. ckpt' = ckpt /\ stream' = stream /\ state[j] = "absent" /\ state'[j] = "pending"
    BY <1>0, <1>5 DEF CreateJob
  <2> QED BY <2>1, FinalRests, Zenon
<1>6. CASE Judged(j)
  <2>1. stream'[j] = stream[j] /\ ckpt'[j] = ckpt[j] /\ start'[j] = start[j]
        /\ state'[j] # "completed"
    BY <1>6 DEF Judged
  <2> QED BY <2>1, FinalRests
<1>7. CASE Rests(j)
  BY <1>7, FinalRests DEF Rests
<1>8. CASE Die
  <2>1. /\ start'[j].pc = "none" /\ stream'[j].pc = "none"
        /\ state' = state /\ ckpt' = ckpt
    BY <1>8, Zenon DEF Die, NoStarts, NoStreams, NoStart, NoStream, rowVars
  <2> QED BY <2>1 DEF FinalOK
<1> QED BY <1>0, <1>2, <1>3, <1>4, <1>5, <1>6, <1>7, <1>8, JobMoves DEF Moves

-----------------------------------------------------------------------------
(* The theorems about supervision. *)

\* The first state: nothing runs, and there are no rows.
LEMMA SupervisionInit ==
  ASSUME Init
  PROVE  PidOK /\ HeldOK
         /\ \A j \in Jobs : LogOK(j) /\ WatchOK(j) /\ GoneOK(j) /\ FinalOK(j)
<1>1. /\ phase = "down" /\ pid = 0
      /\ \A c \in Cids : cont[c].st = "none"
  BY DEF Init, WorkerInit, NoContainer
<1>2. \A j \in Jobs : /\ state[j] = "absent"
                      /\ start[j].pc = "none" /\ stream[j].pc = "none"
  BY Zenon DEF Init, SupervisorInit, NoStarts, NoStreams, NoStart, NoStream
<1>3. PidOK /\ HeldOK
  BY <1>1 DEF PidOK, HeldOK, Running
<1>4. \A j \in Jobs : LogOK(j) /\ WatchOK(j) /\ GoneOK(j) /\ FinalOK(j)
  BY <1>2, Zenon DEF LogOK, WatchOK, GoneOK, FinalOK
<1> QED BY <1>3, <1>4

\* Nothing is lost while nothing happens.
LEMMA SupervisionStutter ==
  ASSUME UNCHANGED vars
  PROVE  /\ PidOK => PidOK'
         /\ HeldOK => HeldOK'
         /\ \A j \in Jobs : /\ LogOK(j) => LogOK(j)'
                            /\ WatchOK(j) => WatchOK(j)'
                            /\ GoneOK(j) => GoneOK(j)'
                            /\ FinalOK(j) => FinalOK(j)'
<1>1. /\ UNCHANGED <<phase, pid, boots, todo>>
      /\ UNCHANGED <<state, ckpt, start, stream, cont>>
  BY DEF vars, mainVars, scanVars, supervisorVars, rowVars, goVars, workerVars
<1>2. (PidOK => PidOK') /\ (HeldOK => HeldOK')
  BY <1>1, Zenon DEF PidOK, HeldOK, Holds, Running
<1>3. ASSUME NEW j \in Jobs
      PROVE  /\ LogOK(j) => LogOK(j)'
             /\ WatchOK(j) => WatchOK(j)'
             /\ GoneOK(j) => GoneOK(j)'
             /\ FinalOK(j) => FinalOK(j)'
  BY <1>1, Zenon DEF LogOK, Lines, WatchOK, GoneOK, FinalOK
<1> QED BY <1>2, <1>3

\* While the controller serves, every running row has a Start or a tracker, if
\* docker logs ends with its container, the query of the scan does not fail
\* and the pid is new (the three ways supervisor.go and recovery.go lose one).
THEOREM RunningStaysSupervised ==
  ASSUME "eof" \notin Faults, "scan" \notin Faults, ~PidReuse
  PROVE  Spec => []RunningIsSupervised
<1> DEFINE Watched == PidOK /\ \A j \in Jobs : LogOK(j) /\ WatchOK(j)
<1>1. Init => Watched
  BY SupervisionInit
<1>2. Inv /\ Watched /\ [Next]_vars => Watched'
  <2>1. ASSUME Inv, Watched, Next PROVE Watched'
    BY <2>1, PidNext, LogNext, WatchNext
  <2>2. ASSUME Watched, UNCHANGED vars PROVE Watched'
    BY <2>2, SupervisionStutter
  <2> QED BY <2>1, <2>2
<1>3. Inv /\ Watched => RunningIsSupervised
  BY Zenon DEF Inv, JobInv, ScanOK, WatchOK, RunningIsSupervised
<1> HIDE DEF Watched
<1> QED BY <1>1, <1>2, <1>3, Invariance, PTL DEF Spec

\* No worker that this controller launched runs without a Start or a tracker,
\* if docker logs and docker inspect answer and the pid is new.
THEOREM OwnContainersStayTracked ==
  ASSUME "eof" \notin Faults, "logs" \notin Faults, "inspect" \notin Faults, ~PidReuse
  PROVE  Spec => []OwnContainersAreTracked
<1> DEFINE Tended == PidOK /\ HeldOK /\ \A j \in Jobs : LogOK(j) /\ GoneOK(j)
<1>1. Init => Tended
  BY SupervisionInit
<1>2. Inv /\ Tended /\ [Next]_vars => Tended'
  <2>1. ASSUME Inv, Tended, Next PROVE Tended'
    BY <2>1, PidNext, LogNext, GoneNext, HeldNext
  <2>2. ASSUME Tended, UNCHANGED vars PROVE Tended'
    BY <2>2, SupervisionStutter
  <2> QED BY <2>1, <2>2
<1>3. Tended => OwnContainersAreTracked
  BY DEF HeldOK, Holds, OwnContainersAreTracked
<1> HIDE DEF Tended
<1> QED BY <1>1, <1>2, <1>3, Invariance, PTL DEF Spec

\* A completed row records the final checkpoint, if docker logs ends with its
\* container and no RecordCheckpoint fails: even if two workers wrote the
\* state file at once, or the log was read anew from its first line.
THEOREM CompletedRowsRecordFinal ==
  ASSUME "eof" \notin Faults, "record" \notin Faults
  PROVE  Spec => []CompletedRecordsFinal
<1> DEFINE Recorded == \A j \in Jobs : LogOK(j) /\ FinalOK(j)
<1>1. Init => Recorded
  BY SupervisionInit, Zenon
<1>2. Inv /\ Recorded /\ [Next]_vars => Recorded'
  <2>1. ASSUME Inv, Recorded, Next PROVE Recorded'
    BY <2>1, LogNext, FinalNext
  <2>2. ASSUME Recorded, UNCHANGED vars PROVE Recorded'
    BY <2>2, SupervisionStutter
  <2> QED BY <2>1, <2>2
<1>3. Recorded => CompletedRecordsFinal
  BY DEF FinalOK, CompletedRecordsFinal
<1> HIDE DEF Recorded
<1> QED BY <1>1, <1>2, <1>3, Invariance, PTL DEF Spec
=============================================================================
