------------------------ MODULE ControllerProperties ------------------------
(* The properties of Controller: what its runs check and its proofs show.  *)
EXTENDS Controller

\* The states, records and files map to themselves.
Contract == INSTANCE JobContract

\* Under every crash, restart and failure the model knows, the rows, the
\* recorded checkpoints and the state files behave as the contract says
\* (README "Crash modes"; store.Transition, RecordCheckpoint, write_state).
ImplementsContract == Contract!Spec

\* A recorded checkpoint is backed by a state file at least as advanced: the
\* worker renames state.bin before it prints the line, and no stream, replay
\* or restart records more (supervisor.runStream, main.cpp).
CheckpointBacked ==
  \A j \in Jobs : overlap[j] \/ ckpt[j] <= file[j]

\* A completed job's state file holds the final state, and keeps it, also
\* when the job was interrupted and resumed (supervisor.go:267).
CompletedIsFinal ==
  \A j \in Jobs : state[j] = "completed" /\ ~overlap[j] => file[j] = LastCkpt

\* A worker told to resume finds a state file, even when two workers share
\* it: Start passes --resume-from only for a row with a recorded checkpoint
\* (supervisor.go:136), so exit code 4 for a missing file cannot happen.
ResumeFindsState ==
  \A c \in Cids : cont[c].st # "none" /\ cont[c].resume => file[cont[c].job] > 0

\* A job is never given up while a checkpoint is on record, and never called
\* resumable without one (recovery.go:79-92, supervisor.go:343-346), neither
\* at the verdict nor by anything recorded after it.
VerdictMatchesRecord ==
  \A j \in Jobs :
    /\ state[j] = "interrupted_unresumable" => ckpt[j] = 0
    /\ state[j] = "interrupted_resumable" => ckpt[j] # 0

\* While the controller serves, a running row has a tracker: no path through
\* the scan, Start, the streams or a failing docker call leaves the job
\* without a goroutine that will record its end.
RunningIsSupervised ==
  \A j \in Jobs :
    phase \in {"serving", "draining"} /\ state[j] = "running"
      /\ start[j].pc = "none" => stream[j].pc # "none"

\* A running container that carries this controller's pid is held by a Start
\* in progress or by a tracker: a Start that loses against a cancel removes
\* what it launched (supervisor.go:168-171), and no tracker is dropped early.
OwnContainersAreTracked ==
  \A c \in Cids : Running(c) /\ cont[c].pid = pid =>
    \E j \in Jobs : start[j].c = c \/ stream[j].c = c

\* A completed job's row records the final checkpoint, although a re-attached
\* stream replays the log from its first line and moves the record back.
CompletedRecordsFinal ==
  \A j \in Jobs : state[j] = "completed" => ckpt[j] = LastCkpt

\* A job that reached a terminal state stays in it, and no container is
\* started for it unless its Start was already past the state check
\* (store.validTransitions, supervisor.go:106).
TerminalIsFinal ==
  [][\A j \in Jobs : IsTerminal(state[j]) =>
       /\ state'[j] = state[j]
       /\ start[j].pc # "run" =>
            \A c \in Cids : cont'[c].job = j => cont[c].job = j]_vars

\* A job that was started reaches a terminal state, through any number of
\* controller restarts and worker crashes (README "Crash modes").
StartedJobsEnd ==
  \A j \in Jobs :
    state[j] \in {"running", "interrupted_resumable"} ~> IsTerminal(state[j])

\* A drain ends: ShutdownGraceful returns and the process exits.
DrainEnds == phase = "draining" ~> phase = "down"
-----------------------------------------------------------------------------
(* The inductive invariant behind the safety properties. *)

\* The log of a container is an interval that grows by the worker's steps.
ContainerInv ==
  \A c \in Cids :
    /\ cont[c].st = "none" <=> cont[c].job = None
    /\ cont[c].lo <= cont[c].hi + 1
    /\ cont[c].pc = "boot" => cont[c].hi = 0 /\ ~cont[c].done
    /\ cont[c].pc = "emit" => cont[c].hi < LastCkpt
    /\ cont[c].done => cont[c].hi = LastCkpt
    /\ cont[c].pc = "exit" \/ cont[c].code = "zero" => cont[c].done

\* How the state file stands to the log of each container of its job.
FileInv ==
  \A c \in Cids : cont[c].st # "none" =>
    /\ cont[c].resume \/ cont[c].hi > 0 \/ cont[c].pc = "emit"
         => file[cont[c].job] > 0
    /\ ~overlap[cont[c].job] => cont[c].hi <= file[cont[c].job]
    /\ ~overlap[cont[c].job] /\ Running(c) =>
         /\ cont[c].pc = "boot" /\ ~cont[c].resume => file[cont[c].job] = 0
         /\ cont[c].pc = "compute" => file[cont[c].job] <= cont[c].hi + 1
         /\ cont[c].pc = "emit" => file[cont[c].job] = cont[c].hi + 1

SoleWorker ==
  \A c, d \in Cids :
    Running(c) /\ Running(d) /\ cont[c].job = cont[d].job
      /\ ~overlap[cont[c].job] => c = d

\* The states a row with a tracker can be in.
Tracked == {"running", "checkpointing", "completed", "failed", "cancelled"}

StreamOK(j) ==
  stream[j].pc # "none" =>
    /\ stream[j].c \in Cids /\ cont[stream[j].c].job = j
    /\ stream[j].n <= Lines(j)
    /\ stream[j].saw \/ stream[j].ok => cont[stream[j].c].done
    /\ state[j] \in Tracked
    /\ start[j].pc = "none"

\* Nothing has ever been launched for the job.
Unlaunched(j) ==
  /\ file[j] = 0 /\ ckpt[j] = 0
  /\ \A c \in Cids : cont[c].job # j

StartOK(j) ==
  /\ state[j] = "absent" => Unlaunched(j)
  /\ start[j].pc # "none" => state[j] # "absent"
  /\ start[j].pc \in {"get", "run"} /\ start[j].by = "api" => Unlaunched(j)
  /\ start[j].pc = "get" /\ start[j].by = "scan"
       => state[j] = "interrupted_resumable"
  /\ start[j].pc = "run" /\ start[j].by = "scan" => start[j].resume
  /\ start[j].resume => file[j] > 0
  /\ start[j].pc \in {"transition", "undo", "track"}
       => start[j].c \in Cids /\ cont[start[j].c].job = j
  /\ start[j].pc = "track" => state[j] \in Tracked

\* Which goroutines exist where main() is.
PhaseOK(j) ==
  /\ ~Serving => cancel[j].pc = "none"
  /\ phase \in {"down", "read", "list"} =>
       start[j].pc = "none" /\ stream[j].pc = "none"
  /\ start[j].pc # "none" => (start[j].by = "scan" <=> phase = "scan")

\* A row the scan has yet to handle is as it was read.
ScanOK(j) ==
  /\ j \in todo => /\ phase \in {"list", "scan"}
                   /\ state[j] = snap[j].state /\ ckpt[j] = snap[j].ckpt
                   /\ state[j] # "absent"
                   /\ start[j].pc = "none" /\ stream[j].pc = "none"
  /\ j \in liveUp => live[j] \in Cids /\ cont[live[j]].job = j

\* A tracker of the snapshot is gone when the marking begins.
DrainOK(j) ==
  drain[j].pc # "no" =>
    /\ phase \in {"draining", "marking"}
    /\ start[j].pc = "none" /\ state[j] # "absent"
    /\ phase = "marking" => stream[j].pc = "none"

\* What the row says about the state file.
RecordOK(j) ==
  /\ state[j] = "interrupted_unresumable" => ckpt[j] = 0
  /\ state[j] = "interrupted_resumable" => ckpt[j] # 0
  /\ ckpt[j] # 0 => file[j] > 0
  /\ overlap[j] \/ ckpt[j] <= file[j]
  /\ state[j] = "completed" /\ ~overlap[j] => file[j] = LastCkpt

JobInv(j) ==
  StreamOK(j) /\ StartOK(j) /\ PhaseOK(j) /\ ScanOK(j) /\ DrainOK(j) /\ RecordOK(j)

\* Checkpoints are only recorded of, and files only written by, workers that
\* the invariants above describe (worker/src/main.cpp, supervisor.runStream,
\* Supervisor.Start, recovery.Run and ShutdownGraceful together).
Inv ==
  /\ TypeOK
  /\ ContainerInv /\ FileInv /\ SoleWorker
  /\ \A j \in Jobs : JobInv(j)

-----------------------------------------------------------------------------
(* What comments and documents of the repository say and the code does not *)
(* keep.                                                                   *)

\* A graceful shutdown does not fail a job that has a checkpoint on record
\* ("Jobs that did not complete cleanly are marked interrupted_resumable when
\* a checkpoint exists", supervisor.go:302).
DrainKeepsWork ==
  [][\A j \in Jobs :
       phase = "draining" /\ state[j] = "running" /\ ckpt[j] # 0
         => state'[j] # "failed"]_vars

\* A cancelled job has no worker left when the request has returned ("Cancel
\* sends SIGTERM to the worker and transitions the job to cancelled",
\* supervisor.go:284).
CancelStopsWorker ==
  \A j \in Jobs :
    state[j] = "cancelled" /\ cancel[j].pc = "none" /\ start[j].pc = "none"
      => RunningFor(j) = {}
=============================================================================
