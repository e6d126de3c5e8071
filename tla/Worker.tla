------------------------------- MODULE Worker -------------------------------
(* Worker containers: the C++ worker of worker/src and the part of the     *)
(* Docker daemon that internal/docker/client.go drives.                    *)
(*                                                                         *)
(* The work of a job is LastCkpt checkpoints, the last one being the final *)
(* state.  A worker alternates write_state (rename of state.bin) and the   *)
(* emission of one checkpoint line, then prints "completed" and exits 0.   *)
(* The lines a container has printed are therefore checkpoints lo..hi,     *)
(* each once and in order, and possibly the completed line: the log is     *)
(* represented by these three values.                                      *)
EXTENDS Integers

CONSTANTS
  Jobs,       \* job ids
  Cids,       \* container ids the daemon can hand out
  LastCkpt,   \* checkpoints from the first to the final state of a job
  Faults,     \* which calls and processes may fail, a subset of FaultKinds
  None        \* NULL

FaultKinds == {"run", "ps", "logs", "eof", "inspect", "stop", "record",
               "abort", "worker", "reaper", "scan"}

ASSUME NoneAssumption == None \notin Jobs \cup Cids
ASSUME LastCkptAssumption == LastCkpt \in Nat \ {0}
ASSUME FaultsAssumption == Faults \subseteq FaultKinds

VARIABLES
  file,     \* file[j]: progress in the job's state.bin, 0 when there is none
  cont,     \* cont[c]: the container
  overlap   \* history: overlap[j] once two containers of j ran together

workerVars == <<file, cont, overlap>>

Progress == 0 .. LastCkpt

Container ==
  [st     : {"none", "running", "exited", "gone"},
   job    : Jobs \cup {None},               \* label com.jobctl.job_id
   pid    : Nat,                            \* label com.jobctl.controller_pid
   resume : BOOLEAN,                        \* started with --resume-from
   pc     : {"boot", "compute", "emit", "exit"},
   lo     : 1 .. LastCkpt,                  \* the log: checkpoints lo..hi ...
   hi     : Progress,
   done   : BOOLEAN,                        \* ... and the completed line
   code   : {"none", "zero", "nonzero"}]    \* exit code

NoContainer ==
  [st |-> "none", job |-> None, pid |-> 0, resume |-> FALSE, pc |-> "boot",
   lo |-> 1, hi |-> 0, done |-> FALSE, code |-> "none"]

WorkerTypeOK ==
  /\ file \in [Jobs -> Progress]
  /\ cont \in [Cids -> Container]
  /\ overlap \in [Jobs -> BOOLEAN]

WorkerInit ==
  /\ file = [j \in Jobs |-> 0]
  /\ cont = [c \in Cids |-> NoContainer]
  /\ overlap = [j \in Jobs |-> FALSE]

Running(c) == cont[c].st = "running"

RunningFor(j) == {c \in Cids : Running(c) /\ cont[c].job = j}

-----------------------------------------------------------------------------
(* The Docker daemon. *)

\* docker run -d --init --label ...: the next container id, c, starts.
DockerRun(c, j, p, resume) ==
  /\ cont[c].st = "none"
  /\ cont' = [cont EXCEPT ![c] = [NoContainer EXCEPT
                !.st = "running", !.job = j, !.pid = p, !.resume = resume]]
  /\ overlap' = [overlap EXCEPT ![j] = @ \/ RunningFor(j) # {}]
  /\ UNCHANGED file

\* The container table after the process of c was killed.  The worker
\* installs no SIGTERM handler, so docker stop and docker kill both end it
\* wherever it is, with a non-zero exit code.
Killed(c) ==
  IF c \in Cids /\ Running(c)
  THEN [cont EXCEPT ![c] = [@ EXCEPT !.st = "exited", !.code = "nonzero"]]
  ELSE cont

\* docker rm -f: kills and forgets.
Removed(c) ==
  IF c \in Cids /\ cont[c].st # "none"
  THEN [cont EXCEPT ![c].st = "gone"]
  ELSE cont

-----------------------------------------------------------------------------
(* The worker process in container c. *)

\* Slip: --resume-from is parsed and not used.
WorkerBootFresh(c) ==
  /\ Running(c) /\ cont[c].pc = "boot"
  /\ cont' = [cont EXCEPT ![c].pc = "compute"]
  /\ UNCHANGED <<file, overlap>>

\* Argument parsing and read_state.  A resume without a readable state file
\* ends in a CheckpointError; a resume of final state re-emits that state.
WorkerBoot(c) ==
  LET from == IF cont[c].resume THEN file[cont[c].job] ELSE 0
      hi   == IF from < LastCkpt THEN from ELSE LastCkpt - 1
  IN  /\ Running(c) /\ cont[c].pc = "boot"
      /\ \/ /\ cont[c].resume /\ from = 0
            /\ cont' = Killed(c)
         \/ /\ cont[c].resume => from > 0
            /\ cont' = [cont EXCEPT ![c] = [@ EXCEPT !.pc = "compute",
                                                   !.lo = hi + 1, !.hi = hi]]
      /\ UNCHANGED <<file, overlap>>

\* Slip: the checkpoint line goes out before the rename.
WriteStateLate(c) ==
  /\ Running(c) /\ cont[c].pc = "compute" /\ cont[c].hi < LastCkpt
  /\ file' = [file EXCEPT ![cont[c].job] = cont[c].hi]
  /\ cont' = [cont EXCEPT ![c].pc = "emit"]
  /\ UNCHANGED overlap

\* Slip: the loop runs past its bound.
WriteStateBeyond(c) ==
  /\ Running(c) /\ cont[c].pc = "compute"
  /\ file' = [file EXCEPT ![cont[c].job] = cont[c].hi + 1]
  /\ cont' = [cont EXCEPT ![c].pc = "emit"]
  /\ UNCHANGED overlap

\* The next checkpoint's worth of work, then write_state.
WriteState(c) ==
  /\ Running(c) /\ cont[c].pc = "compute" /\ cont[c].hi < LastCkpt
  /\ file' = [file EXCEPT ![cont[c].job] = cont[c].hi + 1]
  /\ cont' = [cont EXCEPT ![c].pc = "emit"]
  /\ UNCHANGED overlap

\* emit_checkpoint: one line on stdout.
EmitCheckpoint(c) ==
  /\ Running(c) /\ cont[c].pc = "emit"
  /\ cont' = [cont EXCEPT ![c] = [@ EXCEPT !.pc = "compute", !.hi = cont[c].hi + 1]]
  /\ UNCHANGED <<file, overlap>>

EmitCompleted(c) ==
  /\ Running(c) /\ cont[c].pc = "compute" /\ cont[c].hi = LastCkpt
  /\ cont' = [cont EXCEPT ![c] = [@ EXCEPT !.pc = "exit", !.done = TRUE]]
  /\ UNCHANGED <<file, overlap>>

WorkerExit(c) ==
  /\ Running(c) /\ cont[c].pc = "exit"
  /\ cont' = [cont EXCEPT ![c] = [@ EXCEPT !.st = "exited", !.code = "zero"]]
  /\ UNCHANGED <<file, overlap>>

\* The worker dies on its own: out of memory, a full disk, a daemon restart.
WorkerCrash(c) ==
  /\ "worker" \in Faults
  /\ Running(c)
  /\ cont' = Killed(c)
  /\ UNCHANGED <<file, overlap>>

WorkerStep(c) ==
  \/ WorkerBoot(c)
  \/ WriteState(c)
  \/ EmitCheckpoint(c)
  \/ EmitCompleted(c)
  \/ WorkerExit(c)
=============================================================================
