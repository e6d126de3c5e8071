----------------------------- MODULE Controller -----------------------------
(* The whole single-node system: controller processes that boot, recover   *)
(* (internal/recovery), serve, drain on a signal (ShutdownGraceful), exit  *)
(* or are killed, around the goroutines of Supervisor and the containers   *)
(* of Worker.  cmd/reaper runs beside it.  Rows, state files and           *)
(* containers survive a controller; its goroutines do not.                 *)
EXTENDS Supervisor

CONSTANTS
  MaxBoots,   \* bound: controller processes in a behaviour
  Cancels,    \* bound: the jobs that clients may cancel
  PidReuse    \* may a controller get the pid of an earlier one?

ASSUME MaxBootsAssumption == MaxBoots \in Nat
ASSUME PidReuseAssumption == PidReuse \in BOOLEAN

VARIABLES
  phase,    \* where main() is
  pid,      \* os.Getpid(), 0 while no controller runs
  boots,    \* controller processes so far
  todo,     \* recovery scan: jobs still to reconcile
  snap,     \* recovery scan: rows as JobsInStates returned them
  live,     \* recovery scan: liveByJobID
  liveUp,   \* recovery scan: jobs whose listed container was running
  drain     \* ShutdownGraceful: how far it is with each tracker

scanVars == <<todo, snap, live, liveUp>>
mainVars == <<phase, pid, boots, scanVars, drain>>
vars == <<mainVars, supervisorVars, workerVars>>

Phase == {"down", "read", "list", "scan", "serving", "draining", "marking"}

TypeOK ==
  /\ WorkerTypeOK
  /\ SupervisorTypeOK
  /\ phase \in Phase
  /\ pid \in Nat
  /\ boots \in 0 .. MaxBoots
  /\ todo \subseteq Jobs
  /\ snap \in [Jobs -> [state : RowState, ckpt : Progress]]
  /\ live \in [Jobs -> Cids \cup {None}]
  /\ liveUp \subseteq Jobs
  /\ drain \in [Jobs -> [pc : {"no", "stop", "wait", "mark"},
                          c : Cids \cup {None}]]

NoDrain == [pc |-> "no", c |-> None]

NoSnap == [j \in Jobs |-> [state |-> "absent", ckpt |-> 0]]
NoLive == [j \in Jobs |-> None]

Init ==
  /\ WorkerInit
  /\ SupervisorInit
  /\ phase = "down" /\ pid = 0 /\ boots = 0
  /\ todo = {} /\ liveUp = {}
  /\ snap = NoSnap /\ live = NoLive
  /\ drain = [j \in Jobs |-> NoDrain]

\* The HTTP server answers from the end of the scan until OnExit.
Serving == phase \in {"serving", "draining", "marking"}

-----------------------------------------------------------------------------
(* main(): boot, and death. *)

Boot ==
  /\ phase = "down" /\ boots < MaxBoots
  /\ pid' \in IF PidReuse THEN 1 .. boots + 1 ELSE {boots + 1}
  /\ phase' = "read"
  /\ boots' = boots + 1
  /\ UNCHANGED <<scanVars, drain, supervisorVars, workerVars>>

\* The process is gone, and with it every goroutine.
Die ==
  /\ phase' = "down" /\ pid' = 0
  /\ start' = NoStarts /\ stream' = NoStreams /\ cancel' = NoCancels
  /\ todo' = {} /\ snap' = NoSnap /\ live' = NoLive /\ liveUp' = {}
  /\ drain' = [j \in Jobs |-> NoDrain]
  /\ UNCHANGED <<boots, rowVars, workerVars>>

\* SIGKILL, or any signal before signals.Run has registered its handlers.
Crash ==
  /\ phase # "down" /\ boots < MaxBoots
  /\ Die

-----------------------------------------------------------------------------
(* Reconciler.Run, once per process, before the HTTP server starts. *)

\* Slip: only one row of the result is read.
ReadJobsOne ==
  LET rows == {j \in Jobs : state[j] \in {"running", "pending",
                                          "interrupted_resumable"}}
  IN  /\ phase = "read"
      /\ todo' = IF rows = {} THEN {} ELSE {CHOOSE j \in rows : TRUE}
      /\ snap' = [j \in Jobs |-> [state |-> state[j], ckpt |-> ckpt[j]]]
      /\ phase' = "list"
      /\ UNCHANGED <<pid, boots, live, liveUp, drain, supervisorVars, workerVars>>

\* A failing query ends the scan, and main serves all the same.
ReadJobs ==
  /\ phase = "read"
  /\ \/ /\ todo' = {j \in Jobs : state[j] \in {"running", "checkpointing",
                                              "pending", "interrupted_resumable"}}
        /\ snap' = [j \in Jobs |-> [state |-> state[j], ckpt |-> ckpt[j]]]
        /\ phase' = "list"
     \/ /\ "scan" \in Faults
        /\ phase' = "serving"
        /\ UNCHANGED <<todo, snap>>
  /\ UNCHANGED <<pid, boots, live, liveUp, drain, supervisorVars, workerVars>>

\* What docker ps -a and the bulk inspect may yield for a job: a running
\* container if there is one, else an exited one, else nothing.
Listed(j) ==
  LET all == {c \in Cids : cont[c].st \in {"running", "exited"}
                           /\ cont[c].job = j}
  IN  IF RunningFor(j) # {} THEN RunningFor(j)
      ELSE IF all # {} THEN all ELSE {None}

\* A failing list is an empty list.
ListLive ==
  /\ phase = "list"
  /\ \/ /\ live' \in [Jobs -> Cids \cup {None}]
        /\ \A j \in Jobs : live'[j] \in Listed(j)
        /\ liveUp' = {j \in Jobs : RunningFor(j) # {}}
     \/ /\ "ps" \in Faults
        /\ live' = NoLive
        /\ liveUp' = {}
  /\ phase' = "scan"
  /\ UNCHANGED <<pid, boots, todo, snap, drain, supervisorVars, workerVars>>

\* The loop body is entered for j: the previous Start has returned.
Scanning(j) ==
  /\ phase = "scan" /\ j \in todo
  /\ \A k \in Jobs : start[k].pc = "none"
  /\ todo' = todo \ {j}
  /\ UNCHANGED <<phase, pid, boots, snap, live, liveUp, drain>>

WasRunning(j) == snap[j].state \in {"running", "checkpointing"}

Resume(j) == [start EXCEPT ![j] = [NoStart EXCEPT !.pc = "get", !.by = "scan"]]

\* Slip: a worker that outlived its controller is only logged.
ScanAdoptLogged(j) ==
  /\ Scanning(j)
  /\ WasRunning(j) /\ j \in liveUp /\ cont[live[j]].pid # pid
  /\ UNCHANGED <<supervisorVars, workerVars>>

\* Re-attach to a worker that outlived the controller that started it.
ScanAdopt(j) ==
  /\ Scanning(j)
  /\ WasRunning(j) /\ j \in liveUp /\ cont[live[j]].pid # pid
  /\ stream' = [stream EXCEPT ![j] = Tracker(live[j])]
  /\ UNCHANGED <<rowVars, start, cancel, workerVars>>

\* Both died, and a checkpoint is on record.
ScanResumable(j) ==
  /\ Scanning(j)
  /\ WasRunning(j) /\ j \notin liveUp /\ snap[j].ckpt # 0
  /\ state' = Transition(j, "interrupted_resumable")
  /\ start' = Resume(j)
  /\ UNCHANGED <<ckpt, cid, stream, cancel, workerVars>>

\* Slip: the recorded checkpoint is not looked at.
ScanUnresumableHasty(j) ==
  /\ Scanning(j)
  /\ WasRunning(j) /\ j \notin liveUp
  /\ state' = Transition(j, "interrupted_unresumable")
  /\ UNCHANGED <<ckpt, cid, goVars, workerVars>>

\* Both died, and no checkpoint is on record.
ScanUnresumable(j) ==
  /\ Scanning(j)
  /\ WasRunning(j) /\ j \notin liveUp /\ snap[j].ckpt = 0
  /\ state' = Transition(j, "interrupted_unresumable")
  /\ UNCHANGED <<ckpt, cid, goVars, workerVars>>

\* Slip: an interrupted job is only logged.
ScanInterruptedLogged(j) ==
  /\ Scanning(j)
  /\ snap[j].state = "interrupted_resumable"
  /\ UNCHANGED <<supervisorVars, workerVars>>

ScanInterrupted(j) ==
  /\ Scanning(j)
  /\ snap[j].state = "interrupted_resumable"
  /\ start' = Resume(j)
  /\ UNCHANGED <<rowVars, stream, cancel, workerVars>>

\* Pending rows are left alone, and so is a running row whose container
\* carries the pid of this very controller.
ScanLeave(j) ==
  /\ Scanning(j)
  /\ \/ snap[j].state = "pending"
     \/ WasRunning(j) /\ j \in liveUp /\ cont[live[j]].pid = pid
  /\ UNCHANGED <<supervisorVars, workerVars>>

ScanDone ==
  /\ phase = "scan" /\ todo = {}
  /\ \A j \in Jobs : start[j].pc = "none"
  /\ phase' = "serving"
  /\ snap' = NoSnap /\ live' = NoLive /\ liveUp' = {}
  /\ UNCHANGED <<pid, boots, todo, drain, supervisorVars, workerVars>>

ScanStep ==
  \/ ReadJobs
  \/ ListLive
  \/ \E j \in Jobs : \/ ScanAdopt(j)
                     \/ ScanResumable(j)
                     \/ ScanUnresumable(j)
                     \/ ScanInterrupted(j)
                     \/ ScanLeave(j)
  \/ ScanDone

-----------------------------------------------------------------------------
(* ShutdownGraceful on SIGTERM, SIGINT or SIGUSR1.  (The simulatedFault    *)
(* branch of markInterrupted repeats the choice made before it, so the     *)
(* three signals act alike.)  The HTTP server is still up meanwhile.       *)

\* The snapshot of the trackers.
Signal ==
  /\ phase = "serving" /\ boots < MaxBoots
  /\ phase' = "draining"
  /\ drain' = [j \in Jobs |-> IF stream[j].pc = "none" THEN NoDrain
                              ELSE [pc |-> "stop", c |-> stream[j].c]]
  /\ UNCHANGED <<pid, boots, scanVars, supervisorVars, workerVars>>

\* docker stop, one tracker of the snapshot after the other.
DrainStop(j) ==
  /\ phase = "draining" /\ drain[j].pc = "stop"
  /\ \/ cont' = Killed(drain[j].c)
     \/ "stop" \in Faults /\ UNCHANGED cont
  /\ drain' = [drain EXCEPT ![j].pc = "wait"]
  /\ UNCHANGED <<phase, pid, boots, scanVars, supervisorVars, file, overlap>>

\* Wait for the tracker, or kill its container after the grace period.
DrainWait(j) ==
  /\ phase = "draining" /\ drain[j].pc = "wait"
  /\ \A k \in Jobs : drain[k].pc # "stop"
  /\ \/ stream[j].pc = "none" /\ UNCHANGED cont
     \/ stream[j].pc # "none" /\ cont' = Killed(drain[j].c)
     \/ stream[j].pc # "none" /\ "stop" \in Faults /\ UNCHANGED cont
  /\ drain' = [drain EXCEPT ![j].pc = "mark"]
  /\ UNCHANGED <<phase, pid, boots, scanVars, supervisorVars, file, overlap>>

\* wg.Wait: every tracker, those started during the drain included.
DrainDone ==
  /\ phase = "draining"
  /\ \A j \in Jobs : drain[j].pc \notin {"stop", "wait"} /\ stream[j].pc = "none"
  /\ phase' = "marking"
  /\ UNCHANGED <<pid, boots, scanVars, drain, supervisorVars, workerVars>>

\* Slip: every job of the snapshot is marked resumable.
MarkInterruptedBlind(j) ==
  /\ phase = "marking" /\ drain[j].pc = "mark"
  /\ state' = Transition(j, "interrupted_resumable")
  /\ drain' = [drain EXCEPT ![j] = NoDrain]
  /\ UNCHANGED <<phase, pid, boots, scanVars, ckpt, cid, goVars, workerVars>>

\* GetJob and Transition are one step: a cancel between them makes the
\* state terminal, which the Transition refuses as the check would have.
MarkInterrupted(j) ==
  /\ phase = "marking" /\ drain[j].pc = "mark"
  /\ state' = IF IsTerminal(state[j]) THEN state
              ELSE Transition(j, IF ckpt[j] = 0 THEN "interrupted_unresumable"
                                 ELSE "interrupted_resumable")
  /\ drain' = [drain EXCEPT ![j] = NoDrain]
  /\ UNCHANGED <<phase, pid, boots, scanVars, ckpt, cid, goVars, workerVars>>

\* OnExit, and main returns: Start goroutines are not waited for, and
\* requests only for five seconds.
Exit ==
  /\ phase = "marking"
  /\ \A j \in Jobs : drain[j].pc = "no"
  /\ Die

DrainStep ==
  \/ \E j \in Jobs : DrainStop(j) \/ DrainWait(j) \/ MarkInterrupted(j)
  \/ DrainDone
  \/ Exit

-----------------------------------------------------------------------------
(* cmd/reaper --remove: every labelled container whose pid is not alive.   *)

Reap(c) ==
  /\ "reaper" \in Faults
  /\ cont[c].st \in {"running", "exited"} /\ cont[c].pid # pid
  /\ cont' = Removed(c)
  /\ UNCHANGED <<mainVars, supervisorVars, file, overlap>>

-----------------------------------------------------------------------------

\* What the goroutines of the controller do by themselves.
GoStep(j) ==
  /\ UNCHANGED mainVars
  /\ StartStep(j, pid) \/ StreamStep(j) \/ CancelStep(j)

\* What clients do.
Request(j) ==
  /\ UNCHANGED mainVars
  /\ \/ Serving /\ CreateJob(j)
     \/ Serving /\ j \in Cancels /\ CancelGet(j)
     \/ CancelAbort(j)

ContainerStep(c) == WorkerStep(c) /\ UNCHANGED <<mainVars, supervisorVars>>

ContainerCrash(c) == WorkerCrash(c) /\ UNCHANGED <<mainVars, supervisorVars>>

Next ==
  \/ Boot
  \/ Crash
  \/ Signal
  \/ ScanStep
  \/ DrainStep
  \/ \E j \in Jobs : GoStep(j) \/ Request(j)
  \/ \E c \in Cids : ContainerStep(c) \/ ContainerCrash(c) \/ Reap(c)

Spec == Init /\ [][Next]_vars

(* The Go scheduler runs every goroutine, the kernel every worker, and an  *)
(* operator (or a service manager) restarts a controller that is down.     *)
(* Nothing makes clients, signals or failures happen.                      *)
Fairness ==
  /\ WF_vars(Boot)
  /\ WF_vars(ScanStep)
  /\ WF_vars(DrainStep)
  /\ \A j \in Jobs : /\ WF_vars(UNCHANGED mainVars /\ StartStep(j, pid))
                     /\ WF_vars(UNCHANGED mainVars /\ StreamStep(j))
                     /\ WF_vars(UNCHANGED mainVars /\ CancelStep(j))
  /\ \A c \in Cids : WF_vars(ContainerStep(c))

FairSpec == Spec /\ Fairness
=============================================================================
