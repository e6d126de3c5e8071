----------------------------- MODULE Supervisor -----------------------------
(* One controller process at work: the job rows (internal/store), the      *)
(* goroutines of internal/supervisor (Start, runStream, Cancel) and the    *)
(* HTTP handlers of internal/api that run them.  Each goroutine is split   *)
(* at its calls to SQLite and Docker: everything between two calls is      *)
(* local, every call is one step, and other goroutines run in between.     *)
EXTENDS Worker, JobStates

VARIABLES
  state,    \* jobs.state
  ckpt,     \* the checkpoint in jobs.last_checkpoint_*, 0 for NULL
  cid,      \* jobs.container_id
  start,    \* start[j]: the goroutine inside Supervisor.Start
  stream,   \* stream[j]: the tracker of j and its runStream goroutine
  cancel    \* cancel[j]: the HTTP handler inside Supervisor.Cancel

rowVars == <<state, ckpt, cid>>
goVars == <<start, stream, cancel>>
supervisorVars == <<rowVars, goVars>>

StartRec ==
  [pc     : {"none", "get", "run", "transition", "undo", "track", "fail"},
   by     : {"api", "scan"},        \* createJob or the recovery scan
   resume : BOOLEAN,
   c      : Cids \cup {None}]

StreamRec ==
  [pc  : {"none", "attach", "read", "inspect", "markFailed", "settle", "remove"},
   c   : Cids \cup {None},
   n   : 0 .. LastCkpt,             \* checkpoint lines read
   saw : BOOLEAN,                   \* sawCompleted
   ok  : BOOLEAN]                   \* settle with completed, not failed

CancelRec == [pc : {"none", "stop", "transition"}, c : Cids \cup {None}]

NoStart == [pc |-> "none", by |-> "api", resume |-> FALSE, c |-> None]
NoStream == [pc |-> "none", c |-> None, n |-> 0, saw |-> FALSE, ok |-> FALSE]
NoCancel == [pc |-> "none", c |-> None]

SupervisorTypeOK ==
  /\ state \in [Jobs -> RowState]
  /\ ckpt \in [Jobs -> Progress]
  /\ cid \in [Jobs -> Cids \cup {None}]
  /\ start \in [Jobs -> StartRec]
  /\ stream \in [Jobs -> StreamRec]
  /\ cancel \in [Jobs -> CancelRec]

NoStarts == [j \in Jobs |-> NoStart]
NoStreams == [j \in Jobs |-> NoStream]
NoCancels == [j \in Jobs |-> NoCancel]

SupervisorInit ==
  /\ state = [j \in Jobs |-> "absent"]
  /\ ckpt = [j \in Jobs |-> 0]
  /\ cid = [j \in Jobs |-> None]
  /\ start = NoStarts /\ stream = NoStreams /\ cancel = NoCancels

-----------------------------------------------------------------------------
(* internal/store. *)

\* Store.Transition, as the state column it leaves behind: one transaction
\* that reads the state, refuses what the table does not allow, and writes.
Transition(j, next) ==
  IF IsValidTransition(state[j], next)
  THEN [state EXCEPT ![j] = next]
  ELSE state

\* Store.RecordCheckpoint, as the last_checkpoint columns it leaves behind:
\* an UPDATE that looks at no other column.
RecordCheckpoint(j, p) == [ckpt EXCEPT ![j] = p]

\* Slip: the stream skips what the container has already printed.
TrackerTail(c) ==
  [NoStream EXCEPT !.pc = "attach", !.c = c, !.n = cont[c].hi - cont[c].lo + 1]

\* supervisor.track: the goroutine of a new tracker.
Tracker(c) == [NoStream EXCEPT !.pc = "attach", !.c = c]

-----------------------------------------------------------------------------
(* Supervisor.Start, in a goroutine of createJob or inside the scan. *)

\* createJob: insert the row, then go Start.
CreateJob(j) ==
  /\ state[j] = "absent"
  /\ state' = [state EXCEPT ![j] = "pending"]
  /\ start' = [start EXCEPT ![j] = [NoStart EXCEPT !.pc = "get"]]
  /\ UNCHANGED <<ckpt, cid, stream, cancel, workerVars>>

\* What the caller does with an error of Start: createJob marks the job
\* failed, the recovery scan logs.
StartError(j) ==
  IF start[j].by = "api"
  THEN [start EXCEPT ![j].pc = "fail"]
  ELSE [start EXCEPT ![j] = NoStart]

\* GetJob and the state check.
StartGet(j) ==
  /\ start[j].pc = "get"
  /\ IF state[j] \in {"pending", "interrupted_resumable"}
     THEN start' = [start EXCEPT ![j] = [@ EXCEPT !.pc = "run",
                      !.resume = state[j] = "interrupted_resumable"
                                 /\ ckpt[j] # 0]]
     ELSE start' = StartError(j)
  /\ UNCHANGED <<rowVars, stream, cancel, workerVars>>

\* docker run with the label of this controller's pid, p.
StartRun(j, p) ==
  /\ start[j].pc = "run"
  /\ \/ \E c \in Cids :
          /\ DockerRun(c, j, p, start[j].resume)
          /\ start' = [start EXCEPT ![j] = [@ EXCEPT !.pc = "transition",
                                                       !.c = c]]
     \/ /\ "run" \in Faults
        /\ start' = StartError(j)
        /\ UNCHANGED workerVars
  /\ UNCHANGED <<rowVars, stream, cancel>>

\* Transition to running, with container_id in the same transaction.
StartTransition(j) ==
  /\ start[j].pc = "transition"
  /\ state' = Transition(j, "running")
  /\ IF IsValidTransition(state[j], "running")
     THEN /\ cid' = [cid EXCEPT ![j] = start[j].c]
          /\ start' = [start EXCEPT ![j].pc = "track"]
     ELSE /\ start' = [start EXCEPT ![j].pc = "undo"]
          /\ UNCHANGED cid
  /\ UNCHANGED <<ckpt, stream, cancel, workerVars>>

\* Slip: the container is left running.
StartUndoLeaky(j) ==
  /\ start[j].pc = "undo"
  /\ start' = StartError(j)
  /\ UNCHANGED <<rowVars, stream, cancel, workerVars>>

\* The row moved on while the container was starting: remove the container.
StartUndo(j) ==
  /\ start[j].pc = "undo"
  /\ cont' = Removed(start[j].c)
  /\ start' = StartError(j)
  /\ UNCHANGED <<rowVars, stream, cancel, file, overlap>>

\* Slip: the table of trackers is made anew.
StartTrackAlone(j) ==
  /\ start[j].pc = "track"
  /\ stream' = [NoStreams EXCEPT ![j] = Tracker(start[j].c)]
  /\ start' = [start EXCEPT ![j] = NoStart]
  /\ UNCHANGED <<rowVars, cancel, workerVars>>

StartTrack(j) ==
  /\ start[j].pc = "track"
  /\ stream' = [stream EXCEPT ![j] = Tracker(start[j].c)]
  /\ start' = [start EXCEPT ![j] = NoStart]
  /\ UNCHANGED <<rowVars, cancel, workerVars>>

\* createJob after an error of Start: the job becomes failed.
StartFail(j) ==
  /\ start[j].pc = "fail"
  /\ state' = Transition(j, "failed")
  /\ start' = [start EXCEPT ![j] = NoStart]
  /\ UNCHANGED <<ckpt, cid, stream, cancel, workerVars>>

StartStep(j, p) ==
  \/ StartGet(j)
  \/ StartRun(j, p)
  \/ StartTransition(j)
  \/ StartUndo(j)
  \/ StartTrack(j)
  \/ StartFail(j)

-----------------------------------------------------------------------------
(* runStream, the goroutine of a tracker. *)

\* FollowLogs reads the container's log from its first line.
StreamAttach(j) ==
  /\ stream[j].pc = "attach"
  /\ \/ stream' = [stream EXCEPT ![j].pc = "read"]
     \/ /\ "logs" \in Faults
        /\ stream' = [stream EXCEPT ![j].pc = "markFailed"]
  /\ UNCHANGED <<rowVars, start, cancel, workerVars>>

\* Checkpoint lines the container of the tracker has printed.
Lines(j) == LET k == cont[stream[j].c] IN k.hi - k.lo + 1

\* A checkpoint line: RecordCheckpoint, whatever the state of the row.  The
\* line is dropped when it does not decode or when the update fails.
StreamCheckpoint(j) ==
  /\ stream[j].pc = "read"
  /\ stream[j].n < Lines(j)
  /\ \/ ckpt' = RecordCheckpoint(j, cont[stream[j].c].lo + stream[j].n)
     \/ "record" \in Faults /\ UNCHANGED ckpt
  /\ stream' = [stream EXCEPT ![j].n = @ + 1]
  /\ UNCHANGED <<state, cid, start, cancel, workerVars>>

StreamCompleted(j) ==
  /\ stream[j].pc = "read"
  /\ stream[j].n = Lines(j) /\ cont[stream[j].c].done /\ ~stream[j].saw
  /\ stream' = [stream EXCEPT ![j].saw = TRUE]
  /\ UNCHANGED <<rowVars, start, cancel, workerVars>>

\* docker logs --follow ends with the container; a removed container cuts it
\* short, and so does the death of the docker logs process.
LogsEnded(j) ==
  LET k == cont[stream[j].c] IN
    \/ k.st = "exited" /\ stream[j].n = Lines(j) /\ (k.done => stream[j].saw)
    \/ k.st = "gone"
    \/ "eof" \in Faults

StreamEOF(j) ==
  /\ stream[j].pc = "read"
  /\ LogsEnded(j)
  /\ stream' = [stream EXCEPT ![j].pc = "inspect"]
  /\ UNCHANGED <<rowVars, start, cancel, workerVars>>

\* Slip: a stream whose container is still running settles the job.
StreamInspectHasty(j) ==
  /\ stream[j].pc = "inspect"
  /\ stream' = [stream EXCEPT ![j] = [@ EXCEPT !.pc = "settle", !.ok = TRUE]]
  /\ UNCHANGED <<rowVars, start, cancel, workerVars>>

\* Slip: a failing inspect is only logged.
StreamInspectSilent(j) ==
  LET k == cont[stream[j].c] IN
  /\ stream[j].pc = "inspect"
  /\ stream' = [stream EXCEPT ![j] =
       IF k.st = "exited"
       THEN [@ EXCEPT !.pc = "settle", !.ok = k.code = "zero" \/ stream[j].saw]
       ELSE NoStream]
  /\ UNCHANGED <<rowVars, start, cancel, workerVars>>

\* docker inspect: mark failed, leave a running container to the next
\* recovery scan, or settle by exit code and completed line.
StreamInspect(j) ==
  LET k == cont[stream[j].c] IN
  /\ stream[j].pc = "inspect"
  /\ \/ /\ k.st = "gone" \/ "inspect" \in Faults
        /\ stream' = [stream EXCEPT ![j].pc = "markFailed"]
     \/ /\ k.st = "running"
        /\ stream' = [stream EXCEPT ![j] = NoStream]
     \/ /\ k.st = "exited"
        /\ stream' = [stream EXCEPT ![j] = [@ EXCEPT !.pc = "settle",
                        !.ok = k.code = "zero" \/ stream[j].saw]]
  /\ UNCHANGED <<rowVars, start, cancel, workerVars>>

StreamMarkFailed(j) ==
  /\ stream[j].pc = "markFailed"
  /\ state' = Transition(j, "failed")
  /\ stream' = [stream EXCEPT ![j] = NoStream]
  /\ UNCHANGED <<ckpt, cid, start, cancel, workerVars>>

\* The final Transition; its error is ignored.
StreamSettle(j) ==
  /\ stream[j].pc = "settle"
  /\ state' = Transition(j, IF stream[j].ok THEN "completed" ELSE "failed")
  /\ stream' = [stream EXCEPT ![j].pc = "remove"]
  /\ UNCHANGED <<ckpt, cid, start, cancel, workerVars>>

\* Slip: the tracker is never released.
StreamRemoveHolds(j) ==
  /\ stream[j].pc = "remove"
  /\ cont' = Removed(stream[j].c)
  /\ UNCHANGED <<rowVars, goVars, file, overlap>>

\* docker rm -f, then the tracker is forgotten.
StreamRemove(j) ==
  /\ stream[j].pc = "remove"
  /\ cont' = Removed(stream[j].c)
  /\ stream' = [stream EXCEPT ![j] = NoStream]
  /\ UNCHANGED <<rowVars, start, cancel, file, overlap>>

StreamStep(j) ==
  \/ StreamAttach(j)
  \/ StreamCheckpoint(j)
  \/ StreamCompleted(j)
  \/ StreamEOF(j)
  \/ StreamInspect(j)
  \/ StreamMarkFailed(j)
  \/ StreamSettle(j)
  \/ StreamRemove(j)

-----------------------------------------------------------------------------
(* Supervisor.Cancel, in the handler of POST /v1/jobs/{id}/cancel. *)

\* GetJob: a row without a container goes straight to the Transition.
CancelGet(j) ==
  /\ state[j] # "absent" /\ cancel[j].pc = "none"
  /\ cancel' = [cancel EXCEPT ![j] =
       [pc |-> IF cid[j] = None THEN "transition" ELSE "stop", c |-> cid[j]]]
  /\ UNCHANGED <<rowVars, start, stream, workerVars>>

\* docker stop; an error is logged and the handler goes on.
CancelStop(j) ==
  /\ cancel[j].pc = "stop"
  /\ \/ cont' = Killed(cancel[j].c)
     \/ "stop" \in Faults /\ UNCHANGED cont
  /\ cancel' = [cancel EXCEPT ![j].pc = "transition"]
  /\ UNCHANGED <<rowVars, start, stream, file, overlap>>

CancelTransition(j) ==
  /\ cancel[j].pc = "transition"
  /\ state' = Transition(j, "cancelled")
  /\ cancel' = [cancel EXCEPT ![j] = NoCancel]
  /\ UNCHANGED <<ckpt, cid, start, stream, workerVars>>

\* The client goes away: the request context ends every later call.
CancelAbort(j) ==
  /\ "abort" \in Faults
  /\ cancel[j].pc # "none"
  /\ cancel' = [cancel EXCEPT ![j] = NoCancel]
  /\ UNCHANGED <<rowVars, start, stream, workerVars>>

CancelStep(j) == CancelStop(j) \/ CancelTransition(j)
=============================================================================
