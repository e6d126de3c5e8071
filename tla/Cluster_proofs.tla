--------------------------- MODULE Cluster_proofs ---------------------------
(* Proofs about Cluster, for any jobs, containers, number of checkpoints,  *)
(* failures and restarts of A.                                             *)
EXTENDS Cluster, TLAPS

\* Leaves that name no prover are for SMT or Zenon.
USE SMTT(15), Z3T(15), Zenon

-----------------------------------------------------------------------------
(* Leadership. *)

\* What keeps two launches of a job apart: only the holder of the key leads,
\* and who launches leads or has ceased to during this launch.
LockInv ==
  /\ leading \subseteq Controllers \cap {key}
  /\ \A j \in Jobs : LaunchingA(j) => "A" \in leading \/ <<"A", j>> \in lapsed
  /\ \A j \in Jobs : LaunchingB(j) => "B" \in leading \/ <<"B", j>> \in lapsed

StartsTyped ==
  startA \in [Jobs -> A!StartRec] /\ startB \in [Jobs -> B!StartRec]

\* The locks and the launches stay as they are, but for those that end.
Fewer ==
  /\ UNCHANGED lockVars
  /\ \A j \in Jobs : LaunchingA(j)' =>
       LaunchingA(j) /\ (<<"A", j>> \in lapsed => <<"A", j>> \in lapsed')
  /\ \A j \in Jobs : LaunchingB(j)' =>
       LaunchingB(j) /\ (<<"B", j>> \in lapsed => <<"B", j>> \in lapsed')

\* No launch begins.
LEMMA LockFewer ==
  ASSUME LockInv, Fewer PROVE LockInv'
BY DEF LockInv, Fewer, lockVars

\* A boots, scans, takes a request, or goes on with a Start or a stream: past
\* leaderCheck are only those that leaderCheck has let pass.
LEMMA LockA ==
  ASSUME StartsTyped, LockInv, MainA \/ \E j \in Jobs : GoA(j)
  PROVE  LockInv'
<1>1. startA \in [Jobs -> A!StartRec]
  BY DEF StartsTyped
<1>2. CASE MainA
  <2>1. /\ UNCHANGED <<lockVars, lapsed, passA, startB, passB>>
    BY <1>2 DEF MainA, processB
  <2>2. ASSUME NEW k \in Jobs, startA'[k].pc \in {"run", "transition"}
        PROVE  startA'[k] = startA[k]
    BY <1>1, <1>2, <2>2, Zenon DEF MainA, A!Boot, A!ScanStep, A!ReadJobs, A!ListLive,
       A!ScanAdopt, A!ScanResumable, A!ScanUnresumable, A!ScanInterrupted,
       A!ScanLeave, A!ScanDone, A!Resume, A!CreateJob, A!NoStart,
       A!supervisorVars, A!goVars
  <2>3. Fewer
    BY <2>1, <2>2 DEF Fewer, LaunchingA, LaunchingB
  <2> QED BY <2>3, LockFewer
<1>3. ASSUME NEW j \in Jobs, GoA(j) PROVE LockInv'
  <2>1. CASE A!StreamStep(j) /\ UNCHANGED <<passA, lapsed>>
    <3>1. startA' = startA
      BY <2>1 DEF A!StreamStep, A!StreamAttach, A!StreamCheckpoint,
         A!StreamCompleted, A!StreamEOF, A!StreamInspect, A!StreamMarkFailed,
         A!StreamSettle, A!StreamRemove
    <3>2. UNCHANGED <<lockVars, startB, passB>>
      BY <1>3 DEF GoA, processB
    <3>3. Fewer
      BY <2>1, <3>1, <3>2 DEF Fewer, LaunchingA, LaunchingB
    <3> QED BY <3>3, LockFewer
  <2>2. CASE /\ startA[j].pc = "get" => j \in passA
             /\ A!StartStep(j, pidA)
             /\ passA' = passA \ {j}
             /\ lapsed' = IF LaunchingA(j)' THEN lapsed ELSE lapsed \ {<<"A", j>>}
    <3>1. UNCHANGED <<lockVars, startB, passB>>
      BY <1>3 DEF GoA, processB
    <3>2. \A k \in Jobs \ {j} : startA'[k] = startA[k]
      BY <1>1, <2>2, Zenon DEF A!StartStep, A!StartGet, A!StartRun, A!StartTransition,
         A!StartUndo, A!StartTrack, A!StartFail, A!StartError
    <3>3. startA'[j].pc \in {"run", "transition"} => startA[j].pc \in {"get", "run"}
      <4>1. CASE A!StartGet(j) \/ A!StartRun(j, pidA)
        BY <4>1, Zenon DEF A!StartGet, A!StartRun
      <4>2. CASE A!StartTransition(j)
        BY <1>1, <4>2 DEF A!StartTransition, A!StartRec
      <4>3. CASE A!StartUndo(j)
        BY <1>1, <4>3 DEF A!StartUndo, A!StartError, A!NoStart, A!StartRec
      <4>4. CASE A!StartTrack(j) \/ A!StartFail(j)
        BY <1>1, <4>4 DEF A!StartTrack, A!StartFail, A!NoStart, A!StartRec
      <4> QED BY <2>2, <4>1, <4>2, <4>3, <4>4 DEF A!StartStep
    <3>4. LaunchingA(j)' => LaunchingA(j)
      BY <2>2, <3>3 DEF LaunchingA
    <3>5. ASSUME NEW k \in Jobs, LaunchingA(k)'
          PROVE  LaunchingA(k) /\ (<<"A", k>> \in lapsed => <<"A", k>> \in lapsed')
      BY <2>2, <3>2, <3>4, <3>5 DEF LaunchingA
    <3>6. ASSUME NEW k \in Jobs, LaunchingB(k)'
          PROVE  LaunchingB(k) /\ (<<"B", k>> \in lapsed => <<"B", k>> \in lapsed')
      BY <2>2, <3>1, <3>6 DEF LaunchingB
    <3>7. Fewer
      BY <3>1, <3>5, <3>6 DEF Fewer
    <3> QED BY <3>7, LockFewer
  <2> QED BY <1>3, <2>1, <2>2 DEF GoA
<1> QED BY <1>2, <1>3

\* leaderCheck of A: a launch begins only under leadership.
LEMMA LockCheckA ==
  ASSUME StartsTyped, LockInv, NEW j \in Jobs, CheckA(j)
  PROVE  LockInv'
<1>1. startA \in [Jobs -> A!StartRec]
  BY DEF StartsTyped
<1>2. UNCHANGED <<lockVars, lapsed, startB, passB>>
  BY DEF CheckA, processB
<1>3. CASE "A" \in leading
  <2>1. \A k \in Jobs : LaunchingA(k)' => "A" \in leading
    BY <1>3
  <2>2. \A k \in Jobs : LaunchingB(k)' => LaunchingB(k)
    BY <1>2 DEF LaunchingB
  <2> QED BY <1>2, <2>1, <2>2 DEF LockInv, lockVars
<1>4. CASE "A" \notin leading
  <2>1. \A k \in Jobs : LaunchingA(k)' => LaunchingA(k)
    BY <1>1, <1>4 DEF CheckA, LaunchingA, A!NoStart
  <2>2. \A k \in Jobs : LaunchingB(k)' => LaunchingB(k)
    BY <1>2 DEF LaunchingB
  <2> QED BY <1>2, <2>1, <2>2 DEF LockInv, lockVars
<1> QED BY <1>3, <1>4

\* B boots, scans, takes a request, or goes on with a Start or a stream: past
\* leaderCheck are only those that leaderCheck has let pass.
LEMMA LockB ==
  ASSUME StartsTyped, LockInv, MainB \/ \E j \in Jobs : GoB(j)
  PROVE  LockInv'
<1>1. startB \in [Jobs -> B!StartRec]
  BY DEF StartsTyped
<1>2. CASE MainB
  <2>1. /\ UNCHANGED <<lockVars, lapsed, passB, startA, passA>>
    BY <1>2 DEF MainB, processA
  <2>2. ASSUME NEW k \in Jobs, startB'[k].pc \in {"run", "transition"}
        PROVE  startB'[k] = startB[k]
    BY <1>1, <1>2, <2>2, ZenonT(30) DEF MainB, B!Boot, B!ScanStep, B!ReadJobs, B!ListLive,
       B!ScanAdopt, B!ScanResumable, B!ScanUnresumable, B!ScanInterrupted,
       B!ScanLeave, B!ScanDone, B!Resume, B!CreateJob, B!NoStart,
       B!supervisorVars, B!goVars
  <2>3. Fewer
    BY <2>1, <2>2 DEF Fewer, LaunchingA, LaunchingB
  <2> QED BY <2>3, LockFewer
<1>3. ASSUME NEW j \in Jobs, GoB(j) PROVE LockInv'
  <2>1. CASE B!StreamStep(j) /\ UNCHANGED <<passB, lapsed>>
    <3>1. startB' = startB
      BY <2>1 DEF B!StreamStep, B!StreamAttach, B!StreamCheckpoint,
         B!StreamCompleted, B!StreamEOF, B!StreamInspect, B!StreamMarkFailed,
         B!StreamSettle, B!StreamRemove
    <3>2. UNCHANGED <<lockVars, startA, passA>>
      BY <1>3 DEF GoB, processA
    <3>3. Fewer
      BY <2>1, <3>1, <3>2 DEF Fewer, LaunchingA, LaunchingB
    <3> QED BY <3>3, LockFewer
  <2>2. CASE /\ startB[j].pc = "get" => j \in passB
             /\ B!StartStep(j, pidB)
             /\ passB' = passB \ {j}
             /\ lapsed' = IF LaunchingB(j)' THEN lapsed ELSE lapsed \ {<<"B", j>>}
    <3>1. UNCHANGED <<lockVars, startA, passA>>
      BY <1>3 DEF GoB, processA
    <3>2. \A k \in Jobs \ {j} : startB'[k] = startB[k]
      BY <1>1, <2>2, Zenon DEF B!StartStep, B!StartGet, B!StartRun, B!StartTransition,
         B!StartUndo, B!StartTrack, B!StartFail, B!StartError
    <3>3. startB'[j].pc \in {"run", "transition"} => startB[j].pc \in {"get", "run"}
      <4>1. CASE B!StartGet(j) \/ B!StartRun(j, pidB)
        BY <4>1, Zenon DEF B!StartGet, B!StartRun
      <4>2. CASE B!StartTransition(j)
        BY <1>1, <4>2 DEF B!StartTransition, B!StartRec
      <4>3. CASE B!StartUndo(j)
        BY <1>1, <4>3 DEF B!StartUndo, B!StartError, B!NoStart, B!StartRec
      <4>4. CASE B!StartTrack(j) \/ B!StartFail(j)
        BY <1>1, <4>4 DEF B!StartTrack, B!StartFail, B!NoStart, B!StartRec
      <4> QED BY <2>2, <4>1, <4>2, <4>3, <4>4 DEF B!StartStep
    <3>4. LaunchingB(j)' => LaunchingB(j)
      BY <2>2, <3>3 DEF LaunchingB
    <3>5. ASSUME NEW k \in Jobs, LaunchingB(k)'
          PROVE  LaunchingB(k) /\ (<<"B", k>> \in lapsed => <<"B", k>> \in lapsed')
      BY <2>2, <3>2, <3>4, <3>5 DEF LaunchingB
    <3>6. ASSUME NEW k \in Jobs, LaunchingA(k)'
          PROVE  LaunchingA(k) /\ (<<"A", k>> \in lapsed => <<"A", k>> \in lapsed')
      BY <2>2, <3>1, <3>6 DEF LaunchingA
    <3>7. Fewer
      BY <3>1, <3>5, <3>6 DEF Fewer
    <3> QED BY <3>7, LockFewer
  <2> QED BY <1>3, <2>1, <2>2 DEF GoB
<1> QED BY <1>2, <1>3

\* leaderCheck of B: a launch begins only under leadership.
LEMMA LockCheckB ==
  ASSUME StartsTyped, LockInv, NEW j \in Jobs, CheckB(j)
  PROVE  LockInv'
<1>1. startB \in [Jobs -> B!StartRec]
  BY DEF StartsTyped
<1>2. UNCHANGED <<lockVars, lapsed, startA, passA>>
  BY DEF CheckB, processA
<1>3. CASE "B" \in leading
  <2>1. \A k \in Jobs : LaunchingB(k)' => "B" \in leading
    BY <1>3
  <2>2. \A k \in Jobs : LaunchingA(k)' => LaunchingA(k)
    BY <1>2 DEF LaunchingA
  <2> QED BY <1>2, <2>1, <2>2 DEF LockInv, lockVars
<1>4. CASE "B" \notin leading
  <2>1. \A k \in Jobs : LaunchingB(k)' => LaunchingB(k)
    BY <1>1, <1>4 DEF CheckB, LaunchingB, B!NoStart
  <2>2. \A k \in Jobs : LaunchingA(k)' => LaunchingA(k)
    BY <1>2 DEF LaunchingA
  <2> QED BY <1>2, <2>1, <2>2 DEF LockInv, lockVars
<1> QED BY <1>3, <1>4

\* Whoever stops leading leaves its launches marked as lapsed.
LEMMA LockElect ==
  ASSUME LockInv, NEW i \in Controllers, Elect(i)
  PROVE  LockInv'
<1>1. None \notin Controllers
  BY ClusterAssumption
<1>2. \A j \in Jobs : (LaunchingA(j)' <=> LaunchingA(j)) /\ (LaunchingB(j)' <=> LaunchingB(j))
  BY DEF Elect, processA, processB, LaunchingA, LaunchingB
<1>3. CASE Take(i) \/ Lead(i)
  BY <1>1, <1>2, <1>3 DEF Elect, Take, Lead, LockInv, Yield
<1>4. CASE Yield(i) /\ lapsed' = lapsed \cup Launches(i)
  <2>1. leading' \subseteq Controllers \cap {key'}
    BY <1>4 DEF Yield, LockInv
  <2>2. ASSUME NEW j \in Jobs, LaunchingA(j)'
        PROVE  "A" \in leading' \/ <<"A", j>> \in lapsed'
    BY <1>2, <1>4, <2>2 DEF Yield, LockInv, Launches
  <2>3. ASSUME NEW j \in Jobs, LaunchingB(j)'
        PROVE  "B" \in leading' \/ <<"B", j>> \in lapsed'
    BY <1>2, <1>4, <2>3 DEF Yield, LockInv, Launches
  <2> QED BY <2>1, <2>2, <2>3 DEF LockInv
<1> QED BY <1>3, <1>4 DEF Elect

\* A is killed: its launches end with it.
LEMMA LockCrash ==
  ASSUME LockInv, CrashA
  PROVE  LockInv'
<1>1. \A j \in Jobs : ~LaunchingA(j)'
  BY DEF CrashA, A!Crash, A!Die, A!NoStarts, A!NoStart, LaunchingA
<1>2. /\ leading' = leading \ {"A"} /\ key' = key
      /\ lapsed' = lapsed \ ({"A"} \X Jobs)
      /\ \A j \in Jobs : LaunchingB(j)' => LaunchingB(j)
  BY DEF CrashA, Yield, processB, LaunchingB
<1> QED BY <1>1, <1>2 DEF LockInv

\* Every step.
LEMMA LockNextStep ==
  ASSUME StartsTyped, LockInv, [Next]_vars
  PROVE  LockInv'
<1>1. CASE MainA \/ \E j \in Jobs : GoA(j)
  BY <1>1, LockA
<1>2. CASE MainB \/ \E j \in Jobs : GoB(j)
  BY <1>2, LockB
<1>3. CASE \E j \in Jobs : CheckA(j) \/ CheckB(j)
  BY <1>3, LockCheckA, LockCheckB
<1>4. CASE CrashA
  BY <1>4, LockCrash
<1>5. CASE \E i \in Controllers : Elect(i)
  BY <1>5, LockElect
<1>6. CASE KeyExpires
  BY <1>6 DEF KeyExpires, Lapse, LockInv, LaunchingA, LaunchingB, processA, processB
<1>7. CASE UNCHANGED vars \/ \E c \in Cids : ContainerStep(c) \/ ContainerCrash(c)
  BY <1>7 DEF vars, ContainerStep, ContainerCrash, lockVars, LockInv, LaunchingA,
     LaunchingB, processA, processB
<1> QED BY <1>1, <1>2, <1>3, <1>4, <1>5, <1>6, <1>7 DEF Next

-----------------------------------------------------------------------------
(* One controller beside the other. *)

PA == INSTANCE Controller_proofs
       WITH start <- startA, stream <- streamA, cancel <- cancelA,
            phase <- phaseA, pid <- pidA, boots <- bootsA, todo <- todoA,
            snap <- snapA, live <- liveA, liveUp <- liveUpA, drain <- drainA,
            MaxBoots <- BootsA, Cancels <- {}, PidReuse <- FALSE

PB == INSTANCE Controller_proofs
       WITH start <- startB, stream <- streamB, cancel <- cancelB,
            phase <- phaseB, pid <- pidB, boots <- bootsB, todo <- todoB,
            snap <- snapB, live <- liveB, liveUp <- liveUpB, drain <- drainB,
            MaxBoots <- BootsA + 1, Cancels <- {}, PidReuse <- FALSE

-----------------------------------------------------------------------------
(* The actions of Cluster, in the terms of the lemmas about one controller *)
(* beside another (Controller_proofs).                                    *)

\* runStream of A.
LEMMA StreamA ==
  ASSUME NEW j \in Jobs, A!StreamStep(j)
  PROVE  PA!StreamStep(j)
BY Zenon DEF
   A!StreamStep, A!StreamAttach, A!StreamCheckpoint, A!StreamCompleted,
   A!StreamEOF, A!StreamInspect, A!StreamMarkFailed, A!StreamSettle,
   A!StreamRemove, A!Lines, A!LogsEnded, A!RecordCheckpoint, A!Removed,
   A!NoStream, A!Transition, A!IsValidTransition, A!validTransitions,
   A!Endings, A!rowVars, A!workerVars, PA!StreamStep, PA!StreamAttach,
   PA!StreamCheckpoint, PA!StreamCompleted, PA!StreamEOF,
   PA!StreamInspect, PA!StreamMarkFailed, PA!StreamSettle,
   PA!StreamRemove, PA!Lines, PA!LogsEnded, PA!RecordCheckpoint,
   PA!Removed, PA!NoStream, PA!Transition, PA!IsValidTransition,
   PA!validTransitions, PA!Endings, PA!rowVars, PA!workerVars

\* Supervisor.Start of A.
LEMMA StartA ==
  ASSUME NEW j \in Jobs, A!StartStep(j, pidA)
  PROVE  PA!StartStep(j, pidA)
BY Zenon DEF
   A!StartStep, A!StartGet, A!StartRun, A!StartTransition, A!StartUndo,
   A!StartTrack, A!StartFail, A!StartError, A!DockerRun, A!NoContainer,
   A!RunningFor, A!Running, A!Removed, A!Tracker, A!NoStream, A!NoStart,
   A!Transition, A!IsValidTransition, A!validTransitions, A!Endings,
   A!rowVars, A!workerVars, PA!StartStep, PA!StartGet, PA!StartRun,
   PA!StartTransition, PA!StartUndo, PA!StartTrack, PA!StartFail,
   PA!StartError, PA!DockerRun, PA!NoContainer, PA!RunningFor, PA!Running,
   PA!Removed, PA!Tracker, PA!NoStream, PA!NoStart, PA!Transition,
   PA!IsValidTransition, PA!validTransitions, PA!Endings, PA!rowVars,
   PA!workerVars

\* The recovery scan of A.
LEMMA ScanA ==
  ASSUME A!ScanStep
  PROVE  PA!ScanStep
BY Zenon DEF
   A!ScanStep, A!ReadJobs, A!ListLive, A!Listed, A!RunningFor, A!Running,
   A!NoLive, A!NoSnap, A!ScanAdopt, A!ScanResumable, A!ScanUnresumable,
   A!ScanInterrupted, A!ScanLeave, A!ScanDone, A!Scanning, A!WasRunning,
   A!Resume, A!NoStart, A!Tracker, A!NoStream, A!Transition,
   A!IsValidTransition, A!validTransitions, A!Endings, A!rowVars,
   A!workerVars, A!goVars, A!supervisorVars, A!scanVars, PA!ScanStep,
   PA!ReadJobs, PA!ListLive, PA!Listed, PA!RunningFor, PA!Running,
   PA!NoLive, PA!NoSnap, PA!ScanAdopt, PA!ScanResumable,
   PA!ScanUnresumable, PA!ScanInterrupted, PA!ScanLeave, PA!ScanDone,
   PA!Scanning, PA!WasRunning, PA!Resume, PA!NoStart, PA!Tracker,
   PA!NoStream, PA!Transition, PA!IsValidTransition, PA!validTransitions,
   PA!Endings, PA!rowVars, PA!workerVars, PA!goVars, PA!supervisorVars,
   PA!scanVars

\* main() of A, and createJob.
LEMMA ProcessA ==
  /\ A!Boot => PA!Boot
  /\ A!Die => PA!Die
  /\ \A j \in Jobs : A!CreateJob(j) => PA!CreateJob(j)
BY ZenonT(30) DEF
   A!Boot, A!Die, A!CreateJob, A!NoStarts, A!NoStreams, A!NoCancels,
   A!NoStart, A!NoStream, A!NoCancel, A!NoSnap, A!NoLive, A!NoDrain,
   A!rowVars, A!workerVars, A!goVars, A!supervisorVars, A!scanVars,
   PA!Boot, PA!Die, PA!CreateJob, PA!NoStarts, PA!NoStreams, PA!NoCancels,
   PA!NoStart, PA!NoStream, PA!NoCancel, PA!NoSnap, PA!NoLive, PA!NoDrain,
   PA!rowVars, PA!workerVars, PA!goVars, PA!supervisorVars, PA!scanVars

\* runStream of B.
LEMMA StreamB ==
  ASSUME NEW j \in Jobs, B!StreamStep(j)
  PROVE  PB!StreamStep(j)
BY Zenon DEF
   B!StreamStep, B!StreamAttach, B!StreamCheckpoint, B!StreamCompleted,
   B!StreamEOF, B!StreamInspect, B!StreamMarkFailed, B!StreamSettle,
   B!StreamRemove, B!Lines, B!LogsEnded, B!RecordCheckpoint, B!Removed,
   B!NoStream, B!Transition, B!IsValidTransition, B!validTransitions,
   B!Endings, B!rowVars, B!workerVars, PB!StreamStep, PB!StreamAttach,
   PB!StreamCheckpoint, PB!StreamCompleted, PB!StreamEOF,
   PB!StreamInspect, PB!StreamMarkFailed, PB!StreamSettle,
   PB!StreamRemove, PB!Lines, PB!LogsEnded, PB!RecordCheckpoint,
   PB!Removed, PB!NoStream, PB!Transition, PB!IsValidTransition,
   PB!validTransitions, PB!Endings, PB!rowVars, PB!workerVars

\* Supervisor.Start of B.
LEMMA StartB ==
  ASSUME NEW j \in Jobs, B!StartStep(j, pidB)
  PROVE  PB!StartStep(j, pidB)
BY Zenon DEF
   B!StartStep, B!StartGet, B!StartRun, B!StartTransition, B!StartUndo,
   B!StartTrack, B!StartFail, B!StartError, B!DockerRun, B!NoContainer,
   B!RunningFor, B!Running, B!Removed, B!Tracker, B!NoStream, B!NoStart,
   B!Transition, B!IsValidTransition, B!validTransitions, B!Endings,
   B!rowVars, B!workerVars, PB!StartStep, PB!StartGet, PB!StartRun,
   PB!StartTransition, PB!StartUndo, PB!StartTrack, PB!StartFail,
   PB!StartError, PB!DockerRun, PB!NoContainer, PB!RunningFor, PB!Running,
   PB!Removed, PB!Tracker, PB!NoStream, PB!NoStart, PB!Transition,
   PB!IsValidTransition, PB!validTransitions, PB!Endings, PB!rowVars,
   PB!workerVars

\* The recovery scan of B.
LEMMA ScanB ==
  ASSUME B!ScanStep
  PROVE  PB!ScanStep
BY Zenon DEF
   B!ScanStep, B!ReadJobs, B!ListLive, B!Listed, B!RunningFor, B!Running,
   B!NoLive, B!NoSnap, B!ScanAdopt, B!ScanResumable, B!ScanUnresumable,
   B!ScanInterrupted, B!ScanLeave, B!ScanDone, B!Scanning, B!WasRunning,
   B!Resume, B!NoStart, B!Tracker, B!NoStream, B!Transition,
   B!IsValidTransition, B!validTransitions, B!Endings, B!rowVars,
   B!workerVars, B!goVars, B!supervisorVars, B!scanVars, PB!ScanStep,
   PB!ReadJobs, PB!ListLive, PB!Listed, PB!RunningFor, PB!Running,
   PB!NoLive, PB!NoSnap, PB!ScanAdopt, PB!ScanResumable,
   PB!ScanUnresumable, PB!ScanInterrupted, PB!ScanLeave, PB!ScanDone,
   PB!Scanning, PB!WasRunning, PB!Resume, PB!NoStart, PB!Tracker,
   PB!NoStream, PB!Transition, PB!IsValidTransition, PB!validTransitions,
   PB!Endings, PB!rowVars, PB!workerVars, PB!goVars, PB!supervisorVars,
   PB!scanVars

\* main() of B, and createJob.
LEMMA ProcessB ==
  /\ B!Boot => PB!Boot
  /\ B!Die => PB!Die
  /\ \A j \in Jobs : B!CreateJob(j) => PB!CreateJob(j)
BY Zenon DEF
   B!Boot, B!Die, B!CreateJob, B!NoStarts, B!NoStreams, B!NoCancels,
   B!NoStart, B!NoStream, B!NoCancel, B!NoSnap, B!NoLive, B!NoDrain,
   B!rowVars, B!workerVars, B!goVars, B!supervisorVars, B!scanVars,
   PB!Boot, PB!Die, PB!CreateJob, PB!NoStarts, PB!NoStreams, PB!NoCancels,
   PB!NoStart, PB!NoStream, PB!NoCancel, PB!NoSnap, PB!NoLive, PB!NoDrain,
   PB!rowVars, PB!workerVars, PB!goVars, PB!supervisorVars, PB!scanVars

\* The workers.
LEMMA Workers ==
  ASSUME NEW c \in Cids, A!WorkerStep(c) \/ A!WorkerCrash(c)
  PROVE  PA!WorkerStep(c) \/ PA!WorkerCrash(c)
BY Zenon DEF
   A!WorkerStep, A!WorkerCrash, A!WorkerBoot, A!WriteState,
   A!EmitCheckpoint, A!EmitCompleted, A!WorkerExit, A!Killed, A!Running,
   PA!WorkerStep, PA!WorkerCrash, PA!WorkerBoot, PA!WriteState,
   PA!EmitCheckpoint, PA!EmitCompleted, PA!WorkerExit, PA!Killed,
   PA!Running

-----------------------------------------------------------------------------
(* Two controllers. *)

\* Each controller knows what it relies on, and a new job belongs to one
\* request of one of them.
PeersInv ==
  /\ PA!Peer /\ PB!Peer
  /\ \A j \in Jobs : ~(PA!Api(j) /\ PB!Api(j))

ClusterInv == PeersInv /\ LockInv

\* The assumptions of the lemmas about one controller.
LEMMA Constants ==
  /\ None \notin Jobs \cup Cids /\ LastCkpt \in Nat \ {0}
  /\ BootsA \in Nat /\ BootsA + 1 \in Nat /\ FALSE \in BOOLEAN
  /\ Faults \subseteq PA!FaultKinds /\ Faults \subseteq PB!FaultKinds
BY ClusterAssumption DEF A!FaultKinds, PA!FaultKinds, PB!FaultKinds

\* The rows, files and containers are the same for both.
LEMMA SameRows ==
  /\ PA!Shared <=> PB!Shared
  /\ PA!Evolves <=> PB!Evolves
  /\ \A j \in Jobs : PA!Spared(j) <=> PB!Spared(j)
BY Zenon DEF PA!Shared, PA!ContainerInv, PA!FileInv, PA!SoleWorker, PA!RowOK,
   PA!Unlaunched, PA!Running, PA!Evolves, PA!Begun, PA!Spared, PA!IsTerminal,
   PA!Terminal,
   PB!Shared, PB!ContainerInv, PB!FileInv, PB!SoleWorker, PB!RowOK,
   PB!Unlaunched, PB!Running, PB!Evolves, PB!Begun, PB!Spared, PB!IsTerminal,
   PB!Terminal

\* A step of A, or of a worker, leaves B with what it relies on.
LEMMA BesideB ==
  ASSUME PB!Peer, PA!Peer, PA!TypeOK', PB!TypeOK', PA!Shared', PA!Evolves,
         \A j \in Jobs : PB!Api(j) => PA!Spared(j), UNCHANGED processB
  PROVE  PB!Peer'
<1>1. PB!Evolves /\ \A j \in Jobs : PB!Api(j) => PB!Spared(j)
  BY SameRows
<1>2. PB!Shared'
  BY SameRows, PTL
<1>3. ASSUME NEW j \in Jobs PROVE PB!PeerJob(j)'
  <2>1. /\ startB'[j] = startB[j] /\ streamB'[j] = streamB[j]
        /\ snapB'[j] = snapB[j] /\ liveB'[j] = liveB[j]
        /\ todoB' = todoB /\ liveUpB' = liveUpB
    BY DEF processB, mainB
  <2>2. PB!TypeOK /\ PB!PeerJob(j)
    BY DEF PB!Peer
  <2> QED BY <1>1, <2>1, <2>2, PB!PeerBeside, Constants, Zenon
<1> QED BY <1>2, <1>3 DEF PB!Peer

\* What A writes has the types that B expects.
LEMMA TypedB ==
  ASSUME PA!TypeOK', PB!TypeOK, UNCHANGED processB
  PROVE  PB!TypeOK'
BY Zenon DEF PA!TypeOK, PA!WorkerTypeOK, PA!SupervisorTypeOK, PA!Progress, PA!Container,
   PA!RowState, PA!JobState, PA!Terminal,
   PB!TypeOK, PB!WorkerTypeOK, PB!SupervisorTypeOK, PB!Progress, PB!Container,
   PB!RowState, PB!JobState, PB!Terminal, processB, mainB

\* A considerate step of A keeps the invariant of the two.
LEMMA StepOfA ==
  ASSUME PeersInv, PA!Peer', PA!Considerate, UNCHANGED processB
  PROVE  PeersInv' /\ PA!Evolves
<1>1. PA!TypeOK' /\ PA!Shared' /\ PA!Evolves
  BY DEF PA!Peer, PA!Considerate
<1>2. PB!TypeOK'
  BY <1>1, TypedB DEF PeersInv, PB!Peer
<1>3. PB!Peer'
  BY <1>1, <1>2, BesideB DEF PeersInv, PA!Considerate
<1>4. ASSUME NEW j \in Jobs PROVE ~(PA!Api(j)' /\ PB!Api(j)')
  <2>1. PB!Api(j)' <=> PB!Api(j)
    BY DEF PB!Api, processB
  <2>2. PA!Api(j)' => PA!Api(j) \/ state[j] = "absent"
    BY DEF PA!Considerate
  <2>3. PB!Api(j) => state[j] # "absent"
    BY Zenon DEF PeersInv, PB!Peer, PB!PeerJob, PB!PeerStart, PB!Api
  <2> QED BY <2>1, <2>2, <2>3 DEF PeersInv
<1> QED BY <1>1, <1>3, <1>4 DEF PeersInv

\* A step of B, or of a worker, leaves A with what it relies on.
LEMMA BesideA ==
  ASSUME PB!Peer, PA!Peer, PA!TypeOK', PB!TypeOK', PB!Shared', PB!Evolves,
         \A j \in Jobs : PA!Api(j) => PB!Spared(j), UNCHANGED processA
  PROVE  PA!Peer'
<1>1. PA!Evolves /\ \A j \in Jobs : PA!Api(j) => PA!Spared(j)
  BY SameRows
<1>2. PA!Shared'
  BY SameRows, PTL
<1>3. ASSUME NEW j \in Jobs PROVE PA!PeerJob(j)'
  <2>1. /\ startA'[j] = startA[j] /\ streamA'[j] = streamA[j]
        /\ snapA'[j] = snapA[j] /\ liveA'[j] = liveA[j]
        /\ todoA' = todoA /\ liveUpA' = liveUpA
    BY DEF processA, mainA
  <2>2. PA!TypeOK /\ PA!PeerJob(j)
    BY DEF PA!Peer
  <2> QED BY <1>1, <2>1, <2>2, PA!PeerBeside, Constants, Zenon
<1> QED BY <1>2, <1>3 DEF PA!Peer

\* What B writes has the types that A expects.
LEMMA TypedA ==
  ASSUME PB!TypeOK', PA!TypeOK, UNCHANGED processA
  PROVE  PA!TypeOK'
BY DEF PB!TypeOK, PB!WorkerTypeOK, PB!SupervisorTypeOK, PB!Progress, PB!Container,
   PB!RowState, PB!JobState, PB!Terminal,
   PA!TypeOK, PA!WorkerTypeOK, PA!SupervisorTypeOK, PA!Progress, PA!Container,
   PA!RowState, PA!JobState, PA!Terminal, processA, mainA

\* A considerate step of B keeps the invariant of the two.
LEMMA StepOfB ==
  ASSUME PeersInv, PB!Peer', PB!Considerate, UNCHANGED processA
  PROVE  PeersInv' /\ PB!Evolves
<1>1. PB!TypeOK' /\ PB!Shared' /\ PB!Evolves
  BY DEF PB!Peer, PB!Considerate
<1>2. PA!TypeOK'
  BY <1>1, TypedA DEF PeersInv, PA!Peer
<1>3. PA!Peer'
  BY <1>1, <1>2, BesideA DEF PeersInv, PB!Considerate
<1>4. ASSUME NEW j \in Jobs PROVE ~(PB!Api(j)' /\ PA!Api(j)')
  <2>1. PA!Api(j)' <=> PA!Api(j)
    BY DEF PA!Api, processA
  <2>2. PB!Api(j)' => PB!Api(j) \/ state[j] = "absent"
    BY DEF PB!Considerate
  <2>3. PA!Api(j) => state[j] # "absent"
    BY DEF PeersInv, PA!Peer, PA!PeerJob, PA!PeerStart, PA!Api
  <2> QED BY <2>1, <2>2, <2>3 DEF PeersInv
<1> QED BY <1>1, <1>3, <1>4 DEF PeersInv

-----------------------------------------------------------------------------
(* The steps. *)

\* A keeps what it relies on while nothing that it sees changes.
LEMMA StillA ==
  ASSUME PA!Peer, UNCHANGED <<rows, mainA, startA, streamA, cancelA>>
  PROVE  PA!Peer'
<1> USE DEF rows, mainA
<1>1. PA!TypeOK'
  BY DEF PA!Peer, PA!TypeOK, PA!WorkerTypeOK, PA!SupervisorTypeOK
<1>2. PA!Shared'
  BY Zenon DEF PA!Peer, PA!Shared, PA!ContainerInv, PA!FileInv, PA!SoleWorker,
     PA!Running, PA!RowOK, PA!Unlaunched
<1>3. ASSUME NEW j \in Jobs PROVE PA!PeerJob(j)'
  BY Zenon DEF PA!Peer, PA!PeerJob, PA!PeerStream, PA!PeerStart, PA!PeerScan,
     PA!PeerFresh, PA!Reading, PA!Lines, PA!Begun, PA!Unlaunched
<1> QED BY <1>1, <1>2, <1>3 DEF PA!Peer

\* B keeps what it relies on while nothing that it sees changes.
LEMMA StillB ==
  ASSUME PB!Peer, UNCHANGED <<rows, mainB, startB, streamB, cancelB>>
  PROVE  PB!Peer'
<1> USE DEF rows, mainB
<1>1. PB!TypeOK'
  BY DEF PB!Peer, PB!TypeOK, PB!WorkerTypeOK, PB!SupervisorTypeOK
<1>2. PB!Shared'
  BY Zenon DEF PB!Peer, PB!Shared, PB!ContainerInv, PB!FileInv, PB!SoleWorker,
     PB!Running, PB!RowOK, PB!Unlaunched
<1>3. ASSUME NEW j \in Jobs PROVE PB!PeerJob(j)'
  BY Zenon DEF PB!Peer, PB!PeerJob, PB!PeerStream, PB!PeerStart, PB!PeerScan,
     PB!PeerFresh, PB!Reading, PB!Lines, PB!Begun, PB!Unlaunched
<1> QED BY <1>1, <1>2, <1>3 DEF PB!Peer

\* Rows, containers and files stay as they are.
LEMMA StillEvolves ==
  ASSUME PA!Peer, UNCHANGED rows PROVE PA!Evolves
<1>1. ASSUME NEW c \in Cids
      PROVE  cont[c].hi - cont[c].lo + 1 <= cont[c].hi - cont[c].lo + 1
  <2>1. cont[c].lo \in 1 .. LastCkpt /\ cont[c].hi \in 0 .. LastCkpt
    BY DEF PA!Peer, PA!TypeOK, PA!WorkerTypeOK, PA!Container, PA!Progress
  <2> QED BY <2>1, ClusterAssumption
<1> QED BY <1>1 DEF rows, PA!Evolves, PA!Begun

\* The electors, and whatever else leaves both controllers as they are.
LEMMA PeersStill ==
  ASSUME PeersInv, UNCHANGED <<rows, mainA, startA, streamA, cancelA,
                               mainB, startB, streamB, cancelB>>
  PROVE  PeersInv' /\ PA!Evolves
<1>1. PA!Peer' /\ PB!Peer' /\ PA!Evolves
  BY StillA, StillB, StillEvolves DEF PeersInv
<1>2. \A j \in Jobs : ~(PA!Api(j)' /\ PB!Api(j)')
  BY DEF PeersInv, PA!Api, PB!Api
<1> QED BY <1>1, <1>2 DEF PeersInv

\* A step of controller A.
LEMMA PeersA ==
  ASSUME PeersInv, MainA \/ \E j \in Jobs : CheckA(j) \/ GoA(j)
  PROVE  PeersInv' /\ PA!Evolves
<1> USE Constants
<1>0. PA!Peer
  BY DEF PeersInv
<1>1. UNCHANGED processB
  BY DEF MainA, CheckA, GoA
<1>2. CASE MainA
  <2>1. ASSUME NEW j \in Jobs, A!CreateJob(j), UNCHANGED mainA
        PROVE  PA!Peer' /\ PA!Considerate
    <3>1. PA!CreateJob(j) /\ UNCHANGED PA!mainVars
      BY <2>1, ProcessA DEF mainA, PA!mainVars, PA!scanVars
    <3> QED BY <1>0, <3>1, PA!PeerCreate, Zenon
  <2>2. ASSUME A!Boot PROVE PA!Peer' /\ PA!Considerate
    <3>1. PA!Boot
      BY <2>2, ProcessA
    <3> QED BY <1>0, <3>1, PA!PeerBoot, Zenon
  <2>3. ASSUME A!ScanStep PROVE PA!Peer' /\ PA!Considerate
    <3>1. PA!ScanStep
      BY <2>3, ScanA
    <3> QED BY <1>0, <3>1, PA!PeerScanStep, Zenon
  <2>4. PA!Peer' /\ PA!Considerate
    BY <1>2, <2>1, <2>2, <2>3 DEF MainA
  <2> QED BY <1>1, <2>4, StepOfA, SameRows
<1>3. ASSUME NEW j \in Jobs, GoA(j) PROVE PA!Peer' /\ PA!Considerate
  <2>1. UNCHANGED PA!mainVars
    BY <1>3 DEF GoA, mainA, PA!mainVars, PA!scanVars
  <2>2. PA!StartStep(j, pidA) \/ PA!StreamStep(j)
    BY <1>3, StartA, StreamA, Zenon DEF GoA
  <2> QED BY <1>0, <2>1, <2>2, PA!PeerGo, Zenon
<1>4. ASSUME NEW j \in Jobs, CheckA(j) PROVE PeersInv' /\ PA!Evolves
  <2>1. CASE UNCHANGED startA
    BY <1>4, <2>1, PeersStill DEF CheckA, processB
  <2>2. CASE startA' = [startA EXCEPT ![j] = A!NoStart]
    <3>1. /\ startA' = [startA EXCEPT ![j] = PA!NoStart]
          /\ UNCHANGED <<PA!rowVars, PA!workerVars, PA!mainVars, streamA, cancelA>>
      BY <1>4, <2>2 DEF CheckA, rows, mainA, A!NoStart, PA!NoStart, PA!rowVars,
         PA!workerVars, PA!mainVars, PA!scanVars
    <3>2. PA!Peer' /\ PA!Considerate
      BY <1>0, <3>1, PA!PeerRefused, Zenon
    <3> QED BY <1>1, <3>2, StepOfA, SameRows
  <2> QED BY <1>4, <2>1, <2>2 DEF CheckA
<1> QED BY <1>1, <1>2, <1>3, <1>4, StepOfA, SameRows

\* A step of controller B.
LEMMA PeersB ==
  ASSUME PeersInv, MainB \/ \E j \in Jobs : CheckB(j) \/ GoB(j)
  PROVE  PeersInv' /\ PA!Evolves
<1> USE Constants
<1>0. PB!Peer
  BY DEF PeersInv
<1>1. UNCHANGED processA
  BY DEF MainB, CheckB, GoB
<1>2. CASE MainB
  <2>1. ASSUME NEW j \in Jobs, B!CreateJob(j), UNCHANGED mainB
        PROVE  PB!Peer' /\ PB!Considerate
    <3>1. PB!CreateJob(j) /\ UNCHANGED PB!mainVars
      BY <2>1, ProcessB DEF mainB, PB!mainVars, PB!scanVars
    <3> QED BY <1>0, <3>1, PB!PeerCreate, Zenon
  <2>2. ASSUME B!Boot PROVE PB!Peer' /\ PB!Considerate
    <3>1. PB!Boot
      BY <2>2, ProcessB
    <3> QED BY <1>0, <3>1, PB!PeerBoot, Zenon
  <2>3. ASSUME B!ScanStep PROVE PB!Peer' /\ PB!Considerate
    <3>1. PB!ScanStep
      BY <2>3, ScanB
    <3> QED BY <1>0, <3>1, PB!PeerScanStep, Zenon
  <2>4. PB!Peer' /\ PB!Considerate
    BY <1>2, <2>1, <2>2, <2>3 DEF MainB
  <2> QED BY <1>1, <2>4, StepOfB, SameRows
<1>3. ASSUME NEW j \in Jobs, GoB(j) PROVE PB!Peer' /\ PB!Considerate
  <2>1. UNCHANGED PB!mainVars
    BY <1>3 DEF GoB, mainB, PB!mainVars, PB!scanVars
  <2>2. PB!StartStep(j, pidB) \/ PB!StreamStep(j)
    BY <1>3, StartB, StreamB, Zenon DEF GoB
  <2> QED BY <1>0, <2>1, <2>2, PB!PeerGo, Zenon
<1>4. ASSUME NEW j \in Jobs, CheckB(j) PROVE PeersInv' /\ PA!Evolves
  <2>1. CASE UNCHANGED startB
    BY <1>4, <2>1, PeersStill DEF CheckB, processA
  <2>2. CASE startB' = [startB EXCEPT ![j] = B!NoStart]
    <3>1. /\ startB' = [startB EXCEPT ![j] = PB!NoStart]
          /\ UNCHANGED <<PB!rowVars, PB!workerVars, PB!mainVars, streamB, cancelB>>
      BY <1>4, <2>2 DEF CheckB, rows, mainB, B!NoStart, PB!NoStart, PB!rowVars,
         PB!workerVars, PB!mainVars, PB!scanVars
    <3>2. PB!Peer' /\ PB!Considerate
      BY <1>0, <3>1, PB!PeerRefused, Zenon
    <3> QED BY <1>1, <3>2, StepOfB, SameRows
  <2> QED BY <1>4, <2>1, <2>2 DEF CheckB
<1> QED BY <1>1, <1>2, <1>3, <1>4, StepOfB, SameRows

\* A is killed.
LEMMA PeersCrash ==
  ASSUME PeersInv, CrashA
  PROVE  PeersInv' /\ PA!Evolves
<1>1. PA!Die /\ UNCHANGED processB
  BY ProcessA DEF CrashA, A!Crash
<1>2. PA!Peer' /\ PA!Considerate
  BY <1>1, PA!PeerBoot, Constants, Zenon DEF PeersInv
<1> QED BY <1>1, <1>2, StepOfA

\* A worker takes a step or dies.
LEMMA PeersWorker ==
  ASSUME PeersInv, NEW c \in Cids, ContainerStep(c) \/ ContainerCrash(c)
  PROVE  PeersInv' /\ PA!Evolves
<1> USE Constants
<1>0. PA!Peer /\ PB!Peer /\ PA!TypeOK /\ PB!TypeOK /\ PA!ContainerInv
  BY DEF PeersInv, PA!Peer, PB!Peer, PA!Shared
<1>1. /\ PA!WorkerStep(c) \/ PA!WorkerCrash(c)
      /\ UNCHANGED <<PA!rowVars, processA, processB>>
  BY Workers DEF ContainerStep, ContainerCrash, PA!rowVars
<1>2. PA!WorkerTypeOK'
  <2>1. CASE PA!WorkerStep(c)
    BY <1>0, <2>1, PA!TypeWorker, Zenon
  <2>2. CASE PA!WorkerCrash(c)
    BY <1>0, <2>2, PA!DockerType DEF PA!WorkerCrash, PA!TypeOK, PA!WorkerTypeOK
  <2> QED BY <1>1, <2>1, <2>2
<1>3. PA!TypeOK'
  BY <1>0, <1>1, <1>2 DEF PA!TypeOK, PA!SupervisorTypeOK, PA!rowVars, processA, mainA
<1>4. PB!TypeOK'
  BY <1>0, <1>1, <1>3, TypedB
<1>5. PA!Shared' /\ PA!Evolves /\ \A j \in Jobs : PA!Spared(j)
  BY <1>0, <1>1, <1>3, PA!PeerWorker, Zenon
<1>6. PB!Peer'
  BY <1>0, <1>1, <1>3, <1>4, <1>5, BesideB
<1>7. PB!Shared' /\ PB!Evolves /\ \A j \in Jobs : PB!Spared(j)
  BY <1>5, <1>6, SameRows DEF PB!Peer
<1>8. PA!Peer'
  BY <1>0, <1>1, <1>3, <1>4, <1>7, BesideA
<1>9. \A j \in Jobs : ~(PA!Api(j)' /\ PB!Api(j)')
  BY <1>1 DEF PeersInv, PA!Api, PB!Api, processA, processB
<1> QED BY <1>5, <1>6, <1>8, <1>9 DEF PeersInv

\* Every step.
LEMMA PeersNext ==
  ASSUME PeersInv, [Next]_vars
  PROVE  PeersInv' /\ PA!Evolves
<1>1. CASE MainA \/ \E j \in Jobs : CheckA(j) \/ GoA(j)
  BY <1>1, PeersA
<1>2. CASE MainB \/ \E j \in Jobs : CheckB(j) \/ GoB(j)
  BY <1>2, PeersB
<1>3. CASE CrashA
  BY <1>3, PeersCrash
<1>4. CASE (\E i \in Controllers : Elect(i)) \/ KeyExpires \/ UNCHANGED vars
  BY <1>4, PeersStill DEF Elect, KeyExpires, vars, processA, processB
<1>5. CASE \E c \in Cids : ContainerStep(c) \/ ContainerCrash(c)
  BY <1>5, PeersWorker
<1> QED BY <1>1, <1>2, <1>3, <1>4, <1>5 DEF Next

-----------------------------------------------------------------------------
(* The invariant, and what follows from it. *)

\* Before the first boot there is no row, no container and no leader.
LEMMA ClusterInit == Init => ClusterInv
<1> SUFFICES ASSUME Init PROVE ClusterInv
  OBVIOUS
<1>1. PA!Init
  BY Zenon DEF Init, A!Init, A!WorkerInit, A!SupervisorInit, A!NoStarts, A!NoStreams,
     A!NoCancels, A!NoStart, A!NoStream, A!NoCancel, A!NoSnap, A!NoLive, A!NoDrain,
     A!NoContainer, PA!Init, PA!WorkerInit, PA!SupervisorInit, PA!NoStarts,
     PA!NoStreams, PA!NoCancels, PA!NoStart, PA!NoStream, PA!NoCancel, PA!NoSnap,
     PA!NoLive, PA!NoDrain, PA!NoContainer
<1>2. PA!TypeOK
  BY <1>1, Constants, PA!TypeInit, Zenon
<1>3. PB!TypeOK
  <2>1. PB!WorkerTypeOK /\ PB!SupervisorTypeOK
    BY <1>2 DEF Init, PA!TypeOK, PA!WorkerTypeOK, PA!SupervisorTypeOK, PA!Progress,
       PA!Container, PA!RowState, PA!JobState, PA!Terminal, PA!StartRec,
       PA!StreamRec, PA!CancelRec,
       PB!WorkerTypeOK, PB!SupervisorTypeOK, PB!Progress, PB!Container,
       PB!RowState, PB!JobState, PB!Terminal, PB!StartRec, PB!StreamRec,
       PB!CancelRec
  <2>2. BootsA \in 0 .. BootsA + 1
    BY ClusterAssumption
  <2> QED BY <1>2, <2>1, <2>2 DEF Init, PA!TypeOK, PA!RowState, PA!JobState,
     PA!Terminal, PA!Progress, PB!TypeOK, PB!RowState, PB!JobState, PB!Terminal,
     PB!Progress, PB!Phase
<1>4. PA!Peer /\ \A j \in Jobs : ~PA!Api(j)
  <2>1. /\ PA!WorkerInit /\ startA = PA!NoStarts /\ streamA = PA!NoStreams
        /\ todoA = {} /\ liveUpA = {}
        /\ state = [j \in Jobs |-> "absent"] /\ ckpt = [j \in Jobs |-> 0]
    BY <1>1 DEF PA!Init, PA!SupervisorInit
  <2> QED BY <1>2, <2>1, Constants, PA!PeerInit, Zenon
<1>5. PB!Peer /\ \A j \in Jobs : ~PB!Api(j)
  <2>1. /\ PB!WorkerInit /\ startB = PB!NoStarts /\ streamB = PB!NoStreams
        /\ todoB = {} /\ liveUpB = {}
        /\ state = [j \in Jobs |-> "absent"] /\ ckpt = [j \in Jobs |-> 0]
    BY <1>1 DEF Init, PA!Init, PA!SupervisorInit, PA!WorkerInit, PA!NoStarts,
       PA!NoStreams, PA!NoStart, PA!NoStream, PA!NoContainer, PB!WorkerInit,
       PB!NoStarts, PB!NoStreams, PB!NoStart, PB!NoStream, PB!NoContainer
  <2> QED BY <1>3, <2>1, Constants, PB!PeerInit, Zenon
<1>6. LockInv
  <2>1. \A j \in Jobs : startA[j].pc = "none" /\ startB[j].pc = "none"
    BY DEF Init, A!Init, A!SupervisorInit, A!NoStarts, A!NoStart
  <2> QED BY <2>1 DEF Init, LockInit, LockInv, LaunchingA, LaunchingB
<1> QED BY <1>4, <1>5, <1>6 DEF ClusterInv, PeersInv

\* Every step of the two controllers, of their electors and of the workers
\* keeps the invariant, and only moves rows, files and containers on.
LEMMA ClusterNext ==
  ASSUME ClusterInv, [Next]_vars
  PROVE  ClusterInv' /\ PA!Evolves
<1>1. PeersInv' /\ PA!Evolves
  BY PeersNext DEF ClusterInv
<1>2. StartsTyped
  BY DEF ClusterInv, PeersInv, PA!Peer, PB!Peer, PA!TypeOK, PA!SupervisorTypeOK,
     PB!TypeOK, PB!SupervisorTypeOK, StartsTyped, A!StartRec, B!StartRec,
     PA!StartRec, PB!StartRec
<1>3. LockInv'
  BY <1>2, LockNextStep DEF ClusterInv
<1> QED BY <1>1, <1>3 DEF ClusterInv

\* Two controllers over one database, one state directory and one Docker daemon
\* keep the invariant that each relies on (main.go with JOBCTL_REDIS_ADDR).
THEOREM ClusterInvariant == Spec => []ClusterInv
<1>1. ClusterInv /\ [Next]_vars => ClusterInv'
  BY ClusterNext
<1> QED BY <1>1, ClusterInit, PTL DEF Spec

\* Whichever controllers read the log of a job, replay it or scan its row, a
\* recorded checkpoint is in the state file (RecordCheckpoint, supervisor.go).
THEOREM SharedBacked == Spec => []SharedRecordsBacked
<1>1. ClusterInv => SharedRecordsBacked
  BY DEF ClusterInv, PeersInv, PA!Peer, PA!Shared, PA!RowOK, SharedRecordsBacked
<1> QED BY <1>1, ClusterInvariant, PTL

\* Whichever controller records the completion, the final state is on disk.
THEOREM SharedCompleted == Spec => []SharedCompletedIsFinal
<1>1. ClusterInv => SharedCompletedIsFinal
  BY DEF ClusterInv, PeersInv, PA!Peer, PA!Shared, PA!RowOK, SharedCompletedIsFinal
<1> QED BY <1>1, ClusterInvariant, PTL

\* Whichever controller starts a worker with --resume, there is a state file.
THEOREM SharedResume == Spec => []SharedResumeFindsState
<1>1. ClusterInv => SharedResumeFindsState
  BY Zenon
  DEF ClusterInv, PeersInv, PA!Peer, PA!Shared, PA!FileInv, SharedResumeFindsState
<1> QED BY <1>1, ClusterInvariant, PTL

\* leaderCheck keeps the launches of two controllers apart, except those that
\* outlive the leadership under which they began (Supervisor.Start).
THEOREM ExclusiveLaunches == Spec => []LaunchesAreExclusive
<1>1. ClusterInv => LaunchesAreExclusive
  <2> SUFFICES ASSUME LockInv, NEW j \in Jobs, LaunchingA(j), LaunchingB(j),
                      <<"A", j>> \notin lapsed, <<"B", j>> \notin lapsed
               PROVE  FALSE
    BY DEF ClusterInv, LaunchesAreExclusive
  <2>1. "A" = key /\ "B" = key
    BY DEF LockInv
  <2> QED BY <2>1
<1> QED BY <1>1, ClusterInvariant, PTL

\* Neither controller revives a job that has ended (Store.Transition).
THEOREM SharedTerminalStays == Spec => SharedTerminalIsFinal
<1>1. ClusterInv /\ [Next]_vars =>
        [\A j \in Jobs : IsTerminal(state[j]) => state'[j] = state[j]]_vars
  BY ClusterNext DEF PA!Evolves, PA!IsTerminal, PA!Terminal, IsTerminal, Terminal
<1> QED BY <1>1, ClusterInvariant, PTL DEF Spec, SharedTerminalIsFinal

=============================================================================
