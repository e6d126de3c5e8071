------------------------------- MODULE Cluster ------------------------------
(* HA mode (JOBCTL_REDIS_ADDR): two controllers, A and B, over one         *)
(* database, one state directory and one Docker daemon.  Each is a         *)
(* Controller; the electors between them are the lock that LeaderElection  *)
(* implements.  Leadership gates Supervisor.Start and nothing else: the    *)
(* scan of a follower writes rows and adopts workers, and no scan runs     *)
(* when a controller becomes leader.  A is the one that dies, by SIGKILL,  *)
(* and is started again; B boots once, at any time, and stays.             *)
EXTENDS Integers, JobStates, LeaderLock

CONSTANTS
  Jobs, Cids, LastCkpt, Faults,   \* as in Controller
  BootsA                          \* bound: processes of controller A

VARIABLES
  state, ckpt, cid,               \* the rows
  file, cont, overlap,            \* state files and containers
  startA, streamA, cancelA, phaseA, pidA, bootsA,
  todoA, snapA, liveA, liveUpA, drainA,
  startB, streamB, cancelB, phaseB, pidB, bootsB,
  todoB, snapB, liveB, liveUpB, drainB,
  passA, passB,                   \* jobs whose Start is past leaderCheck
  lapsed                          \* launches whose controller has ceased to lead

rows == <<state, ckpt, cid, file, cont, overlap>>
mainA == <<phaseA, pidA, bootsA, todoA, snapA, liveA, liveUpA, drainA>>
mainB == <<phaseB, pidB, bootsB, todoB, snapB, liveB, liveUpB, drainB>>
processA == <<mainA, startA, streamA, cancelA, passA>>
processB == <<mainB, startB, streamB, cancelB, passB>>
vars == <<rows, processA, processB, lockVars, lapsed>>

A == INSTANCE Controller
       WITH start <- startA, stream <- streamA, cancel <- cancelA,
            phase <- phaseA, pid <- pidA, boots <- bootsA, todo <- todoA,
            snap <- snapA, live <- liveA, liveUp <- liveUpA, drain <- drainA,
            MaxBoots <- BootsA, Cancels <- {}, PidReuse <- FALSE

\* The pids of B follow those of A, so that they differ.
B == INSTANCE Controller
       WITH start <- startB, stream <- streamB, cancel <- cancelB,
            phase <- phaseB, pid <- pidB, boots <- bootsB, todo <- todoB,
            snap <- snapB, live <- liveB, liveUp <- liveUpB, drain <- drainB,
            MaxBoots <- BootsA + 1, Cancels <- {}, PidReuse <- FALSE

ASSUME ClusterAssumption ==
  /\ None \notin Jobs \cup Cids \cup Controllers
  /\ LastCkpt \in Nat \ {0} /\ BootsA \in Nat
  /\ Faults \subseteq A!FaultKinds

Init ==
  /\ A!Init /\ passA = {}
  /\ startB = startA /\ streamB = streamA /\ cancelB = cancelA
  /\ phaseB = "down" /\ pidB = 0 /\ bootsB = BootsA
  /\ todoB = {} /\ snapB = snapA /\ liveB = liveA /\ liveUpB = {}
  /\ drainB = drainA /\ passB = {}
  /\ LockInit /\ lapsed = {}

\* A Start of j is between leaderCheck and the transition to running.
LaunchingA(j) == j \in passA \/ startA[j].pc \in {"run", "transition"}
LaunchingB(j) == j \in passB \/ startB[j].pc \in {"run", "transition"}

Launches(i) ==
  {i} \X {j \in Jobs : IF i = "A" THEN LaunchingA(j) ELSE LaunchingB(j)}

-----------------------------------------------------------------------------
(* Controller A. *)

\* Slip: the leader check is left out.
CheckSkippedA(j) ==
  /\ startA[j].pc = "get" /\ j \notin passA
  /\ passA' = passA \cup {j}
  /\ UNCHANGED <<mainA, startA, streamA, cancelA, processB, rows, lockVars, lapsed>>

\* Start asks leaderCheck.  ErrNotLeader leaves the job as it is, whether
\* createJob or the scan has called.
CheckA(j) ==
  /\ startA[j].pc = "get" /\ j \notin passA
  /\ IF "A" \in leading
     THEN passA' = passA \cup {j} /\ UNCHANGED startA
     ELSE startA' = [startA EXCEPT ![j] = A!NoStart] /\ UNCHANGED passA
  /\ UNCHANGED <<mainA, streamA, cancelA, processB, rows, lockVars, lapsed>>

GoA(j) ==
  /\ \/ /\ startA[j].pc = "get" => j \in passA
        /\ A!StartStep(j, pidA)
        /\ passA' = passA \ {j}
        /\ lapsed' = IF LaunchingA(j)' THEN lapsed ELSE lapsed \ {<<"A", j>>}
     \/ A!StreamStep(j) /\ UNCHANGED <<passA, lapsed>>
  /\ UNCHANGED <<mainA, processB, lockVars>>

\* Boot, the scan of this process, and a request.
MainA ==
  /\ \/ A!Boot \/ A!ScanStep
     \/ A!Serving /\ (\E j \in Jobs : A!CreateJob(j)) /\ UNCHANGED mainA
  /\ UNCHANGED <<passA, processB, lockVars, lapsed>>

CrashA ==
  /\ A!Crash /\ Yield("A")
  /\ passA' = {} /\ lapsed' = lapsed \ ({"A"} \X Jobs)
  /\ UNCHANGED processB

-----------------------------------------------------------------------------
(* Controller B. *)

CheckB(j) ==
  /\ startB[j].pc = "get" /\ j \notin passB
  /\ IF "B" \in leading
     THEN passB' = passB \cup {j} /\ UNCHANGED startB
     ELSE startB' = [startB EXCEPT ![j] = B!NoStart] /\ UNCHANGED passB
  /\ UNCHANGED <<mainB, streamB, cancelB, processA, rows, lockVars, lapsed>>

GoB(j) ==
  /\ \/ /\ startB[j].pc = "get" => j \in passB
        /\ B!StartStep(j, pidB)
        /\ passB' = passB \ {j}
        /\ lapsed' = IF LaunchingB(j)' THEN lapsed ELSE lapsed \ {<<"B", j>>}
     \/ B!StreamStep(j) /\ UNCHANGED <<passB, lapsed>>
  /\ UNCHANGED <<mainB, processA, lockVars>>

MainB ==
  /\ \/ B!Boot \/ B!ScanStep
     \/ B!Serving /\ (\E j \in Jobs : B!CreateJob(j)) /\ UNCHANGED mainB
  /\ UNCHANGED <<passB, processA, lockVars, lapsed>>

-----------------------------------------------------------------------------
(* The electors and the workers. *)

Up(i) == IF i = "A" THEN phaseA # "down" ELSE phaseB # "down"

\* The elector of a running controller gets the key, learns of it, or gives
\* up leading: a lost connection or a failed refresh.
Elect(i) ==
  /\ Up(i)
  /\ \/ (Take(i) \/ Lead(i)) /\ UNCHANGED lapsed
     \/ Yield(i) /\ lapsed' = lapsed \cup Launches(i)
  /\ UNCHANGED <<rows, processA, processB>>

KeyExpires == Lapse /\ UNCHANGED <<rows, processA, processB, lapsed>>

ContainerStep(c) ==
  /\ A!WorkerStep(c)
  /\ UNCHANGED <<state, ckpt, cid, processA, processB, lockVars, lapsed>>

ContainerCrash(c) ==
  /\ A!WorkerCrash(c)
  /\ UNCHANGED <<state, ckpt, cid, processA, processB, lockVars, lapsed>>

Next ==
  \/ MainA \/ CrashA \/ MainB
  \/ \E j \in Jobs : CheckA(j) \/ GoA(j) \/ CheckB(j) \/ GoB(j)
  \/ \E i \in Controllers : Elect(i)
  \/ KeyExpires
  \/ \E c \in Cids : ContainerStep(c) \/ ContainerCrash(c)

Spec == Init /\ [][Next]_vars

\* Controllers that are up run, the key of a dead leader expires, and with
\* the key free or its own a running elector becomes leader.
FairSpec ==
  /\ Spec
  /\ WF_vars(A!ScanStep /\ MainA) /\ WF_vars(B!ScanStep /\ MainB)
  /\ \A j \in Jobs : /\ WF_vars(CheckA(j)) /\ WF_vars(GoA(j))
                     /\ WF_vars(CheckB(j)) /\ WF_vars(GoB(j))
  /\ \A c \in Cids : WF_vars(ContainerStep(c))
  /\ WF_vars(KeyExpires)
  /\ \A i \in Controllers : WF_vars(Elect(i) /\ ~Yield(i))

-----------------------------------------------------------------------------
(* Properties. *)

\* With two controllers streaming, replaying and scanning the same rows, a
\* recorded checkpoint is still backed by the state file (runStream of both,
\* main.cpp:136).
SharedRecordsBacked == \A j \in Jobs : overlap[j] \/ ckpt[j] <= file[j]

\* Whichever controller records the end of a job, a completed one has its
\* final state on disk (supervisor.go:267).
SharedCompletedIsFinal ==
  \A j \in Jobs : state[j] = "completed" /\ ~overlap[j] => file[j] = LastCkpt

\* Whichever controller resumes a job, its worker finds a state file, although
\* the row may have been judged by the stale scan of the other one.
SharedResumeFindsState ==
  \A c \in Cids : cont[c].st # "none" /\ cont[c].resume => file[cont[c].job] > 0

\* No controller revives a job that the other one has seen end: the stale
\* snapshot of a scan, or a late verdict of a stream, is refused by the
\* transition table in the same transaction (store.Transition).
SharedTerminalIsFinal ==
  [][\A j \in Jobs : IsTerminal(state[j]) => state'[j] = state[j]]_vars

\* Two controllers never launch a worker for a job at the same time, unless
\* one of them has lost the lease during this launch: leaderCheck is all that
\* keeps their scans and requests apart (supervisor.go:93).
LaunchesAreExclusive ==
  \A j \in Jobs : LaunchingA(j) /\ LaunchingB(j) =>
                    <<"A", j>> \in lapsed \/ <<"B", j>> \in lapsed

-----------------------------------------------------------------------------
(* What comments and documents say and the code does not keep. *)

\* After a failover the new leader takes over the jobs of a dead controller
\* ("After a failover the new leader's recovery scan picks up any orphaned
\* `running` rows", ARCHITECTURE.md:196-198), without waiting for a restart.
FailoverPicksUp ==
  \A j \in Jobs :
    state[j] = "running" /\ phaseA = "down" /\ "B" \in leading
      ~> state[j] # "running" \/ streamB[j].pc # "none"
=============================================================================
