---------------------------- MODULE JobContract ----------------------------
(* What the controller promises about a job, whatever crashes: the crash   *)
(* modes of README.md as an abstract specification.  A job is a row with   *)
(* a recorded checkpoint and a state file.  The row follows the            *)
(* documented state machine; progress on disk only grows; what is recorded *)
(* is on disk; a job is completed only when its final state is on disk; it *)
(* is given up as unresumable only when no checkpoint is recorded, and     *)
(* called resumable only when one is.  The promises about the file lapse   *)
(* once two workers have shared it.                                        *)
EXTENDS Integers, JobStates

CONSTANTS Jobs, LastCkpt

VARIABLES state, ckpt, file, overlap

contractVars == <<state, ckpt, file, overlap>>

Init ==
  /\ state = [j \in Jobs |-> "absent"]
  /\ ckpt = [j \in Jobs |-> 0]
  /\ file = [j \in Jobs |-> 0]
  /\ overlap = [j \in Jobs |-> FALSE]

Submit(j) ==
  /\ state[j] = "absent"
  /\ state' = [state EXCEPT ![j] = "pending"]
  /\ UNCHANGED <<ckpt, file, overlap>>

Move(j, next) ==
  /\ next # state[j] /\ IsValidTransition(state[j], next)
  /\ next = "completed" => file[j] = LastCkpt \/ overlap[j]
  /\ next = "interrupted_unresumable" => ckpt[j] = 0
  /\ next = "interrupted_resumable" => ckpt[j] # 0
  /\ state' = [state EXCEPT ![j] = next]
  /\ UNCHANGED <<ckpt, file, overlap>>

Persist(j, p) ==
  /\ p = file[j] + 1 \/ overlap[j]
  /\ file' = [file EXCEPT ![j] = p]
  /\ UNCHANGED <<state, ckpt, overlap>>

Record(j, p) ==
  /\ p <= file[j] \/ overlap[j]
  /\ ckpt' = [ckpt EXCEPT ![j] = p]
  /\ UNCHANGED <<state, file, overlap>>

Share(j) ==
  /\ overlap' = [overlap EXCEPT ![j] = TRUE]
  /\ UNCHANGED <<state, ckpt, file>>

Next ==
  \E j \in Jobs : \/ Submit(j)
                  \/ Share(j)
                  \/ \E s \in JobState : Move(j, s)
                  \/ \E p \in 1 .. LastCkpt : Persist(j, p) \/ Record(j, p)

Spec == Init /\ [][Next]_contractVars
=============================================================================
