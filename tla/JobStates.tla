----------------------------- MODULE JobStates -----------------------------
(* The job-row state machine of internal/store/store.go.  A row that has   *)
(* not been inserted yet is "absent"; every other state is the value of    *)
(* the column jobs.state.                                                  *)

Terminal == {"completed", "failed", "cancelled", "interrupted_unresumable"}

JobState == Terminal \cup
            {"pending", "running", "checkpointing", "interrupted_resumable"}

RowState == JobState \cup {"absent"}

IsTerminal(s) == s \in Terminal

\* The successors a live row has besides "running" and itself.
Endings == {"completed", "failed", "cancelled",
            "interrupted_resumable", "interrupted_unresumable"}

\* Slip: a failed job can still be cancelled.
validTransitionsLax(from) ==
  IF from = "failed" THEN {"cancelled"} ELSE {"running"} \cup Endings

validTransitions(from) ==
  CASE from = "pending" ->
         {"running", "cancelled", "failed", "interrupted_unresumable"}
    [] from \in {"running", "checkpointing"} ->
         {"running", "checkpointing"} \cup Endings
    [] from = "interrupted_resumable" ->
         {"running", "interrupted_unresumable", "cancelled"}
    [] OTHER -> {}

\* A self-transition is always accepted; a missing row is not.
IsValidTransition(from, to) ==
  from # "absent" /\ (from = to \/ to \in validTransitions(from))
=============================================================================
