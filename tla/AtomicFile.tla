----------------------------- MODULE AtomicFile -----------------------------
(* What write_state promises of a state file: readers see one whole value  *)
(* after another and never a mixture, and a power loss brings back a value *)
(* that was there before.  It promises nothing once two writers have been  *)
(* at the file together.                                                   *)
CONSTANTS
  Bufs,     \* the values that are written
  None      \* no file

VARIABLES
  shown,    \* what a reader of the path sees
  kept,     \* what a reader would see after a power loss
  mixed     \* two writers were at the file together

Init == shown = None /\ kept = None /\ mixed = FALSE

Put == shown' # shown /\ shown' \in Bufs /\ UNCHANGED <<kept, mixed>>

Flush == kept' = shown /\ UNCHANGED <<shown, mixed>>

Revert == shown' = kept /\ UNCHANGED <<kept, mixed>>

Mixed == mixed' = TRUE

Spec == Init /\ [][Put \/ Flush \/ Revert \/ Mixed]_<<shown, kept, mixed>>
=============================================================================
