---------------------------- MODULE MCController ----------------------------
(* Small instances of Controller for TLC. *)
EXTENDS ControllerProperties, TLC

\* Jobs and containers are interchangeable in every definition.
Symmetry == Permutations(Jobs) \cup Permutations(Cids)
CidSymmetry == Permutations(Cids)
=============================================================================
