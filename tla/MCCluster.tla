------------------------------ MODULE MCCluster -----------------------------
(* Small instances of Cluster for TLC. *)
EXTENDS Cluster, TLC

\* Containers are interchangeable in every definition.
CidSymmetry == Permutations(Cids)
=============================================================================
