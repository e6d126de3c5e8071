----------------------------- MODULE MCJobStore -----------------------------
(* JobStore for TLC: jobs and goroutines are interchangeable.              *)
EXTENDS JobStore, TLC

StoreSymmetry == Permutations(Jobs) \cup Permutations(Callers)
=============================================================================
