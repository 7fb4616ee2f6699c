------------------------------- MODULE MCDeploy -------------------------------
(* The instance of Deploy for TLC; every bound is in the constants. *)
EXTENDS Deploy, TLC

Interchangeable == Permutations(Procs) \union Permutations(Revisions) \union Permutations(Snapshots)
=============================================================================
