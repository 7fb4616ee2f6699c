------------------------------ MODULE MCWorktree ------------------------------
(* The instance of Worktree for TLC; every bound is in the constants. *)
EXTENDS Worktree, TLC

Interchangeable == Permutations(Procs) \union Permutations(Tasks)
=============================================================================
