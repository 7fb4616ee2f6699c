------------------------------ MODULE MCDispatch ------------------------------
(* Instances of Dispatch for TLC. *)
EXTENDS Dispatch, TLC

(* Bounds of the run with two processes, which checks safety.  A task that *)
(* does not fit only disables commands, so nothing is reachable with it    *)
(* that is not reachable without; and two answers are written, in one      *)
(* thread or in two.                                                       *)
TwoAnswers ==
    /\ taskFits
    /\ \A a, b \in Attempts : a # b => Len(replies[a]) + Len(replies[b]) <= 2

(* Which process runs a command, and which ID an attempt draws, does not   *)
(* matter.                                                                 *)
Interchangeable == Permutations(Procs) \union Permutations(Attempts)
=============================================================================
