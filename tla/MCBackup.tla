------------------------------ MODULE MCBackup ------------------------------
(* Instances of Backup for TLC. *)
EXTENDS Backup, TLC

CONSTANTS b1, f1

(* Bounds: one component of one backup is the interesting one, with every   *)
(* content of its source and every damage; the others hold an ordinary file *)
(* and stay as they were; what cannot be listed holds the ordinary file.    *)
(* One destination at a time has something of others at it, and what keeps  *)
(* a directory from its place is a directory.  At most one restore and one  *)
(* create run at a time.                                                    *)
Ordinary(b, c) ==
    /\ found[b][c] = stored[b][c] /\ overlooked[b][c] = {}
    /\ found[b][c] \in {{f1}} \union (IF b \in sealed THEN {} ELSE {{}})

OneInteresting ==
    /\ \A b \in BackupIds \ {b1}, c \in Components : Ordinary(b, c)
    /\ \A c, d \in Components : Ordinary(b1, c) \/ Ordinary(b1, d) \/ c = d
    /\ \A S \in {Creating, Restoring}, p, q \in Procs :
          command[p].step \in S /\ command[q].step \in S => p = q
    /\ \A c \in Components : overlooked[b1][c] \subseteq {f1}
    /\ Cardinality(Own) <= 1 /\ \A c \in Own : dest[c].kind = Kind(c)

Interchangeable == Permutations(Procs)
=============================================================================
