---------------------------- MODULE MCAssignments ----------------------------
(* Instances of Assignments for TLC: one agent owns every task. *)
EXTENDS Assignments, TLC

CONSTANTS o1, v1

OwnerOfEach == [t \in Tasks |-> o1]

(* Bounds of the run with two processes: no assignment is acknowledged or  *)
(* needs reconciliation, which is as unfinished as dispatched, or is       *)
(* cancelled, which is as superseded; nobody asks for work that the first  *)
(* check refuses for its agent;                                            *)
Wanted(c) ==
    /\ c.phase = "execution" => c.agent = Owner[c.task]
    /\ c.phase = "review" => c.agent \in Reviewers

FewSteps ==
    /\ \A i \in Existing :
          assignment[i].status \notin {"acknowledged", "cancelled", "needs_reconciliation"}
    /\ \A p \in Procs : command[p] # Idle => Wanted(command[p])

(* and while there is more than reviews of artifacts, only v1 is           *)
(* delivered, every copy is done and was not disturbed, and nothing is     *)
(* superseded beside a snapshot.                                           *)
Calm ==
    /\ spoilt = {} /\ \A t \in Tasks : deliverable[t] = v1
    /\ \A s \in published, i \in Existing :
          s[1] \notin CodeTasks => assignment[i].status # "superseded"
    /\ \A s \in published : s[2] = v1
    /\ \A i \in Existing : assignment[i].subject \in {v1, NoVersion}
    /\ \A p \in Procs :
          command[p] # Idle => command[p].step \notin Copying /\ command[p].subject \in {v1, NoVersion}

OnlyArtifacts ==
    /\ \A t \in CodeTasks : taskState[t] = "assigned" /\ deliverable[t] = v1
    /\ \A s \in published : s[1] \notin CodeTasks
    /\ \A i \in Existing :
          /\ assignment[i].task \notin CodeTasks /\ assignment[i].phase = "review"
          /\ assignment[i].status # "superseded"
    /\ \A p \in Procs : command[p] # Idle =>
          command[p].task \notin CodeTasks /\ command[p].phase = "review"

OneAtATime == Calm \/ OnlyArtifacts

(* Which process runs a command, and which ID an assignment draws, does    *)
(* not matter.                                                             *)
Interchangeable == Permutations(Procs) \union Permutations(Ids)
=============================================================================
