----------------------------- MODULE MCTaskStore -----------------------------
(* Instances of TaskStore for TLC. *)
EXTENDS TaskStore, TLC

CONSTANTS t1, a1, v1

(* Bounds.  Either several tasks are admitted and moved about, which does  *)
(* not depend on a task's kind, notes or reviews; or one task goes through *)
(* its whole life, with the others never created.                          *)
AdmissionOnly ==
    \A t \in Tasks :
        /\ docs[t] \subseteq {"cancellation"}
        /\ deliverable[t] = v1 /\ asked[t] = NoVersion /\ reviews[t] = <<>>
        /\ t \in Recorded => task[t].kind = "research" /\ ~task[t].authorized

OneTaskOnly ==
    /\ \A t \in Tasks \ {t1} : t \notin taskDir /\ deliverable[t] = v1
    /\ \A w \in Writers : command[w] # Idle => command[w].task = t1
    /\ t1 \in Recorded => task[t1].agent = a1

AdmissionOrOneTask == AdmissionOnly \/ OneTaskOnly

(* The leader's processes are alike.                                       *)
Processes == Permutations(Writers)
=============================================================================
