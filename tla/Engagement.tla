------------------------------ MODULE Engagement ------------------------------
(***************************************************************************)
(* What assignment-prepare and assignment-prune promise, as if each were   *)
(* one step: an order is given to an agent that has no open one, for a     *)
(* task that nobody works on, and a review only of a subject that is kept. *)
(* An order never changes and never opens again, and a subject is only     *)
(* discarded when every review of it is over.  The copy of an artifact may *)
(* be spoilt; then it may or may not be kept, until that is looked at.     *)
(*                                                                         *)
(* Assignments implements this; see Assignments!Promise for what stands    *)
(* for what.                                                               *)
(***************************************************************************)
CONSTANTS
    Ids, Tasks, Agents, Versions, NoVersion,
    Artifacts  \* the tasks that deliver an artifact, not a commit

VARIABLES
    orders,  \* every order that was ever given
    open,    \* the ones whose agent is not done with them
    over,    \* reviews that are recorded and whose task is closed
    kept,    \* the subjects that can be looked at: pairs of task and version
    spoilt   \* the ones of which nobody can say whether they are kept

(* The orders that can be given: with a new ID, to an agent that is free.  *)
NewIds == Ids \ {o.id : o \in orders}
FreeAgents == Agents \ {o.agent : o \in open}
NewOrders ==
    [id: NewIds, task: Tasks, phase: {"execution", "review"}, agent: FreeAgents,
     subject: Versions \union {NoVersion}]

Subject(o) == <<o.task, o.subject>>

Init == orders = {} /\ open = {} /\ over = {} /\ kept = {} /\ spoilt = {}

(* Only a review that is under way leaves room for an order in its task,   *)
(* and only for an execution.                                              *)
Give(o) ==
    /\ \A x \in open : x.task = o.task => x.phase = "review" /\ o.phase = "execution"
    /\ o.phase = "review" => Subject(o) \in kept \union spoilt
    /\ orders' = orders \union {o}
    /\ open' = open \union {o}
    /\ UNCHANGED <<over, kept, spoilt>>

Finish(o) ==
    /\ open' = open \ {o}
    /\ UNCHANGED <<orders, over, kept, spoilt>>

EndReview(o) ==
    /\ o.phase = "review"
    /\ over' = over \union {o}
    /\ UNCHANGED <<orders, open, kept, spoilt>>

Keep(s) ==
    /\ kept' = kept \union {s}
    /\ UNCHANGED <<orders, open, over, spoilt>>

Discard(s) ==
    /\ s \in spoilt \/ \A o \in orders : o.phase = "review" /\ Subject(o) = s => o \in over
    /\ kept' = kept \ {s}
    /\ UNCHANGED <<orders, open, over, spoilt>>

(* Its copying goes wrong: what was there may be lost.                     *)
Spoil(s) ==
    /\ spoilt' = spoilt \union {s}
    /\ kept' \in {kept, kept \ {s}}
    /\ UNCHANGED <<orders, open, over>>

(* It is looked at, and is what its name says.                             *)
Confirm(s) ==
    /\ s \in kept
    /\ spoilt' = spoilt \ {s}
    /\ UNCHANGED <<orders, open, over, kept>>

Next ==
    \/ \E o \in NewOrders : Give(o)
    \/ \E o \in open : Finish(o)
    \/ \E o \in orders : EndReview(o)
    \/ \E s \in Tasks \X Versions : Keep(s) \/ Discard(s) \/ Confirm(s)
    \/ \E s \in Artifacts \X Versions : Spoil(s)

Spec == Init /\ [][Next]_<<orders, open, over, kept, spoilt>>
=============================================================================
