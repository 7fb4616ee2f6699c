------------------------------- MODULE Delivery -------------------------------
(***************************************************************************)
(* What the task store promises, as if every command were one step: a task *)
(* is admitted while there is room for it and its agent is free, a version *)
(* of its deliverable is approved by a review, the task is accepted as a   *)
(* version that is approved at that moment, and what is accepted is        *)
(* delivered or cancelled.  A task never comes back, and an approval is    *)
(* only withdrawn while nothing rests on it.                               *)
(*                                                                         *)
(* TaskStore implements this; see TaskStore!Promise for what stands for    *)
(* what, and OneCommandPerTask for the condition.                          *)
(***************************************************************************)
EXTENDS Integers, FiniteSets

CONSTANTS Tasks, Agents, Versions, MaxActive, NoVersion, Nobody

VARIABLES
    stage,     \* "absent", "open", "accepted", "delivered" or "cancelled"
    owner,     \* the agent that a task was admitted for
    approved,  \* the versions of each task that a review approves of
    chosen     \* the version that a task was accepted as

Unfinished == {t \in Tasks : stage[t] \in {"open", "accepted"}}

Init ==
    /\ stage = [t \in Tasks |-> "absent"]
    /\ owner = [t \in Tasks |-> Nobody]
    /\ approved = [t \in Tasks |-> {}]
    /\ chosen = [t \in Tasks |-> NoVersion]

Admit(t, a) ==
    /\ stage[t] = "absent"
    /\ Cardinality(Unfinished) < MaxActive
    /\ \A u \in Unfinished : owner[u] # a
    /\ stage' = [stage EXCEPT ![t] = "open"]
    /\ owner' = [owner EXCEPT ![t] = a]
    /\ UNCHANGED <<approved, chosen>>

Approve(t, v) ==
    /\ stage[t] # "absent"
    /\ approved' = [approved EXCEPT ![t] = @ \union {v}]
    /\ UNCHANGED <<stage, owner, chosen>>

Withdraw(t, v) ==
    /\ stage[t] = "open"
    /\ approved' = [approved EXCEPT ![t] = @ \ {v}]
    /\ UNCHANGED <<stage, owner, chosen>>

Accept(t, v) ==
    /\ stage[t] = "open"
    /\ v \in approved[t]
    /\ stage' = [stage EXCEPT ![t] = "accepted"]
    /\ chosen' = [chosen EXCEPT ![t] = v]
    /\ UNCHANGED <<owner, approved>>

Finish(t, from, to) ==
    /\ stage[t] \in from
    /\ stage' = [stage EXCEPT ![t] = to]
    /\ UNCHANGED <<owner, approved, chosen>>

Deliver(t) == Finish(t, {"accepted"}, "delivered")
Cancel(t) == Finish(t, {"open", "accepted"}, "cancelled")

Next ==
    \E t \in Tasks :
        \/ \E a \in Agents : Admit(t, a)
        \/ \E v \in Versions : Approve(t, v) \/ Withdraw(t, v) \/ Accept(t, v)
        \/ Deliver(t) \/ Cancel(t)

Spec == Init /\ [][Next]_<<stage, owner, approved, chosen>>
=============================================================================
