------------------------------- MODULE Postbox -------------------------------
(***************************************************************************)
(* What the dispatch of an assignment promises, whatever processes run it  *)
(* and wherever they die: a message is announced before it is posted, it   *)
(* is posted at most once, and delivery is only confirmed of a message     *)
(* that arrived.  What is confirmed stays confirmed.                       *)
(*                                                                         *)
(* Dispatch implements this; see Dispatch!Box for what stands for what.    *)
(***************************************************************************)
CONSTANT Messages

VARIABLES
    fate,       \* how far each message has come
    confirmed   \* the messages that the sender knows to have arrived

Fates == {"unused", "announced", "posted", "arrived", "gone"}

TypeOK ==
    /\ fate \in [Messages -> Fates]
    /\ confirmed \subseteq Messages

Init ==
    /\ fate = [m \in Messages |-> "unused"]
    /\ confirmed = {}

Move(m, from, to) ==
    /\ fate[m] \in from
    /\ fate' = [fate EXCEPT ![m] = to]
    /\ UNCHANGED confirmed

Announce(m) == Move(m, {"unused"}, "announced")
Post(m) == Move(m, {"announced"}, "posted")
Arrive(m) == Move(m, {"posted"}, "arrived")
Vanish(m) == Move(m, {"announced", "posted"}, "gone")

Confirm(m) ==
    /\ fate[m] = "arrived"
    /\ confirmed' = confirmed \union {m}
    /\ UNCHANGED fate

Next ==
    \E m \in Messages :
        Announce(m) \/ Post(m) \/ Arrive(m) \/ Vanish(m) \/ Confirm(m)

Spec == Init /\ [][Next]_<<fate, confirmed>>
=============================================================================
