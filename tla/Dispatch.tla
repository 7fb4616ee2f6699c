------------------------------- MODULE Dispatch -------------------------------
(***************************************************************************)
(* One work assignment on its way to an agent and back: the write-ahead    *)
(* dispatch of oab_control/discord_dispatch.py, its reconciliation, and    *)
(* the receipts of oab_control/discord_receipts.py, over the assignment    *)
(* directory that oab_control/assignments.py keeps.                        *)
(*                                                                         *)
(* Commands are operating-system processes.  append_attempt, set_status    *)
(* and write_review_record each take the global and the task lock and read *)
(* assignment.json again, so each is one step here; between them a command *)
(* holds no lock, talks to Discord, and may die.                           *)
(*                                                                         *)
(* A nonce names one attempt and is not told apart from it.  events.jsonl, *)
(* previews, and the text of messages are left out.                        *)
(***************************************************************************)
EXTENDS Integers, Sequences, FiniteSets

CONSTANTS
    Procs,       \* CLI processes of the leader
    Attempts,    \* attempt IDs, each with its nonce
    MaxReplies,  \* bound: answers an agent writes in one thread
    NoAttempt    \* the command is not about an attempt

ASSUME DispatchAssumption ==
    /\ NoAttempt \notin Attempts
    /\ MaxReplies \in Nat

VARIABLES
    phase,       \* WorkAssignment.phase, fixed when it was prepared
    status,      \* the status in assignment.json
    taskFits,    \* _validate_binding holds: task state, catalog and grant
    attemptLog,  \* dispatch-attempts.jsonl
    inFlight,    \* messages POSTed that Discord has not dealt with
    channel,     \* messages in the agent's channel
    replies,     \* what the agent wrote in the thread of each message
    review,      \* review.json exists
    command      \* what each process is in the middle of

vars == <<phase, status, taskFits, attemptLog, inFlight, channel, replies,
          review, command>>
-----------------------------------------------------------------------------
STATUSES == {"prepared", "dispatched", "acknowledged", "completed", "superseded",
             "cancelled", "needs_reconciliation"}
STATUS_TRANSITIONS ==
    [s \in STATUSES |->
        CASE s = "prepared" ->
                 {"dispatched", "needs_reconciliation", "superseded", "cancelled"}
          [] s = "dispatched" ->
                 {"acknowledged", "completed", "needs_reconciliation", "superseded", "cancelled"}
          [] s = "acknowledged" ->
                 {"completed", "needs_reconciliation", "superseded", "cancelled"}
          [] s = "needs_reconciliation" ->
                 {"prepared", "dispatched", "superseded", "cancelled"}
          [] s = "completed" -> {"superseded"}
          [] s \in {"superseded", "cancelled"} -> {}]

Outcomes == {"pending", "delivered", "unknown", "definitive_failure", "reconciled_not_found"}
Row == [attempt: Attempts, state: Outcomes, at: 0..MaxReplies]

(* What an agent may answer; a verdict is left as the word "verdict".      *)
Answers == {"acknowledged", "completed", "verdict"}

(* The step a command is about to take.  "to" is the row, the status or    *)
(* the answer it carries, and "at" the moment it calls resolved_at,        *)
(* counted in answers already in the thread.                               *)
Steps == {"idle", "append", "send", "wait", "scan", "status", "read", "review"}
Commands ==
    [step: Steps, attempt: Attempts \union {NoAttempt},
     to: Outcomes \union STATUSES \union Answers \union {""}, at: 0..MaxReplies]

Idle == [step |-> "idle", attempt |-> NoAttempt, to |-> "", at |-> 0]

Become(p, step, attempt, to, at) ==
    command' = [command EXCEPT ![p] =
                  [step |-> step, attempt |-> attempt, to |-> to, at |-> at]]
Finish(p) == command' = [command EXCEPT ![p] = Idle]
-----------------------------------------------------------------------------
(* AssignmentStore.attempts: the last row of each attempt, in the order of *)
(* the first rows.                                                         *)
Rows(a) == {i \in DOMAIN attemptLog : attemptLog[i].attempt = a}
Logged == {a \in Attempts : Rows(a) # {}}
LastRow(a) == {i \in Rows(a) : \A j \in Rows(a) : j <= i}
InState(S) == {a \in Attempts : \E i \in LastRow(a) : attemptLog[i].state \in S}

StartedBefore(b, a) == \E i \in Rows(b) : \A j \in Rows(a) : i <= j
Newest(a, S) == a \in S /\ \A b \in S : StartedBefore(b, a)

(* append_attempt and set_status, under the lock.                          *)
Dispatchable == status \in {"prepared", "needs_reconciliation"}

StatusAllowed(s) == s = status \/ s \in STATUS_TRANSITIONS[status]

Init ==
    /\ phase \in {"execution", "review"}
    /\ status = "prepared"
    /\ taskFits = TRUE
    /\ attemptLog = <<>>
    /\ inFlight = {}
    /\ channel = {}
    /\ replies = [a \in Attempts |-> <<>>]
    /\ review = FALSE
    /\ command = [p \in Procs |-> Idle]
-----------------------------------------------------------------------------
(* dispatch_assignment *)

\* mutant: the attempts are not looked at
ReadyByStatus == taskFits /\ status = "prepared"
DispatchReady ==
    /\ taskFits
    /\ status = "prepared"
    /\ InState({"pending", "unknown"}) = {}

BeginDispatch(p, a) ==
    /\ command[p] = Idle
    /\ DispatchReady
    /\ a \notin Logged
    /\ \A q \in Procs : command[q].attempt # a
    /\ Become(p, "append", a, "pending", 0)
    /\ UNCHANGED <<phase, status, taskFits, attemptLog, inFlight, channel, replies,
                   review>>

\* mutant: an attempt that is not found leaves the assignment where it was
StatusAfterStuck(outcome) ==
    CASE outcome = "delivered"            -> "dispatched"
      [] outcome = "unknown"              -> "needs_reconciliation"
      [] outcome = "reconciled_not_found" -> "needs_reconciliation"
\* mutant: the state of the attempt is written as the status
StatusAfterWord(outcome) == outcome
StatusAfter(outcome) ==
    CASE outcome = "delivered"            -> "dispatched"
      [] outcome = "unknown"              -> "needs_reconciliation"
      [] outcome = "reconciled_not_found" -> "prepared"

(* The row goes to the log; what the command does next depends on the row. *)
AppendAttempt(p) ==
    LET c == command[p] IN
    /\ c.step = "append"
    /\ Dispatchable
    /\ attemptLog' = Append(attemptLog, [attempt |-> c.attempt, state |-> c.to, at |-> c.at])
    /\ \/ c.to = "pending" /\ Become(p, "send", c.attempt, "", 0)
       \/ c.to = "definitive_failure" /\ Finish(p)
       \/ /\ c.to \in {"delivered", "unknown", "reconciled_not_found"}
          /\ Become(p, "status", c.attempt, StatusAfter(c.to), 0)
    /\ UNCHANGED <<phase, status, taskFits, inFlight, channel, replies, review>>

\* mutant: the message is sent before the pending row is written
SendFirst(p) ==
    LET c == command[p] IN
    /\ c.step \in {"append", "send"} /\ c.to \in {"", "pending"}
    /\ inFlight' = inFlight \union {c.attempt}
    /\ Become(p, "wait", c.attempt, "", 0)
    /\ UNCHANGED <<phase, status, taskFits, attemptLog, channel, replies, review>>

Send(p) ==
    LET c == command[p] IN
    /\ c.step = "send"
    /\ inFlight' = inFlight \union {c.attempt}
    /\ Become(p, "wait", c.attempt, "", 0)
    /\ UNCHANGED <<phase, status, taskFits, attemptLog, channel, replies, review>>

(* A message ID came back, an HTTP status did, or nothing usable in time.  *)
(* An HTTP status means that Discord did not take the message.             *)
Response(p) ==
    LET a == command[p].attempt IN
    /\ command[p].step = "wait"
    /\ \/ /\ a \in channel
          /\ Become(p, "append", a, "delivered", Len(replies[a]))
          /\ UNCHANGED inFlight
       \/ /\ a \in inFlight
          /\ inFlight' = inFlight \ {a}
          /\ Become(p, "append", a, "definitive_failure", 0)
       \/ /\ Become(p, "append", a, "unknown", 0)
          /\ UNCHANGED inFlight
    /\ UNCHANGED <<phase, status, taskFits, attemptLog, channel, replies, review>>

\* mutant: the client posts again when it cannot read the answer
PostAgain(p) ==
    /\ command[p].step = "wait"
    /\ Become(p, "send", command[p].attempt, "", 0)
    /\ UNCHANGED <<phase, status, taskFits, attemptLog, inFlight, channel, replies,
                   review>>
(* A body that is not JSON raises ValueError through DiscordApi.send and   *)
(* dispatch_assignment: the command ends and the attempt stays pending.    *)
BadResponse(p) ==
    /\ command[p].step = "wait"
    /\ Finish(p)
    /\ UNCHANGED <<phase, status, taskFits, attemptLog, inFlight, channel, replies,
                   review>>

SetStatus(p) ==
    LET c == command[p] IN
    /\ c.step = "status"
    /\ StatusAllowed(c.to)
    /\ status' = c.to
    /\ Finish(p)
    /\ UNCHANGED <<phase, taskFits, attemptLog, inFlight, channel, replies, review>>
-----------------------------------------------------------------------------
(* reconcile_assignment *)

ReconcileReady ==
    /\ taskFits
    /\ status = "needs_reconciliation"
    /\ InState({"unknown"}) # {}

BeginReconcile(p) ==
    /\ command[p] = Idle
    /\ ReconcileReady
    /\ \E a \in Attempts : /\ Newest(a, InState({"unknown"}))
                           /\ Become(p, "scan", a, "", 0)
    /\ UNCHANGED <<phase, status, taskFits, attemptLog, inFlight, channel, replies,
                   review>>

FoundByAssignment(a) == channel # {}  \* mutant: the nonce is not compared
Found(a) == a \in channel             \* find_messages by the nonce

Scan(p) ==
    LET a == command[p].attempt IN
    /\ command[p].step = "scan"
    /\ \/ Found(a) /\ Become(p, "append", a, "delivered", Len(replies[a]))
       \/ ~Found(a) /\ Become(p, "append", a, "reconciled_not_found", 0)
    /\ UNCHANGED <<phase, status, taskFits, attemptLog, inFlight, channel, replies,
                   review>>
-----------------------------------------------------------------------------
(* sync_assignment *)

BeginSync(p) ==
    /\ command[p] = Idle
    /\ status \in {"dispatched", "acknowledged"}
    /\ taskFits
    /\ \E a \in Attempts :
          /\ Newest(a, InState({"delivered"}))
          /\ \E i \in LastRow(a) : Become(p, "read", a, "", attemptLog[i].at)
    /\ UNCHANGED <<phase, status, taskFits, attemptLog, inFlight, channel, replies,
                   review>>

\* mutant: whatever stands in the thread is an answer
AnyAnswer(p) == Len(replies[command[p].attempt]) > 0
(* Discord lists the newest message first; an answer not later than the    *)
(* attempt's resolved_at is not admitted.                                  *)
Answered(p) == Len(replies[command[p].attempt]) > command[p].at

StepFor == IF phase = "review" THEN "review" ELSE "status"

ReadThread(p) ==
    LET a == command[p].attempt
        answer == replies[a][Len(replies[a])]
    IN
    /\ command[p].step = "read"
    /\ Answered(p)
    /\ Become(p, StepFor, a,
              IF answer = "verdict" THEN "completed" ELSE answer, 0)
    /\ UNCHANGED <<phase, status, taskFits, attemptLog, inFlight, channel, replies,
                   review>>

(* write_review_record writes review.json under the lock, lets it go, and  *)
(* then sets the status.                                                   *)
AwaitsResult == status \in {"dispatched", "acknowledged"} /\ ~review

WriteReviewRecord(p) ==
    LET c == command[p] IN
    /\ c.step = "review"
    /\ AwaitsResult
    /\ review' = TRUE
    /\ Become(p, "status", c.attempt, c.to, 0)
    /\ UNCHANGED <<phase, status, taskFits, attemptLog, inFlight, channel, replies>>
-----------------------------------------------------------------------------
(* The command ends in an error: the store refuses under the lock, there   *)
(* is no answer yet, or Discord cannot be read.                            *)
Refused(p) ==
    /\ \/ command[p].step = "append" /\ ~Dispatchable
       \/ command[p].step = "status" /\ ~StatusAllowed(command[p].to)
       \/ command[p].step = "review" /\ ~AwaitsResult
       \/ command[p].step \in {"read", "scan"}
    /\ Finish(p)
    /\ UNCHANGED <<phase, status, taskFits, attemptLog, inFlight, channel, replies,
                   review>>

Crash(p) ==
    /\ command[p] # Idle
    /\ Finish(p)
    /\ UNCHANGED <<phase, status, taskFits, attemptLog, inFlight, channel, replies, review>>
-----------------------------------------------------------------------------
(* Discord, the agent, and the rest of the control plane.                  *)

(* A request lands or is lost, possibly long after the sender gave up.     *)
Land(a) ==
    /\ a \in inFlight
    /\ inFlight' = inFlight \ {a}
    /\ channel' = channel \union {a}
    /\ UNCHANGED <<phase, status, taskFits, attemptLog, replies, review, command>>

Lose(a) ==
    /\ a \in inFlight
    /\ inFlight' = inFlight \ {a}
    /\ UNCHANGED <<phase, status, taskFits, attemptLog, channel, replies, review, command>>

Reply(a, answer) ==
    /\ a \in channel
    /\ Len(replies[a]) < MaxReplies
    /\ (answer = "verdict") <=> (phase = "review")
    /\ replies' = [replies EXCEPT ![a] = Append(@, answer)]
    /\ UNCHANGED <<phase, status, taskFits, attemptLog, inFlight, channel, review, command>>

(* The task leaves, or comes back to, the state its phase works in.        *)
TaskMoves ==
    /\ taskFits' = ~taskFits
    /\ UNCHANGED <<phase, status, attemptLog, inFlight, channel, replies, review, command>>

(* The acceptance gate supersedes a completed review whose subject moved.  *)
Supersede ==
    /\ phase = "review"
    /\ status = "completed"
    /\ status' = "superseded"
    /\ UNCHANGED <<phase, taskFits, attemptLog, inFlight, channel, replies, review, command>>
-----------------------------------------------------------------------------
Step(p) ==
    \/ AppendAttempt(p) \/ Send(p) \/ Response(p) \/ SetStatus(p)
    \/ ReadThread(p) \/ WriteReviewRecord(p) \/ Refused(p)

Begin(p) ==
    \/ \E a \in Attempts : BeginDispatch(p, a)
    \/ BeginReconcile(p)
    \/ BeginSync(p)

Run(p) == Begin(p) \/ Step(p) \/ Scan(p) \/ BadResponse(p)

Environment ==
    \/ \E a \in Attempts : \/ Land(a) \/ Lose(a)
                           \/ \E answer \in Answers : Reply(a, answer)
    \/ TaskMoves
    \/ Supersede

Alive == (\E p \in Procs : Run(p)) \/ Environment
Next == Alive \/ (\E p \in Procs : Crash(p))

Spec == Init /\ [][Next]_vars

(* Without crashes.  A started command goes on until it ends (the HTTP     *)
(* calls have timeouts); the operator reconciles when told to, and a scan  *)
(* of the channel's history succeeds if it is tried again and again.       *)
Fairness ==
    \A p \in Procs : WF_vars(Step(p)) /\ WF_vars(BeginReconcile(p)) /\ SF_vars(Scan(p))

LiveSpec == Init /\ [][Alive]_vars /\ Fairness
-----------------------------------------------------------------------------
(* Type invariant of the assignment directory, Discord and the commands.   *)
TypeOK ==
    /\ phase \in {"execution", "review"}
    /\ status \in STATUSES
    /\ taskFits \in BOOLEAN /\ review \in BOOLEAN
    /\ attemptLog \in Seq(Row)
    /\ inFlight \subseteq Attempts /\ channel \subseteq Attempts
    /\ replies \in [Attempts -> Seq(Answers)]
    /\ \A a \in Attempts : Len(replies[a]) <= MaxReplies
    /\ command \in [Procs -> Commands]
    /\ \A p \in Procs :
          /\ command[p].step \in {"append", "send", "wait", "scan", "read", "review"} =>
                command[p].attempt \in Attempts
          /\ command[p].step = "append" => command[p].to \in Outcomes
          /\ command[p].step \in {"status", "review"} => command[p].to \in STATUSES

(* Write-ahead (dispatch_assignment appends "pending" before it sends): no *)
(* message for the assignment is ever on its way or in the channel without *)
(* a row in dispatch-attempts.jsonl, whichever commands died.              *)
WriteAhead == inFlight \union channel \subseteq Logged

(* A delivered attempt is in the channel: neither a late answer, nor a     *)
(* scan, nor a second process settles an attempt by another's message.     *)
DeliveredIsReal ==
    \A i \in DOMAIN attemptLog :
        attemptLog[i].state = "delivered" => attemptLog[i].attempt \in channel

(* Provenance: an assignment past "prepared" has a delivered attempt; an   *)
(* acknowledged or completed one was answered in the thread of such a      *)
(* message, after the attempt was resolved (what was written there before  *)
(* is never taken for an answer); and a completed review has its Record.   *)
ResultHasProvenance ==
    /\ status \in {"dispatched", "acknowledged", "completed", "superseded"} =>
         \E i \in DOMAIN attemptLog : attemptLog[i].state = "delivered"
    /\ status \in {"acknowledged", "completed", "superseded"} =>
         \E i \in DOMAIN attemptLog : /\ attemptLog[i].state = "delivered"
                                      /\ Len(replies[attemptLog[i].attempt]) > attemptLog[i].at
    /\ phase = "review" /\ status \in {"completed", "superseded"} => review

(* No send while an attempt is open (dispatch_assignment's first check):   *)
(* at most one attempt is pending or unknown, through any number of        *)
(* crashes and lost answers.  The check is made outside the lock, so this  *)
(* needs OneDispatch: no two dispatches overlap.  Other commands may.      *)
Dispatching(p) ==
    \/ command[p].step \in {"send", "wait"}
    \/ command[p].step = "append" /\ command[p].to \in {"pending", "unknown"}
OneDispatch == \A p, q \in Procs : Dispatching(p) /\ Dispatching(q) => p = q

OneUnsettled ==
    \A a, b \in InState({"pending", "unknown"}) : a = b

(* What stands for the messages of Postbox: an attempt is announced while  *)
(* the process that wrote its pending row has yet to send it, and confirmed *)
(* once the log has a delivered row.                                       *)
Sending == {command[p].attempt : p \in {q \in Procs : command[q].step = "send"}}
Fate(a) ==
    IF a \notin Logged THEN "unused"
    ELSE IF a \in channel THEN "arrived"
    ELSE IF a \in inFlight THEN "posted"
    ELSE IF a \in Sending THEN "announced" ELSE "gone"
Fates == [a \in Attempts |-> Fate(a)]
Confirmed == {a \in Attempts : \E i \in Rows(a) : attemptLog[i].state = "delivered"}

Box == INSTANCE Postbox WITH Messages <- Attempts, fate <- Fates, confirmed <- Confirmed

(* The dispatch implements Postbox: each attempt's message is announced in *)
(* the log, then posted at most once, by at most one process; the log only *)
(* ever confirms what arrived, and never takes it back.                    *)
ImplementsPostbox == Box!Spec

(* Reconciliation ends: an assignment that needs it leaves that status,    *)
(* unless the task moves away, as long as no process dies in the middle.   *)
UnknownResolves ==
    (status = "needs_reconciliation") ~> (status # "needs_reconciliation" \/ ~taskFits)

(* docs/規格-派工-A007.md, 6.2 gate 7: no message is sent again once an    *)
(* attempt was delivered.                                                  *)
OneDelivered ==
    \A a, b \in InState({"delivered"}) : a = b

(* docs/規格-派工-A007.md, 4: a pending attempt left by a crash is treated *)
(* as unknown and reconciled, so with no command running the assignment    *)
(* can be.                                                                 *)
PendingIsReconcilable ==
    (\A p \in Procs : command[p] = Idle) /\ taskFits /\ InState({"pending"}) # {}
        => ReconcileReady
=============================================================================
