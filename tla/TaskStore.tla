------------------------------ MODULE TaskStore ------------------------------
(***************************************************************************)
(* The durable task store of oab_control/tasks.py: the life of a delivery  *)
(* task from planned to closed, and the gate in front of "accepted".       *)
(*                                                                         *)
(* Every CLI command is an operating-system process (a writer) that reads  *)
(* task.json, decides, and then writes one file after another.  Each file  *)
(* is replaced atomically, but nothing makes two writes one step, and      *)
(* nothing locks the store: the process may end between any two of them.   *)
(*                                                                         *)
(* events.jsonl and the wording of the markdown files are left out.        *)
(***************************************************************************)
EXTENDS Integers, Sequences, FiniteSets

CONSTANTS
    Tasks,       \* task IDs
    Agents,      \* agent IDs a task can be routed to
    Writers,     \* CLI processes of the leader
    Versions,    \* states of a deliverable: commit SHAs or artifact digests
    MaxActive,   \* TaskStore.max_active_tasks
    MaxReviews,  \* bound: Review Records a task may collect
    NoTask,      \* there is no task.json
    NoVersion    \* no delivery evidence, no review under way

(* TaskStore.__init__ refuses a limit below one; the rest names what is   *)
(* finite and what is not a record or a version.                           *)
ASSUME TaskStoreAssumption ==
    /\ IsFiniteSet(Tasks)
    /\ MaxActive \in Nat \ {0}
    /\ MaxReviews \in Nat
    /\ NoVersion \notin Versions

VARIABLES
    taskDir,      \* task directories that exist
    task,         \* the content of each task.json
    docs,         \* markdown files of each task that hold real content
    deliverable,  \* HEAD of the task's checkout, or digest of its report.md
    asked,        \* subject of the review assignment that is out, if any
    reviews,      \* review.json files of each task, by received_at
    command,      \* what each writer is in the middle of
    acceptedAs    \* history: the version each task was accepted as

vars == <<taskDir, task, docs, deliverable, asked, reviews, command, acceptedAs>>
-----------------------------------------------------------------------------
Kinds == {"code", "research"}  \* document and architecture are as research here
STATES == {"planned", "assigned", "active", "review", "accepted", "closed",
           "needs-reconciliation"}
ACTIVE == STATES \ {"closed"}
TRANSITIONS ==
    [s \in STATES |->
        CASE s = "planned"              -> {"assigned", "needs-reconciliation", "closed"}
          [] s = "assigned"             -> {"active", "needs-reconciliation", "closed"}
          [] s = "active"               -> {"review", "needs-reconciliation", "closed"}
          [] s = "review"               -> {"accepted", "active", "needs-reconciliation", "closed"}
          [] s = "accepted"             -> {"closed"}
          [] s = "needs-reconciliation" -> {"assigned", "active", "closed"}
          [] s = "closed"               -> {}]

Closures == {"", "merged", "accepted", "cancelled"}
Docs == {"report", "review", "acceptance", "delivery", "cancellation"}

Record ==
    [kind: Kinds, agent: Agents, authorized: BOOLEAN, state: STATES,
     closure: Closures, delivery: Versions \union {NoVersion}, merged: BOOLEAN]

ASSUME NoTaskAssumption == NoTask \notin Record

Review ==
    [subject: Versions, verdict: {"passed", "changes_requested"},
     status: {"completed", "superseded"},
     assignment: {"dispatched", "completed", "superseded"}]

(* What a writer is in the middle of: the file it is about to write. *)
Idle == [step |-> "idle"]
Commands ==
    {Idle}
    \union [step: {"mkdir"}, task: Tasks, record: Record]
    \union [step: {"record"}, task: Tasks, record: Record, doc: Docs \union {""},
            version: Versions \union {NoVersion}]
    \union [step: {"doc"}, task: Tasks, doc: Docs]
    \union [step: {"collected"}, task: Tasks, version: Versions]
    \union [step: {"supersede"}, task: Tasks, index: 1..MaxReviews]

Recorded == {t \in Tasks : task[t] # NoTask}              \* TaskStore.list
ActiveTasks == {t \in Recorded : task[t].state \in ACTIVE}

(* Task.__post_init__: the combinations a task record may hold. *)
ValidRecord(r) ==
    /\ (r.closure # "") <=> (r.state = "closed")
    /\ r.closure = "merged" => r.kind = "code" /\ r.merged /\ r.delivery # NoVersion
    /\ r.closure = "accepted" => r.kind # "code"
    /\ r.delivery # NoVersion => r.kind = "code"
    /\ r.kind = "code" /\ r.state = "accepted" => r.delivery # NoVersion

Init ==
    /\ taskDir = {}
    /\ task = [t \in Tasks |-> NoTask]
    /\ docs = [t \in Tasks |-> {}]
    /\ deliverable \in [Tasks -> Versions]
    /\ asked = [t \in Tasks |-> NoVersion]
    /\ reviews = [t \in Tasks |-> <<>>]
    /\ command = [w \in Writers |-> Idle]
    /\ acceptedAs = [t \in Tasks |-> NoVersion]
-----------------------------------------------------------------------------
(* task-create: the checks, then the directory, then task.json.            *)

NewRecord(kind, agent, authorized) ==
    [kind |-> kind, agent |-> agent, authorized |-> authorized, state |-> "planned",
     closure |-> "", delivery |-> NoVersion, merged |-> FALSE]

AgentAlwaysFree(agent) == TRUE  \* mutant: one task per agent is not enforced
AgentFree(agent) == \A u \in ActiveTasks : task[u].agent # agent

CreateCheck(w, t, record) ==
    /\ command[w] = Idle
    /\ t \notin taskDir
    /\ Cardinality(ActiveTasks) < MaxActive
    /\ AgentFree(record.agent)
    /\ command' = [command EXCEPT ![w] =
                     [step |-> "mkdir", task |-> t, record |-> record]]
    /\ UNCHANGED <<taskDir, task, docs, deliverable, asked, reviews, acceptedAs>>

(* path.mkdir raises if another writer was first: the command then aborts. *)
CreateDirectory(w) ==
    /\ command[w].step = "mkdir"
    /\ command[w].task \notin taskDir
    /\ taskDir' = taskDir \union {command[w].task}
    /\ command' = [command EXCEPT ![w] =
                     [step |-> "record", task |-> command[w].task,
                      record |-> command[w].record, doc |-> "", version |-> NoVersion]]
    /\ UNCHANGED <<task, docs, deliverable, asked, reviews, acceptedAs>>

(* task.json is replaced; an accepted or closed task has a markdown file   *)
(* still to be written.                                                    *)
WriteRecord(w) ==
    LET c == command[w] IN
    /\ c.step = "record"
    /\ task' = [task EXCEPT ![c.task] = c.record]
    /\ acceptedAs' = IF c.record.state = "accepted"
                      THEN [acceptedAs EXCEPT ![c.task] = c.version]
                      ELSE acceptedAs
    /\ command' = [command EXCEPT ![w] =
                     IF c.doc = "" THEN Idle
                     ELSE [step |-> "doc", task |-> c.task, doc |-> c.doc]]
    /\ UNCHANGED <<taskDir, docs, deliverable, asked, reviews>>

WriteDoc(w) ==
    LET c == command[w] IN
    /\ c.step = "doc"
    /\ docs' = [docs EXCEPT ![c.task] = @ \union {c.doc}]
    /\ command' = [command EXCEPT ![w] = Idle]
    /\ UNCHANGED <<taskDir, task, deliverable, asked, reviews, acceptedAs>>
-----------------------------------------------------------------------------
(* task-transition.  Every transition stages a whole new record.           *)

Stage(w, t, record, doc, version) ==
    /\ ValidRecord(record)
    /\ command' = [command EXCEPT ![w] =
                     [step |-> "record", task |-> t, record |-> record,
                      doc |-> doc, version |-> version]]
    /\ UNCHANGED <<taskDir, task, docs, deliverable, asked, acceptedAs>>

\* mutant: the table of transitions is not consulted
MoveAnywhere(w, t, s) ==
    /\ command[w] = Idle
    /\ t \in Recorded
    /\ s \in STATES \ {"accepted", "closed"}
    /\ Stage(w, t, [task[t] EXCEPT !.state = s, !.closure = ""], "", NoVersion)
    /\ UNCHANGED reviews

Move(w, t, s) ==
    /\ command[w] = Idle
    /\ t \in Recorded
    /\ s \in TRANSITIONS[task[t].state] \ {"accepted", "closed"}
    /\ Stage(w, t, [task[t] EXCEPT !.state = s], "", NoVersion)
    /\ UNCHANGED reviews

(* transition to "closed".  "evidence" is the part of the evidence file    *)
(* that decides: who cancelled and why, or the proof of the merge.         *)
CloseEvidence == SUBSET {"cancellation_reason", "cancellation_decider", "merge"}
IsCancellation(evidence) ==
    evidence \intersect {"cancellation_reason", "cancellation_decider"} # {}

\* mutant: a cancellation closes the task without a closure kind of its own
ClosedAsState(r, evidence) == [r EXCEPT !.state = "closed", !.closure = "closed"]

ClosedRecord(r, evidence) ==
    IF IsCancellation(evidence) THEN [r EXCEPT !.state = "closed", !.closure = "cancelled"]
    ELSE IF r.kind = "code"
         THEN [r EXCEPT !.state = "closed", !.closure = "merged", !.merged = TRUE]
         ELSE [r EXCEPT !.state = "closed", !.closure = "accepted"]

\* mutant: the merge branch is tried before the cancellation branch
ClosedDocMergeFirst(r, evidence) == IF r.kind = "code" THEN "delivery" ELSE "cancellation"

ClosedDoc(r, evidence) ==
    IF IsCancellation(evidence) THEN "cancellation"
    ELSE IF r.kind = "code" THEN "delivery" ELSE ""

Close(w, t, evidence) ==
    /\ command[w] = Idle
    /\ t \in Recorded
    /\ "closed" \in TRANSITIONS[task[t].state]
    /\ IF task[t].state # "accepted" \/ IsCancellation(evidence)
       THEN {"cancellation_reason", "cancellation_decider"} \subseteq evidence
       ELSE task[t].kind = "code" => "merge" \in evidence
    /\ Stage(w, t, ClosedRecord(task[t], evidence), ClosedDoc(task[t], evidence), NoVersion)
    /\ UNCHANGED reviews
-----------------------------------------------------------------------------
(* task-transition accepted --collect: read the deliverable from the       *)
(* checkout or the report, then go through the review gate.                *)

Collect(w, t) ==
    /\ command[w] = Idle
    /\ t \in Recorded
    /\ command' = [command EXCEPT ![w] =
                     [step |-> "collected", task |-> t, version |-> deliverable[t]]]
    /\ UNCHANGED <<taskDir, task, docs, deliverable, asked, reviews, acceptedAs>>

Completed(t) == {i \in DOMAIN reviews[t] : reviews[t][i].status = "completed"}
LatestCompleted(t) == {i \in Completed(t) : \A j \in Completed(t) : j <= i}

\* mutant: any verdict will do
ReviewOfAnyVerdict(t, i) ==
    i \in LatestCompleted(t) /\ reviews[t][i].assignment = "completed"

(* The checks of _require_review_record that come before the subject.  The *)
(* catalog and the reviewer's checkout can also refuse, which is an Abort. *)
ReviewUsable(t, i) ==
    /\ i \in LatestCompleted(t)
    /\ reviews[t][i].assignment = "completed"
    /\ reviews[t][i].verdict = "passed"

SubjectMatches(t, i, version) == reviews[t][i].subject = version

AcceptedRecord(r, version) ==
    [r EXCEPT !.state = "accepted",
              !.delivery = IF r.kind = "code" THEN version ELSE @]

AlwaysAuthorized(r) == TRUE  \* mutant: the authorization flags are not read
DeliveryAuthorized(r) == r.kind = "code" => r.authorized

Accept(w, i) ==
    LET t == command[w].task
        version == command[w].version
    IN
    /\ command[w].step = "collected"
    /\ t \in Recorded
    /\ "accepted" \in TRANSITIONS[task[t].state]
    /\ ReviewUsable(t, i)
    /\ SubjectMatches(t, i, version)
    /\ DeliveryAuthorized(task[t])
    /\ Stage(w, t, AcceptedRecord(task[t], version), "acceptance", version)
    /\ UNCHANGED reviews

\* mutant: the review is looked at before the state of the task
SupersedesInAnyState(w, i) ==
    LET t == command[w].task IN
    /\ command[w].step = "collected"
    /\ t \in Recorded
    /\ ReviewUsable(t, i)
    /\ ~SubjectMatches(t, i, command[w].version)
    /\ reviews' = [reviews EXCEPT ![t][i].status = "superseded"]
    /\ command' = [command EXCEPT ![w] = [step |-> "supersede", task |-> t, index |-> i]]
    /\ UNCHANGED <<taskDir, task, docs, deliverable, asked, acceptedAs>>

(* The deliverable is not what was reviewed: the Review Record is marked    *)
(* superseded, then its assignment, and the command fails.                 *)
AcceptSupersedes(w, i) ==
    LET t == command[w].task IN
    /\ command[w].step = "collected"
    /\ t \in Recorded
    /\ "accepted" \in TRANSITIONS[task[t].state]
    /\ ReviewUsable(t, i)
    /\ ~SubjectMatches(t, i, command[w].version)
    /\ reviews' = [reviews EXCEPT ![t][i].status = "superseded"]
    /\ command' = [command EXCEPT ![w] = [step |-> "supersede", task |-> t, index |-> i]]
    /\ UNCHANGED <<taskDir, task, docs, deliverable, asked, acceptedAs>>

SupersedeAssignment(w) ==
    LET c == command[w] IN
    /\ c.step = "supersede"
    /\ reviews' = [reviews EXCEPT ![c.task][c.index].assignment = "superseded"]
    /\ command' = [command EXCEPT ![w] = Idle]
    /\ UNCHANGED <<taskDir, task, docs, deliverable, asked, acceptedAs>>
-----------------------------------------------------------------------------
(* task-report and task-review; the report is the deliverable of a task    *)
(* that is not code.                                                       *)

WriteReport(w, t, version) ==
    /\ command[w] = Idle
    /\ t \in Recorded
    /\ task[t].state \in {"active", "review", "needs-reconciliation"}
    /\ docs' = [docs EXCEPT ![t] = @ \union {"report"}]
    /\ deliverable' = IF task[t].kind = "code" THEN deliverable
                      ELSE [deliverable EXCEPT ![t] = version]
    /\ UNCHANGED <<taskDir, task, asked, reviews, command, acceptedAs>>

WriteReview(w, t) ==
    /\ command[w] = Idle
    /\ t \in Recorded
    /\ task[t].state = "review"
    /\ docs' = [docs EXCEPT ![t] = @ \union {"review"}]
    /\ UNCHANGED <<taskDir, task, deliverable, asked, reviews, command, acceptedAs>>

(* The process dies, a write raises, or the command refuses: whatever was  *)
(* written stays, and nothing more is written.                             *)
Abort(w) ==
    /\ command[w] # Idle
    /\ command' = [command EXCEPT ![w] = Idle]
    /\ UNCHANGED <<taskDir, task, docs, deliverable, asked, reviews, acceptedAs>>
-----------------------------------------------------------------------------
(* The rest of the control plane and the agents, as this store sees them.  *)

(* A developer commits, or moves the branch, in its checkout.              *)
Commit(t, version) ==
    /\ t \in Recorded
    /\ task[t].kind = "code"
    /\ deliverable' = [deliverable EXCEPT ![t] = version]
    /\ UNCHANGED <<taskDir, task, docs, asked, reviews, command, acceptedAs>>

(* assignment-prepare --phase review fixes the subject of the next review. *)
AskReview(t) ==
    /\ t \in Recorded
    /\ task[t].state = "review"
    /\ asked[t] = NoVersion
    /\ Len(reviews[t]) < MaxReviews
    /\ \A i \in DOMAIN reviews[t] : reviews[t][i].assignment # "dispatched"
    /\ asked' = [asked EXCEPT ![t] = deliverable[t]]
    /\ UNCHANGED <<taskDir, task, docs, deliverable, reviews, command, acceptedAs>>

(* write_review_record: review.json first, the assignment's status next.   *)
RecordReview(t, verdict) ==
    /\ asked[t] # NoVersion
    /\ reviews' = [reviews EXCEPT ![t] =
                     Append(@, [subject |-> asked[t], verdict |-> verdict,
                                status |-> "completed", assignment |-> "dispatched"])]
    /\ asked' = [asked EXCEPT ![t] = NoVersion]
    /\ UNCHANGED <<taskDir, task, docs, deliverable, command, acceptedAs>>

CompleteReview(t, i) ==
    /\ i \in DOMAIN reviews[t]
    /\ reviews[t][i].assignment = "dispatched"
    /\ reviews' = [reviews EXCEPT ![t][i].assignment = "completed"]
    /\ UNCHANGED <<taskDir, task, docs, deliverable, asked, command, acceptedAs>>
-----------------------------------------------------------------------------
Create(w) ==
    \E t \in Tasks, kind \in Kinds, agent \in Agents, authorized \in BOOLEAN :
        CreateCheck(w, t, NewRecord(kind, agent, authorized))

Transition(w) ==
    \E t \in Tasks : \/ \E s \in STATES : Move(w, t, s)
                     \/ \E evidence \in CloseEvidence : Close(w, t, evidence)
                     \/ Collect(w, t)

Gate(w) == \E i \in 1..MaxReviews : Accept(w, i) \/ AcceptSupersedes(w, i)

Notes(w) ==
    \E t \in Tasks : \/ \E version \in Versions : WriteReport(w, t, version)
                     \/ WriteReview(w, t)

Writer(w) ==
    \/ Create(w) \/ CreateDirectory(w)
    \/ Transition(w) \/ Gate(w)
    \/ WriteRecord(w) \/ WriteDoc(w) \/ SupersedeAssignment(w)
    \/ Notes(w)
    \/ Abort(w)

Environment ==
    \E t \in Tasks :
        \/ \E version \in Versions : Commit(t, version)
        \/ AskReview(t)
        \/ \E verdict \in {"passed", "changes_requested"} : RecordReview(t, verdict)
        \/ \E i \in 1..MaxReviews : CompleteReview(t, i)

Next == (\E w \in Writers : Writer(w)) \/ Environment

Spec == Init /\ [][Next]_vars
-----------------------------------------------------------------------------
(* Type invariant: every file holds a well-formed value, and a record is   *)
(* never written outside a task directory.                                 *)
TypeOK ==
    /\ taskDir \subseteq Tasks
    /\ task \in [Tasks -> Record \union {NoTask}]
    /\ docs \in [Tasks -> SUBSET Docs]
    /\ deliverable \in [Tasks -> Versions]
    /\ asked \in [Tasks -> Versions \union {NoVersion}]
    /\ reviews \in [Tasks -> Seq(Review)]
    /\ command \in [Writers -> Commands]
    /\ acceptedAs \in [Tasks -> Versions \union {NoVersion}]

(* Admission (TaskStore.create): however commands crash and are retried,   *)
(* at most MaxActive tasks are unfinished and no agent has two of them.    *)
WipLimit ==
    /\ Cardinality(ActiveTasks) <= MaxActive
    /\ \A t, u \in ActiveTasks : task[t].agent = task[u].agent => t = u

(* The acceptance gate: a task that is accepted, or closed on the strength *)
(* of its acceptance, was accepted as a version that a completed Review    *)
(* Record passed and that nothing has superseded; for code that version is *)
(* the recorded delivery commit.  The deliverable may move at any moment.  *)
Accepted(t) == task[t].state = "accepted" \/ task[t].closure \in {"merged", "accepted"}

AcceptedByReview ==
    \A t \in Recorded : Accepted(t) =>
        /\ \E i \in DOMAIN reviews[t] :
              /\ reviews[t][i].subject = acceptedAs[t]
              /\ reviews[t][i].verdict = "passed"
              /\ reviews[t][i].status = "completed"
              /\ reviews[t][i].assignment = "completed"
        /\ task[t].kind = "code" => task[t].delivery = acceptedAs[t]

(* Closing (transition to "closed"): whatever happened before, a closed    *)
(* code task was either authorized, accepted and merged, or was cancelled  *)
(* with a record that keeps no claim of a merge; only other tasks close as *)
(* merely accepted, and they were.                                         *)
ClosureJustified ==
    \A t \in Recorded : task[t].state = "closed" =>
        \/ /\ task[t].closure = "merged"
           /\ task[t].kind = "code" /\ task[t].authorized /\ task[t].merged
           /\ acceptedAs[t] # NoVersion
        \/ /\ task[t].closure = "accepted"
           /\ task[t].kind # "code" /\ acceptedAs[t] # NoVersion
        \/ task[t].closure = "cancelled" /\ ~task[t].merged

(* Crash consistency of the projections: acceptance.md, delivery.md and    *)
(* cancellation.md are evidence a reader trusts, so none of them may claim *)
(* more than task.json does, wherever a command stopped.                   *)
ProjectionsFollowRecord ==
    \A t \in Tasks :
        /\ "acceptance" \in docs[t] =>
              t \in Recorded /\ task[t].state \in {"accepted", "closed"} /\ acceptedAs[t] # NoVersion
        /\ "delivery" \in docs[t] => t \in Recorded /\ task[t].closure = "merged"
        /\ "cancellation" \in docs[t] => t \in Recorded /\ task[t].closure = "cancelled"

(* The lifecycle as task.json shows it: a record never disappears, changes *)
(* owner or kind, leaves "closed", or skips a transition, although it is   *)
(* rewritten whole from a copy read some steps earlier.                    *)
LifecycleSteps ==
    [][\A t \in Recorded :
          /\ task'[t] # NoTask
          /\ task'[t].kind = task[t].kind /\ task'[t].agent = task[t].agent
          /\ \/ task'[t].state \in TRANSITIONS[task[t].state]
             \/ task'[t] = task[t]]_task
-----------------------------------------------------------------------------
(* How the manuals have the CLI used, which no code enforces: two commands *)
(* that overlap are about different tasks, and they do not both create.    *)
(* The properties above need this and nothing more.                        *)
Working(w) == command[w] # Idle
OneCommandPerTask ==
    \A v, w \in Writers :
        Working(v) /\ Working(w) /\ command[v].task = command[w].task => v = w

Creating(w) ==
    \/ command[w].step = "mkdir"
    \/ command[w].step = "record" /\ command[w].task \notin Recorded
OneCreate == \A v, w \in Writers : Creating(v) /\ Creating(w) => v = w

Undisturbed == OneCommandPerTask /\ OneCreate

(* What the store promises is module Delivery: each command amounts to one *)
(* step, the one that replaces task.json or a review's files.              *)
StageOf(t) ==
    CASE t \notin Recorded                                         -> "absent"
      [] t \in Recorded /\ task[t].state \notin {"accepted", "closed"} -> "open"
      [] t \in Recorded /\ task[t].state = "accepted"              -> "accepted"
      [] t \in Recorded /\ task[t].state = "closed"                ->
            IF task[t].closure = "cancelled" THEN "cancelled" ELSE "delivered"
Approved(t) ==
    {v \in Versions : \E i \in DOMAIN reviews[t] :
        reviews[t][i] = [subject |-> v, verdict |-> "passed",
                         status |-> "completed", assignment |-> "completed"]}

Stages == [t \in Tasks |-> StageOf(t)]
Owners == [t \in Tasks |-> IF t \in Recorded THEN task[t].agent ELSE NoTask]
Approvals == [t \in Tasks |-> Approved(t)]

Promise == INSTANCE Delivery WITH
    stage <- Stages, owner <- Owners, approved <- Approvals, chosen <- acceptedAs,
    Nobody <- NoTask

(* Deciding and writing are steps apart, the deliverable moves, reviews    *)
(* come and go and commands stop anywhere; still the store does nothing    *)
(* that Delivery, where each command is one step, does not do: no task is  *)
(* admitted beyond the limits, accepted as a version that is not approved  *)
(* then, delivered without that, or taken back.                            *)
ImplementsDelivery == Promise!Spec
=============================================================================
