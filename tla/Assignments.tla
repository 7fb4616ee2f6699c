------------------------------ MODULE Assignments ------------------------------
(***************************************************************************)
(* assignment-prepare and assignment-prune over all tasks: the review      *)
(* handoff of oab_control/review_handoff.py and artifacts.py, then the     *)
(* store of oab_control/assignments.py, with what they leave behind        *)
(* (review refs, snapshots, directories, briefs) when a process stops.     *)
(*                                                                         *)
(* What happens to an assignment once it is prepared is module Dispatch's  *)
(* subject; here its status makes any change that set_status allows.       *)
(*                                                                         *)
(* Tasks share one repository, as tasks of one checkout_subpath do, so a   *)
(* reviewer has one checkout for all of them.                              *)
(***************************************************************************)
EXTENDS Integers, FiniteSets

CONSTANTS
    Tasks,         \* delivery tasks that exist
    CodeTasks,     \* the ones of kind "code"
    Owner,         \* the agent that owns each task
    Reviewers,     \* agents with role "reviewer"
    Ids,           \* assignment IDs
    Procs,         \* CLI processes of the leader
    Versions,      \* states of a deliverable: commits or digests
    NoAssignment,  \* there is no assignment.json
    NoVersion,     \* no subject, or a checkout at some base commit
    NoProc         \* nobody holds the global lock

Agents == Reviewers \union {Owner[t] : t \in Tasks}

ASSUME AssignmentsAssumption ==
    /\ CodeTasks \subseteq Tasks
    /\ \A t \in Tasks : Owner[t] \notin Reviewers
    /\ NoVersion \notin Versions
    /\ NoProc \notin Procs

VARIABLES
    taskState,     \* state of each delivery task, as this store tells it apart
    deliverable,   \* HEAD of the owner's checkout, or digest of report.md
    published,     \* subjects kept: review refs and artifact snapshots
    damaged,       \* the snapshots that do not hold what their digest names
    spoilt,        \* history: the snapshots whose copying was disturbed
    reviewerHead,  \* HEAD of each reviewer's checkout
    rootDir,       \* tasks with a directory "assignments"
    assignment,    \* assignment.json of each ID
    brief,         \* assignments whose TASK.md is in the agent's inbox
    reviewed,      \* assignments with a Review Record
    lock,          \* holder of .assignment-global.lock
    command        \* what each process is in the middle of

vars == <<taskState, deliverable, published, damaged, spoilt, reviewerHead, rootDir,
          assignment, brief, reviewed, lock, command>>
subjects == <<published, damaged, spoilt>>
-----------------------------------------------------------------------------
TaskStates == {"assigned", "review", "other", "closed"}
STATUSES == {"prepared", "dispatched", "acknowledged", "completed", "superseded",
             "cancelled", "needs_reconciliation"}
Finished == {"completed", "superseded", "cancelled"}
STATUS_TRANSITIONS ==
    [s \in STATUSES |->
        CASE s = "prepared" ->
                 {"dispatched", "needs_reconciliation", "superseded", "cancelled"}
          [] s = "dispatched" ->
                 {"acknowledged", "completed", "needs_reconciliation", "superseded", "cancelled"}
          [] s = "acknowledged" ->
                 {"completed", "needs_reconciliation", "superseded", "cancelled"}
          [] s = "needs_reconciliation" ->
                 {"prepared", "dispatched", "superseded", "cancelled"}
          [] s = "completed" -> {"superseded"}
          [] s \in {"superseded", "cancelled"} -> {}]

Assignment ==
    [task: Tasks, phase: {"execution", "review"}, agent: Agents,
     subject: Versions \union {NoVersion}, status: STATUSES]

ASSUME NoAssignmentAssumption == NoAssignment \notin Assignment

(* The step a command is about to take.  A copy that is open is of the     *)
(* version that its digest names ("fill") or of another ("fill_other").    *)
Filling == {"fill", "fill_other"}
Copying == {"compare", "look", "copy"} \union Filling
Preparing == Copying \union {"checkout", "check", "lock"}
Holding == {"root", "record", "brief"}   \* prepare's steps under the lock
Idle == [step |-> "idle"]
Command ==
    [step: Preparing \union Holding \union {"prune_subject"}, id: Ids \union {NoAssignment},
     task: Tasks, phase: {"execution", "review"}, agent: Agents,
     subject: Versions \union {NoVersion}]

Goto(p, step) == command' = [command EXCEPT ![p].step = step]
Finish(p) == command' = [command EXCEPT ![p] = Idle]

Existing == {i \in Ids : assignment[i] # NoAssignment}      \* AssignmentStore.list
Unfinished == {i \in Existing : assignment[i].status \notin Finished}
RequiredState(phase) == IF phase = "execution" THEN "assigned" ELSE "review"

Init ==
    /\ taskState = [t \in Tasks |-> "assigned"]
    /\ deliverable \in [Tasks -> Versions]
    /\ published = {} /\ damaged = {} /\ spoilt = {}
    /\ reviewerHead = [a \in Reviewers |-> NoVersion]
    /\ rootDir = {}
    /\ assignment = [i \in Ids |-> NoAssignment]
    /\ brief = {}
    /\ reviewed = {}
    /\ lock = NoProc
    /\ command = [p \in Procs |-> Idle]
-----------------------------------------------------------------------------
(* assignment-prepare.  For a review the subject is fixed before anything  *)
(* is checked: a commit is pushed to its review ref and checked out in the *)
(* target's checkout, any other deliverable is copied to a snapshot.       *)

Start(p, step, t, phase, agent, subject) ==
    command' = [command EXCEPT ![p] =
                  [step |-> step, id |-> NoAssignment, task |-> t, phase |-> phase,
                   agent |-> agent, subject |-> subject]]

BeginExecution(p, t, agent) ==
    /\ command[p] = Idle
    /\ Start(p, "check", t, "execution", agent, NoVersion)
    /\ UNCHANGED <<taskState, deliverable, subjects, reviewerHead, rootDir, assignment,
                   brief, reviewed, lock>>

PublishBase(t, v) == {<<t, NoVersion>>} \* mutant: the base is kept, not the delivery
Publish(t, v) == {<<t, v>>}

(* A ref is pushed whole, and read back.                                   *)
BeginCodeReview(p, t, agent) ==
    /\ command[p] = Idle
    /\ t \in CodeTasks
    /\ published' = published \union Publish(t, deliverable[t])
    /\ Start(p, "checkout", t, "review", agent, deliverable[t])
    /\ UNCHANGED <<taskState, deliverable, damaged, spoilt, reviewerHead, rootDir, assignment,
                   brief, reviewed, lock>>

(* The checkout of the target, whoever that is: a reviewer's, or an        *)
(* owner's, whose HEAD is what its code tasks deliver.                     *)
CheckoutSubject(p) ==
    LET c == command[p] IN
    /\ c.step = "checkout"
    /\ reviewerHead' = [a \in Reviewers |-> IF a = c.agent THEN c.subject ELSE reviewerHead[a]]
    /\ deliverable' = [t \in Tasks |-> IF t \in CodeTasks /\ Owner[t] = c.agent
                                       THEN c.subject ELSE deliverable[t]]
    /\ Goto(p, "check")
    /\ UNCHANGED <<taskState, subjects, rootDir, assignment, brief, reviewed, lock>>
-----------------------------------------------------------------------------
(* snapshot_task_artifact: the digest of report.md, then a file under that *)
(* digest, which is compared if it is there and else copied from report.md *)
(* as it is by then.  Nothing looks at a copy once it is made.             *)
(*                                                                         *)
(* spoilt observes three things that go wrong with a copy: report.md is    *)
(* not the one whose digest was taken; the copy stops half way; and two    *)
(* commands are about the same snapshot.  A snapshot is no longer spoilt   *)
(* when a later command, alone, has compared it.  No command reads it; it  *)
(* only tells FillSnapshot whether somebody else's copy was in the way.    *)

Subject(p) == <<command[p].task, command[p].subject>>
CopyingElsewhere(p, s) == \E q \in Procs \ {p} : command[q].step \in Copying /\ Subject(q) = s

BeginArtifactReview(p, t, agent) ==
    LET s == <<t, deliverable[t]>> IN
    /\ command[p] = Idle
    /\ t \notin CodeTasks
    /\ spoilt' = IF CopyingElsewhere(p, s) THEN spoilt \union {s} ELSE spoilt
    /\ Start(p, "compare", t, "review", agent, deliverable[t])
    /\ UNCHANGED <<taskState, deliverable, published, damaged, reviewerHead, rootDir, assignment,
                   brief, reviewed, lock>>

NotCompared(s) == TRUE  \* mutant: a snapshot that is there is taken as it is
AsNamed(s) == s \notin damaged

CompareSnapshot(p) ==
    LET s == Subject(p) IN
    /\ command[p].step = "compare"
    /\ s \in published => AsNamed(s)
    /\ spoilt' = IF s \in published /\ ~CopyingElsewhere(p, s) THEN spoilt \ {s} ELSE spoilt
    /\ Goto(p, "look")
    /\ UNCHANGED <<taskState, deliverable, published, damaged, reviewerHead, rootDir, assignment,
                   brief, reviewed, lock>>

LookForSnapshot(p) ==
    /\ command[p].step = "look"
    /\ Goto(p, IF Subject(p) \in published THEN "check" ELSE "copy")
    /\ UNCHANGED <<taskState, deliverable, subjects, reviewerHead, rootDir, assignment, brief,
                   reviewed, lock>>

(* copyfile opens report.md, which is only ever replaced as a whole, and   *)
(* then the snapshot, which is empty from then on.                         *)
OpenSnapshot(p) ==
    LET c == command[p]
        s == Subject(p)
        same == deliverable[c.task] = c.subject IN
    /\ c.step = "copy"
    /\ published' = published \union {s}
    /\ damaged' = damaged \union {s}
    /\ spoilt' = IF same THEN spoilt ELSE spoilt \union {s}
    /\ Goto(p, IF same THEN "fill" ELSE "fill_other")
    /\ UNCHANGED <<taskState, deliverable, reviewerHead, rootDir, assignment, brief,
                   reviewed, lock>>

(* The rest of the copy.  Another one that wrote to the same file may have *)
(* left its own in it.                                                     *)
FillSnapshot(p) ==
    LET s == Subject(p) IN
    /\ \/ command[p].step = "fill" /\ damaged' = damaged \ {s}
       \/ /\ command[p].step \in Filling
          /\ s \in spoilt
          /\ damaged' = damaged \union ({s} \intersect published)
    /\ Goto(p, "check")
    /\ UNCHANGED <<taskState, deliverable, published, spoilt, reviewerHead, rootDir, assignment,
                   brief, reviewed, lock>>

(* The copy raises, or the process dies in it: what it has not written is  *)
(* missing, unless another copy wrote it too.                              *)
StopCopying(p) ==
    LET s == Subject(p) IN
    /\ command[p].step \in Filling
    /\ spoilt' = spoilt \union {s}
    /\ damaged' \in {damaged, damaged \union ({s} \intersect published)}
    /\ Finish(p)
    /\ UNCHANGED <<taskState, deliverable, published, reviewerHead, rootDir, assignment, brief,
                   reviewed, lock>>
-----------------------------------------------------------------------------
(* AssignmentStore.prepare: the checks made without the lock ...           *)
Check(p) ==
    LET c == command[p] IN
    /\ c.step = "check"
    /\ taskState[c.task] = RequiredState(c.phase)
    /\ c.phase = "execution" => c.agent = Owner[c.task]
    /\ c.phase = "review" => c.agent \in Reviewers
    /\ Goto(p, "lock")
    /\ UNCHANGED <<taskState, deliverable, subjects, reviewerHead, rootDir, assignment,
                   brief, reviewed, lock>>

(* ... and those made with it.                                             *)
NoWorkInTask(t, phase) ==
    \A i \in Unfinished : assignment[i].task = t =>
        assignment[i].phase # "execution" /\ phase # "review"
AgentIdle(t, agent) ==
    \A i \in Unfinished : assignment[i].task # t => assignment[i].agent # agent

LockIgnored == TRUE  \* mutant: the tasks root is not locked
LockFree == lock = NoProc

Acquire(p, i) ==
    LET c == command[p] IN
    /\ c.step = "lock"
    /\ i \notin Existing
    /\ LockFree
    /\ NoWorkInTask(c.task, c.phase)
    /\ AgentIdle(c.task, c.agent)
    /\ lock' = p
    /\ command' = [command EXCEPT ![p].step = "root", ![p].id = i]
    /\ UNCHANGED <<taskState, deliverable, subjects, reviewerHead, rootDir, assignment,
                   brief, reviewed>>

(* The directory of the task's assignments is made, not opened: mkdir      *)
(* without exist_ok.  The directories of the assignment itself are new.    *)
MakeDirectories(p) ==
    LET c == command[p] IN
    /\ c.step = "root"
    /\ c.task \notin rootDir
    /\ rootDir' = rootDir \union {c.task}
    /\ Goto(p, "record")
    /\ UNCHANGED <<taskState, deliverable, subjects, reviewerHead, assignment, brief,
                   reviewed, lock>>

WriteAssignment(p) ==
    LET c == command[p] IN
    /\ c.step = "record"
    /\ assignment' = [assignment EXCEPT ![c.id] =
                        [task |-> c.task, phase |-> c.phase, agent |-> c.agent,
                         subject |-> c.subject, status |-> "prepared"]]
    /\ Goto(p, "brief")
    /\ UNCHANGED <<taskState, deliverable, subjects, reviewerHead, rootDir, brief,
                   reviewed, lock>>

(* _atomic_text makes the inbox directory again if it is gone.             *)
WriteBrief(p) ==
    /\ command[p].step = "brief"
    /\ brief' = brief \union {command[p].id}
    /\ lock' = NoProc
    /\ Finish(p)
    /\ UNCHANGED <<taskState, deliverable, subjects, reviewerHead, rootDir, assignment,
                   reviewed>>
-----------------------------------------------------------------------------
(* assignment-prune: no lock.  The checks and the removal of the inbox,    *)
(* then the snapshot or the review ref.  That it refuses while an attempt  *)
(* is pending or unknown is left out: attempts are module Dispatch's.      *)

PruneUnchecked(t) == TRUE  \* mutant: the task's state is not read
PruneAllowed(t) == taskState[t] = "closed"

BeginPrune(p, i) ==
    /\ command[p] = Idle
    /\ i \in Existing
    /\ PruneAllowed(assignment[i].task)
    /\ assignment[i].status \in Finished \union {"prepared"}
    /\ assignment[i].phase = "review" => i \in reviewed
    /\ brief' = brief \ {i}
    /\ Start(p, "prune_subject", assignment[i].task, assignment[i].phase, assignment[i].agent,
             assignment[i].subject)
    /\ UNCHANGED <<taskState, deliverable, subjects, reviewerHead, rootDir, assignment,
                   reviewed, lock>>

PruneSubject(p) ==
    LET c == command[p] IN
    /\ c.step = "prune_subject"
    /\ published' = published \ {<<c.task, c.subject>>}
    /\ damaged' = damaged \ {<<c.task, c.subject>>}
    /\ Finish(p)
    /\ UNCHANGED <<taskState, deliverable, spoilt, reviewerHead, rootDir, assignment, brief,
                   reviewed, lock>>
-----------------------------------------------------------------------------
(* The command refuses, an operation raises, or the process dies: the      *)
(* operating system lets the lock go, and nothing is undone.               *)
Abort(p) ==
    /\ command[p] # Idle /\ command[p].step \notin Filling
    /\ lock' = IF lock = p THEN NoProc ELSE lock
    /\ Finish(p)
    /\ UNCHANGED <<taskState, deliverable, subjects, reviewerHead, rootDir, assignment,
                   brief, reviewed>>

ProgressUnchecked(i, s) ==  \* mutant: set_status takes any status
    /\ i \in Existing
    /\ lock = NoProc
    /\ assignment' = [assignment EXCEPT ![i].status = s]
    /\ UNCHANGED <<taskState, deliverable, subjects, reviewerHead, rootDir, brief,
                   reviewed, lock, command>>

(* set_status, for dispatch, reconciliation, receipts and the gate.        *)
Progress(i, s) ==
    /\ i \in Existing
    /\ lock = NoProc
    /\ s \in STATUS_TRANSITIONS[assignment[i].status]
    /\ s = "completed" /\ assignment[i].phase = "review" => i \in reviewed
    /\ assignment' = [assignment EXCEPT ![i].status = s]
    /\ UNCHANGED <<taskState, deliverable, subjects, reviewerHead, rootDir, brief,
                   reviewed, lock, command>>

(* write_review_record, before it sets the status.                         *)
WriteReviewRecord(i) ==
    /\ i \in Existing \ reviewed
    /\ lock = NoProc
    /\ assignment[i].phase = "review"
    /\ assignment[i].status \in {"dispatched", "acknowledged"}
    /\ reviewed' = reviewed \union {i}
    /\ UNCHANGED <<taskState, deliverable, subjects, reviewerHead, rootDir, assignment,
                   brief, lock, command>>

(* task-transition, whose lifecycle is module TaskStore's subject: "other" *)
(* is planned, active, accepted or needs-reconciliation.  Closed is final. *)
TaskMoves(t, s) ==
    /\ taskState[t] # "closed"
    /\ s = "closed" \/ "other" \in {s, taskState[t]}
    /\ taskState' = [taskState EXCEPT ![t] = s]
    /\ UNCHANGED <<deliverable, subjects, reviewerHead, rootDir, assignment, brief,
                   reviewed, lock, command>>

(* The owner commits, or write_report replaces report.md; that it finds    *)
(* the task in state active, review or needs-reconciliation and writes is  *)
(* one step.                                                               *)
Deliver(t, v) ==
    /\ taskState[t] # "closed"
    /\ t \notin CodeTasks => taskState[t] \in {"review", "other"}
    /\ deliverable' = [deliverable EXCEPT ![t] = v]
    /\ UNCHANGED <<taskState, subjects, reviewerHead, rootDir, assignment, brief,
                   reviewed, lock, command>>
-----------------------------------------------------------------------------
Proc(p) ==
    \/ \E t \in Tasks, a \in Agents :
          BeginExecution(p, t, a) \/ BeginCodeReview(p, t, a) \/ BeginArtifactReview(p, t, a)
    \/ \E i \in Ids : Acquire(p, i) \/ BeginPrune(p, i)
    \/ CheckoutSubject(p) \/ CompareSnapshot(p) \/ LookForSnapshot(p) \/ OpenSnapshot(p)
    \/ FillSnapshot(p) \/ StopCopying(p)
    \/ Check(p) \/ MakeDirectories(p) \/ WriteAssignment(p) \/ WriteBrief(p)
    \/ PruneSubject(p) \/ Abort(p)

Environment ==
    \/ \E i \in Ids : WriteReviewRecord(i) \/ \E s \in STATUSES : Progress(i, s)
    \/ \E t \in Tasks, s \in TaskStates : TaskMoves(t, s)
    \/ \E t \in Tasks, v \in Versions : Deliver(t, v)

Next == (\E p \in Procs : Proc(p)) \/ Environment

Spec == Init /\ [][Next]_vars
-----------------------------------------------------------------------------
(* Type invariant.  The last conjunct ties the lock to the command that    *)
(* holds it: exactly the steps of prepare after its checks.                *)
TypeOK ==
    /\ taskState \in [Tasks -> TaskStates]
    /\ deliverable \in [Tasks -> Versions]
    /\ published \subseteq Tasks \X Versions /\ damaged \subseteq published
    /\ damaged \union spoilt \subseteq (Tasks \ CodeTasks) \X Versions
    /\ reviewerHead \in [Reviewers -> Versions \union {NoVersion}]
    /\ rootDir \subseteq Tasks
    /\ assignment \in [Ids -> Assignment \union {NoAssignment}]
    /\ brief \subseteq Ids /\ reviewed \subseteq Existing
    /\ command \in [Procs -> Command \union {Idle}]
    /\ lock \in Procs \union {NoProc}
    /\ \A p \in Procs : command[p].step \in Holding <=> lock = p

(* prepare's checks under the global lock: an agent never has two          *)
(* unfinished assignments, in one task or in two, however many processes   *)
(* prepare, progress and prune at the same time and wherever they die.     *)
AgentExclusive ==
    \A i, j \in Unfinished : assignment[i].agent = assignment[j].agent => i = j

(* The handoff comes before the assignment, and pruning only after its     *)
(* task: what a reviewer is asked about (its review ref or its snapshot)   *)
(* is there until the Review Record exists and the task is closed.  It is  *)
(* what its name says, however many handoffs and prunes overlap and        *)
(* wherever they stop, unless it is a snapshot and its copying was         *)
(* disturbed; a later handoff does not take over such a snapshot unseen.   *)
Sound(s) == s \in published /\ (s \in damaged => s \in spoilt)

SubjectRetained ==
    \A i \in Existing :
        /\ assignment[i].phase = "review"
        /\ i \notin reviewed \/ taskState[assignment[i].task] # "closed"
        => Sound(<<assignment[i].task, assignment[i].subject>>)

(* prune reads the task once, without a lock, and removes the brief and    *)
(* then the subject in later steps: none of them happens to a task that is *)
(* not closed.                                                             *)
PrunedWhenClosed ==
    [][/\ \A i \in brief \ brief' : taskState[assignment[i].task] = "closed"
       /\ \A s \in published \ published' : taskState[s[1]] = "closed"]_vars

(* docs/規格-派工-A007.md, 6.2 gate 4: when the review of a commit is      *)
(* dispatched, the reviewer's checkout is at exactly that commit.          *)
ReviewerAtSubject ==
    [][\A i \in Existing :
          /\ assignment[i].phase = "review" /\ assignment[i].task \in CodeTasks
          /\ assignment[i].status = "prepared" /\ assignment'[i].status = "dispatched"
          => reviewerHead[assignment[i].agent] = assignment[i].subject]_vars
-----------------------------------------------------------------------------
(* Engagement, with every record standing for the order it gives: open     *)
(* until it is finished, and over once it is reviewed and its task closed. *)
OrderOf(i) ==
    LET x == assignment[i] IN
    [id |-> i, task |-> x.task, phase |-> x.phase, agent |-> x.agent, subject |-> x.subject]

Orders == {OrderOf(i) : i \in Existing}
OpenOrders == {OrderOf(i) : i \in Unfinished}
OverReviews == {OrderOf(i) : i \in {j \in reviewed : taskState[assignment[j].task] = "closed"}}

Promise == INSTANCE Engagement WITH
    orders <- Orders, open <- OpenOrders, over <- OverReviews, kept <- published \ damaged,
    Artifacts <- Tasks \ CodeTasks

(* Handoff, checks, lock and writes are steps apart, other commands come   *)
(* in between and any of them may die; still nothing is prepared, changed, *)
(* finished or pruned but as Engagement does it in one step: an agent gets *)
(* work while it has none, for a task without work, about a subject that   *)
(* is kept; its record never names other work and never opens again; and   *)
(* no review loses its subject before it is over.  For an artifact whose   *)
(* copying is disturbed Engagement promises nothing, until it is compared. *)
ImplementsEngagement == Promise!Spec
=============================================================================
