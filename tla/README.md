# Verification of oab-agents-control

oab-agents-control is the control plane of a team of coding agents: a Python
command line (`oab_control/cli.py`) with which a human leader keeps delivery
tasks, hands work to agents over Discord, gives each agent its checkouts, and
deploys the agents to Kubernetes. There is no server. Every command is an
operating-system process that reads files, decides, talks to Discord, Git,
`kubectl` or `helm`, and writes files again. What makes it hard is what happens
between those steps: another command, a crash, a message that arrives late, a
person who edits a checkout or the catalog.

This directory holds TLA+ models of those commands, the TLC configurations that
check them, and proofs for TLAPS. Line numbers are those of the files under
`oab_control/`, unless another path is given; "A007" is
`docs/規格-派工-A007.md`.

    tlc -workers 2 -config TaskGate.cfg MCTaskStore     one run
    tlapm TaskStore_proof.tla                           one module of proofs

## 1. Inventory

### The components

| Component | Code | State it keeps | Operations |
|---|---|---|---|
| Task store | `tasks.py` | a directory per task: `task.json`, markdown projections, `events.jsonl` | create, transition, the acceptance gate, write_report, write_review, list |
| Evidence collector | `evidence.py` | none | collect: reads HEAD or the report's digest before acceptance |
| Assignment store | `assignments.py` | per assignment: `assignment.json`, `dispatch-attempts.jsonl`, `review.json`; the agent's inbox with `TASK.md`; two lock files | prepare, set_status, append_attempt, supersede, write_review_record, prune |
| Review handoff | `review_handoff.py`, `artifacts.py` | review refs in the delivery mirror, artifact snapshots, the reviewer's checkout | prepare_code_review, snapshot_task_artifact |
| Dispatch | `discord_dispatch.py` | none of its own: attempts and status in the assignment store | dispatch_assignment, reconcile_assignment |
| Receipts | `discord_receipts.py` | none of its own | sync_assignment |
| Discord client | `discord_api.py` | messages live in Discord | send, find_messages, read_messages, discover_thread |
| Deployment | `operations.py` | a snapshot directory per deploy: catalog, plan, manifests, `metadata.json`; the cluster | SnapshotStore.create, deploy, rollback, status |
| Worktrees | `worktree.py` | one clone per repository grant of an agent, a marker file | materialize, cleanup_task, retire_agent |
| Workspace registry | `registry.py` | one JSON file with a row per workspace, and its markdown | upsert, clear_task, retire |
| Backup | `backup.py` | backup directories with a manifest | create, verify, restore |
| Discord policy | `discord_policy.py` | none: a pure decision | decide who may answer what |
| Catalog | `catalog.py`, `yaml_utils.py` | `catalog.yaml`, edited by hand | load, validate, normalize |
| Environment | `environment.py` | none: validation of a document | load, validate |
| Renderer | `renderer.py`, `plan.py`, `k8s.py` | none: what each pod is given of the catalog | render |
| Secrets | `secrets.py` | Kubernetes Secrets | materialize_secrets |
| Preflights, conformance | `preflight.py`, `discord_preflight.py`, `runtime_conformance.py` | none | read-only checks |
| Command line | `cli.py` | none | one subcommand per operation above |

### How they interact

A task is created (`task-create`), assigned, and gets an execution assignment
(`assignment-prepare`), which is posted to its agent's channel
(`assignment-dispatch`). The agent acknowledges and completes it in the
message's thread, which `assignment-sync` reads. For a review,
`assignment-prepare --phase review` first publishes the deliverable (a review
ref, to which the reviewer's checkout is moved, or a snapshot of the report); the
verdict comes back through `assignment-sync` as `review.json`. `task-transition
accepted --collect` collects the deliverable once more, and the gate compares
it with the reviewed subject. Worktree commands and the registry prepare and
clear the checkouts that all of this works in. Deployment is apart: it goes
from the catalog to the cluster, with snapshots to go back to. The catalog is
read anew by every command: it says which channel, account, worktree and grants
an agent has, and a task and an assignment keep copies of some of that, which
must still agree when a message is posted. Backup copies the catalog, the
coordination repository, the worktrees and the exported cluster state away, and
brings them back.

The shared state is the file system. The stores replace every file atomically
(temporary file, fsync, `os.replace`), so a reader never sees half of one; but
nothing makes two files one step, and the snapshot of a report is an ordinary
copy (artifacts.py:40), of which a reader may see half. Only the assignment store takes locks
(`fcntl` locks on the tasks root and on the task, let go when the process ends);
the task store, the registry, worktrees, deploys and prune take none.

### What is hard, and what makes each component correct

| Component | Hard behaviour | Correct means |
|---|---|---|
| Task store | several files per transition and a crash between any two; the record is rewritten from an older copy; the deliverable moves before, during and after acceptance; two leaders at once | only what a completed, passed, not superseded review saw is accepted; every closure is justified; no markdown claims more than the record; limits on unfinished tasks hold |
| Dispatch and receipts | a message is posted between two writes; answers and messages come late, never, or after the command gave up; two commands with old copies | no message without a row; no attempt settled by another's message; a result has a delivered message and an answer behind it; an unknown outcome gets resolved |
| Assignment store | prepare checks, then writes three things; prune works without a lock; a snapshot is named by one reading of the report and copied from another | one unfinished assignment per agent; what a reviewer is asked about is kept as long as it is needed, and nothing but its own copying can damage it |
| Deployment | three external applies, each of which can fail half way; catalog edited meanwhile; crash between apply and mark | `metadata.json` is honest; there is a restore point before the first change; workload only under its own isolation |
| Worktrees and registry | a Git command per step and per grant; undo after a failure; a person editing the same directory; crash anywhere | nothing that was found is lost; the registry says what is true on the disk |
| Backup | four components moved one by one, undone on failure; a backup that decays on its medium; a removal that stops half way; somebody puts a file or a directory in the way | a restore leaves all or nothing, of one backup, and touches nothing else that `os.replace` stops at; what comes back is all that create found and could list, and has no secrets |
| Catalog, renderer, policy | rules in ten functions that only together keep agents apart; links in paths; an edit between creating a task, preparing and dispatching; pods that follow one by one | one listener for every message; workspaces that do not overlap; a dispatched message is heard by its target, and by nobody else once the pods follow the catalog |

`PROJECT.json`, "hazards", lists these one by one with the line where each
bites and the property that looks at it.

## 2. The modules

One module per component with state; its process steps are actions with one
write, one external call or one locked section each. `MC*` modules hold what
TLC needs to instantiate it, `*_proof` modules the theorems.

| Module | Component | Checked by | Proved in |
|---|---|---|---|
| `TaskStore` | task store, evidence collector | `task_gate`, `task_race` | `TaskStore_proof` |
| `Dispatch` | dispatch, reconciliation, receipts, Discord, and the assignment's own files | `dispatch_pair`, `dispatch_live`, `dispatch_duplicate`, `dispatch_stranded` | `Dispatch_proof` |
| `Delivery` | the abstract specification of the task store | `task_gate`, as a property of `TaskStore` | `TaskStore_proof` |
| `Postbox` | the abstract specification of a dispatch | `dispatch_pair`, as a property of `Dispatch` | `Postbox_proof` |
| `Assignments` | prepare and prune over all tasks, with the review handoff | `assignment_flow`, `reviewer_head` | `Assignments_proof` |
| `Engagement` | the abstract specification of prepare, progress and prune | `assignment_flow`, as a property of `Assignments` | `Assignments_proof` |
| `Deploy` | deploy and rollback | `deploy_rollback` | `Deploy_proof` |
| `Worktree` | worktrees and the registry row of one agent | `worktree_grants` | `Worktree_proof` |
| `Backup` | backup | `backup_restore` | `Backup_proof` |
| `Catalog` | catalog, what the renderer makes of it, Discord policy, and the catalog's part in tasks, assignments and dispatch | `catalog_rules` | `Catalog_proof` |

`PROJECT.json`, "map", gives the source lines of every definition.

### Conventions

`command[p]` is what process p is in the middle of: a record with its step and
the values it has read so far. A command that refuses, raises or dies is one
action (`Abort`, `Crash`, or `Refused` where only a refusal is possible): what
was written stays. Copies that a command read earlier stay in its record while
the files move on; that is where the interleavings are. Text, events.jsonl and
the layout of files are left out. Names, commits, digests and nonces are model
values, because the code only compares them.

### TaskStore

A writer is a process of the leader. `Create` checks, makes the directory and
writes `task.json`; a transition reads the record, checks, and stages a whole
new record (`Stage`), which `WriteRecord` writes later, and the markdown file
after it (`WriteDoc`). `Collect`, `Accept` and `AcceptSupersedes` are
`task-transition accepted --collect`, the only way the CLI accepts; the gate
takes the latest completed review, in the order of `received_at`, and a subject
that has moved marks the review and then its assignment superseded.
`deliverable` is what the evidence collector would read now. Reviews come from
the environment (`AskReview`, `RecordReview`, `CompleteReview`) in the order in
which `write_review_record` writes them; a task may have several, as the gate
provides for, although `prepare` today admits only one (section 5). The kinds
document and architecture take every branch that research takes. The catalog's
and the reviewer's checkout's part in the gate can only refuse, and a refusal
is `Abort`. `acceptedAs` is a history variable.

Nothing in the code keeps two commands on one task apart. `OneCommandPerTask`
says that they do not overlap, `OneCreate` that two creates do not, and
`Undisturbed` is both; commands of any number of processes on different tasks
may interleave freely.

### Delivery

What the task store promises, with each command as one step: a task is
admitted while there is room and its agent is free, a version of its
deliverable is approved and perhaps withdrawn again, the task is accepted as a
version that is approved at that moment, and is then delivered or cancelled.
`TaskStore` implements it under the mapping `Stages`, `Owners`, `Approvals`:
the stage is the state in `task.json`, an approval a completed Review Record
that passed, of a completed assignment. The step that counts is the write of
`task.json` (admit, accept, deliver, cancel) or of a review's files (approve,
withdraw); deciding, collecting, directories and projections are stutters. So
whatever a command decided some steps ago is still right when it is written.

### Dispatch

One assignment, because the store locks by task and every command names one.
`append_attempt`, `set_status` and `write_review_record` each take the locks
and read the status again, so each is one step; everything between them is
interleaved. `inFlight` are posts that Discord has not dealt with: they may
land or be lost at any later moment, also after the sender gave up, which is
the case reconciliation exists for. An HTTP error status means that Discord
did not take the message (A007:192). `at` stands for `resolved_at`: how many
answers were in the thread then, because only later ones are admitted.
`taskFits` is what `_validate_binding` finds; the task may leave the state its
phase works in and come back. A verdict "inconclusive" does here what
"changes_requested" does, so a verdict is one value. The check for an open
attempt is outside the lock; `OneDispatch` says that no two dispatches overlap,
while reconcile and sync may run at any time.

### Postbox

What a dispatch promises, without statuses, commands or a log: each message is
`unused`, `announced`, `posted` and then `arrived` or `gone`; it is posted at
most once, and only what arrived is ever `confirmed`. `Dispatch` implements it
under the mapping `Fate` and `Confirmed`: an attempt without a row is unused,
one in the channel has arrived, one that Discord has not dealt with is posted,
one whose sender is between its pending row and the request is announced, any
other is gone (its sender died or was told that it did not go out). Rows of
state `delivered` confirm. Everything else the commands do is a stutter.

### Assignments

One `assignment-prepare` is the handoff, then the checks without the lock
(`Check`), those with it (`Acquire`), and three writes under it
(`MakeDirectories`, `WriteAssignment`, `WriteBrief`). The handoff of a code task
publishes the review ref, which Git pushes whole (`BeginCodeReview`), and moves
the checkout of the agent that was named (`CheckoutSubject`), a reviewer or not:
the role is checked later. When it is the checkout of a task's owner, its HEAD
is what that task delivers from then on.

The handoff of any other task is `snapshot_task_artifact`, line by line: the
digest of `report.md` (`BeginArtifactReview`), the comparison of a snapshot that
is there (`CompareSnapshot`), a second look whether it is there
(`LookForSnapshot`), and `copyfile`, which opens the report as it is by then and
an empty file (`OpenSnapshot`) and fills it (`FillSnapshot`) or not
(`StopCopying`). The report may be rewritten between any two of these, another
handoff or a prune may be about the same file, and the process may die.
`damaged` are the snapshots that do not hold what their digest names. `spoilt`
is a history variable: those whose copying was disturbed in one of the three
ways named above `BeginArtifactReview`, until a later command, alone, finds the
file to be right; no command reads it, but it tells `FillSnapshot` whether another
copy may have got in the way. `SubjectRetained` says that nothing else damages a subject and
nothing but prune removes it.

Prune takes no lock. What dispatch does to an assignment is here `Progress`,
any change that `set_status` allows; that prune refuses while an attempt is open
is left out for that reason, so prune can do more here than in the code.
The tasks share one repository, so a reviewer has one checkout for all.

### Engagement

What prepare and prune promise, with each as one step, without locks, files or
statuses: an order is given under a new ID to an agent without an open order, in
a task nobody works on, and a review only of a subject that is kept; an order is
finished once and never changes; a review is over when it is recorded and its
task closed; a subject is discarded when every review of it is over. Of artifacts
alone the environment may spoil the copying (`Spoil`), and for a spoilt one
Engagement promises neither that it is kept nor that it was kept when the order
was given, until somebody confirms it (`Confirm`).
`Assignments` implements it under `Orders`, `OpenOrders`, `OverReviews` and
`published \ damaged` for what is kept: the
order is what `assignment.json` says without its status, open while the status
is unfinished. `WriteAssignment` gives, `Progress` finishes or stutters,
`BeginCodeReview` and `FillSnapshot` keep, `PruneSubject` discards, and `WriteReviewRecord` or the
closing of the task, whichever comes last, ends a review.

### Deploy

A revision stands for a content of `catalog.yaml` and for everything rendered
from it. Secrets, isolation and workload are the three phases in the code's
order; each is applied (`Apply`, or `ApplyFails` with nothing, part or all of it
done) and then marked in `metadata.json`. `performed` is a history variable.
Rollback applies isolation and workload of a snapshot and replaces the catalog
last. `Edit` is a person with an editor. Nothing locks the cluster;
`OneApplies` says that at most one command is between its first apply and its
last mark (or, in a rollback, its catalog). Snapshots are made and plans
written by any number of processes meanwhile.

### Worktree

One agent with `NumGrants` repositories. `materialize` goes through the grants:
clone, set-url, fetch and switch are steps, and a failure at any of them ends in
`Undo`, which removes what this call created. A directory in which clone or
rmtree was stopped is `Partial`. `cleanup_task` verifies all grants and then
cleans, detaches and deletes the branch of each; `retire_agent` removes the
worktree. The agent edits all the time (`Work`) but leaves branches and origin
alone. Commits on a branch are not modelled: `git branch -D` of a closed task
also drops those made after the delivery. `OneCommand` says that no two commands
on the agent's worktree overlap; which processes run them is left open.

### Backup

`create` copies the components in order, each in whatever content it has then
(other commands go on writing), and writes the manifest last. `restore` verifies,
stages each component, checks all destinations (`CheckDestinations`), installs
one after another (`Install`), and on a failure removes what it installed, last
first, passing over a removal that fails. A removal that fails or dies
(`PartlyRemove`) leaves any part of a directory; `remains` are the components of
which such a part is left. `os.walk` in `create` is called without `onerror`, so
a directory that cannot be listed is passed over and the manifest is written all
the same: `CopyComponent` takes what is found (`found`) but for what lies in such
directories (`overlooked`). `Replaceable` is what `os.replace` accepts: a file
takes the place of a file, and a directory that of an empty directory. A file stands for its name and its
bytes, so a file that changed is another file. People put things where a
component is to go at any time (`Appear`), clear a restored component away
(`Clear`, with no restore running), and backups change on their medium
(`Decay`, not while that backup is being restored). The model has any number of
components, of which some are single files (the catalog); the code has four.
`found`, `overlooked`, `late`, `remains`, `interrupted` and the field `from` of a
destination are history.

### Catalog

The file is data: `Documents` are the contents that somebody may give it,
`Valid` is `validate_catalog`, `Normalized` is what it returns (paths with their
links followed, `Real`), and `Edit` replaces one valid content by another, since
a command that loads an invalid one does nothing. `Rendered` is what a pod is
given of its entry (of the mounts, those of the grants), `RollOut` a deploy that
reaches one workload. `Hears` is
`evaluate_message`, which states in code the rule that the pods, configured with
`Rendered`, follow. `CreateTask`, `Prepare` and `Dispatch` are the catalog's
part of those commands. A dispatch loads the catalog (`BeginDispatch`), then runs
preflight and preview while people edit and roll out, and then checks and posts
by the catalog in hand (`held`), or stops (`StopDispatch`): `TaskBound` is `validate_task_catalog_binding`,
`TargetBound` the comparison in `_validate_binding`. `TaskStore`, `Assignments`
and `Dispatch` have the rest of them; what a task and an assignment copy from
the catalog is here, what they do with it is there.

## 3. The runs

Every run finishes in under three minutes with two workers, if nothing else
keeps the machine busy.

| Run | Instance | States | Shows |
|---|---|---|---|
| `task_gate` | 3 tasks, 3 agents, limit 2, 2 writers (`Undisturbed`), 2 versions, 2 reviews | 386 thousand, up to symmetry | the life of a task with crashes: the acceptance gate, closures, projections, legal steps; the limits through crashes and retries; `TaskStore` implements `Delivery` |
| `task_race` | 2 tasks, 2 agents, 2 writers | violated | two creates are both admitted |
| `dispatch_pair` | 2 processes, 2 attempts, 2 answers | 851 thousand, up to symmetry | write-ahead, real deliveries, provenance; `Dispatch` implements `Postbox` |
| `dispatch_live` | 1 process, 3 attempts, 2 answers each, no crash, fair | 453 thousand | one open attempt; reconciliation ends |
| `dispatch_duplicate` | 1 process, 3 attempts | violated | a delivered message is sent again |
| `dispatch_stranded` | 1 process, 3 attempts | violated | a crash leaves an attempt that no command can settle |
| `assignment_flow` | 2 processes, 2 tasks, 2 assignments, 1 reviewer | 935 thousand, up to symmetry | one unfinished assignment per agent; subjects kept, and damaged by nothing but their copying; prune only after closing; `Assignments` implements `Engagement` |
| `reviewer_head` | 1 process, 2 versions | violated | a refused handoff moves another review's checkout |
| `deploy_rollback` | 2 processes (`OneApplies`), 2 revisions, 2 snapshots | 667 thousand, up to symmetry | honest metadata, restore point, isolation before workload, rollback's catalog |
| `worktree_grants` | 2 processes (`OneCommand`), 2 grants, 2 tasks | 212 thousand, up to symmetry | nothing found is lost; the registry is true |
| `backup_restore` | 2 processes, 3 components (one a file), 2 backups, 3 files | 421 thousand, up to symmetry | what is restored is sound; all or nothing; no mixture; others' files kept |
| `catalog_rules` | 3 agents, 4 accounts, 3 channels, 2 links; 2,591 files, of which 19 give different valid catalogs | 73 thousand | one listener; workspaces apart; dispatched messages arrive, and nowhere else once the pods follow |

### Why these bounds are enough

- `task_gate`: acceptance looks at one task; two versions tell "reviewed" from
  "moved since", and two reviews tell the latest from an older one (a pass
  followed by changes requested, a superseded review followed by a new one).
  Several tasks only meet in the limits, so `AdmissionOrOneTask` lets either
  one task live its whole life or three (one more than the limit admits) be
  created and moved about, with the kinds and notes that admission does not
  read kept fixed. Two writers are two commands on two tasks; `Undisturbed`
  keeps a second one off the same task and out of a create, which is
  `task_race`.
- `dispatch_pair`: the races are between two commands on one assignment; two
  attempts are a message and its resend, and two answers are an acknowledgement
  and a completion, in one thread or in two (`TwoAnswers`). The task fits its
  phase throughout: a task that does not only disables commands, so it makes
  nothing reachable; the runs with one process let it come and go. Three
  attempts in `dispatch_live` leave room for not-found, resend and unknown again.
- `assignment_flow`: two prepares for one agent in two tasks are the race that
  the lock is there for, with a third command's leftovers on the disk.
  `FewSteps` leaves out three statuses that go where another one goes, and
  requests that the first check refuses. `OneAtATime` keeps two long stories
  apart: either the handoffs of an artifact, two at a time, in two versions,
  rewritten and stopped anywhere (`OnlyArtifacts`), or executions, reviews of
  code and prunes beside snapshots that are done and undisturbed (`Calm`). A
  behaviour may go from one to the other, and the proofs have no such bound.
- Processes, attempts, assignment IDs, snapshots and revisions are
  interchangeable (the code compares them and nothing more), so the runs with
  two processes, which check safety only, declare them as symmetric.
- `deploy_rollback`: one deploy to interrupt and one snapshot to go back to;
  two revisions make "the same" and "another" different. A second process
  snapshots, previews and begins at any time, but does not apply while the first
  does; that two applies at once break isolation is a fact about missing locks,
  and the proofs say which properties survive it.
- `worktree_grants`: two grants are the first time that a later one can fail
  after an earlier one succeeded; two tasks the first time that a checkout
  belongs to another task.
- `backup_restore`: three components are a first, a middle and a last one, one
  of them a single file; one create and one restore at a time. `OneInteresting`
  gives one component of one backup every content of its source and every
  damage, and the others an ordinary file, since no step compares two
  components. What cannot be listed holds one file (`f1`): a second would be
  left out in the same way. One destination at a time is somebody's own, and of
  the kind of the component that goes there, because the other kind stops
  `os.replace` like a full directory does. Two backups are what a mixture needs.
- `catalog_rules`: the files are a base catalog, the same without its reviewer,
  everything up to two edits of Discord fields or one edit of a worktree or
  its grants away, and the base with the accounts and channels of two agents
  exchanged; of these, the valid ones are what commands see. Two edits
  move a channel or a role from one agent to another. `TwoContents` lets the file
  alternate between the base and one other, with each pod rendered from either:
  a message only meets the content it was addressed by and the one its
  listeners were rendered from. One dispatch runs at a time; two of them are
  `Dispatch`'s.

`CHECK_DEADLOCK FALSE` stands where attempts, assignment IDs, snapshots, backup
or task IDs are used up. `worktree_grants` and `catalog_rules` check deadlock.

### Fairness

Only `dispatch_live` states fairness (`LiveSpec`, without crashes):

- weak fairness of `Step(p)`: a started command goes on; its HTTP calls have
  timeouts (`discord_api.py`), so none waits for ever;
- weak fairness of `BeginReconcile(p)`: the operator reconciles an assignment
  that says it needs it. This is a person's promise, not the code's;
- strong fairness of `Scan(p)`: reading the channel's history may fail, but not
  every time.

Nothing is assumed of dispatch, sync, Discord or the agent: a message may be in
flight for ever, an agent may never answer. `UnknownResolves` needs the absence
of crashes: one between the reconciled row and the status leaves an assignment
that reconcile refuses for ever (section 5).

## 4. The proofs

TLAPS proves the following for every value of the constants that satisfies the
named assumptions of each module (`TaskStoreAssumption`, `NoTaskAssumption`,
`DispatchAssumption`, `AssignmentsAssumption`, `NoAssignmentAssumption`,
`DeployAssumption`, `WorktreeAssumption`, `BackupAssumption`,
`CatalogAssumption`): mostly that the value for "nothing" is
none of the real ones, that the limit is at least one (the code's constructor
refuses less), and that a reviewer owns no task.

| Theorems | For | Argument |
|---|---|---|
| `TypeCorrect` of every module | any number of processes | `TypeOK` is inductive in TaskStore and Dispatch. In the others it needs what the command has achieved so far: `Cast` and `Admitted`, `Sound`, `CommandOK`; in Catalog, that whatever is in force was loaded (`FromCatalog`) |
| `LifecycleCorrect` | `[]OneCommandPerTask` | `Fresh`: the record that a command is about to write is a legal successor of the one on the disk, since nobody else writes that task's |
| `WipLimitCorrect` | `[]Undisturbed` | a task that a create is about to write still has room: other commands only make more. `WipLimit` alone is not inductive, because the check and the write are steps apart, and two creates do break it (`task_race`) |
| `AcceptedByReviewCorrect`, `ClosureJustifiedCorrect`, `ProjectionsFollowRecordCorrect` | `[]OneCommandPerTask` | `GateInv`: what a record on the disk, a record about to be written and a markdown file claim is justified by the Review Records and the version accepted. A review is only superseded while its task is in review, when no record rests on it; a claim outlives the step from accepted to closed because that keeps the version |
| `DeliveryImplemented` | `[]Undisturbed` | each action of `TaskStore` is a step of `Delivery` or a stutter under the mapping. `Fresh` and `GateInv` say that what a staged record claims (room, a review that passed) still holds when it is written; `StoreInv` adds that only accepted tasks have a version, and only recorded ones reviews |
| `WriteAheadCorrect` | any | `SendersLogged`: a command that sends or waits has its row |
| `DeliveredIsRealCorrect` | any | `ClaimsAreReal`: a command about to append "delivered" has seen that very message |
| `ResultHasProvenanceCorrect` | any | what a sync has read when it is about to complete the assignment: a delivered row and an answer after it, and neither is ever taken back, since the log and the threads only grow |
| `PostboxImplemented` | any | each action of `Dispatch` is a step of `Postbox` or a stutter under the mapping; the invariants say that an attempt being sent is in no other place, so it is posted once |
| `OneUnsettledCorrect` | `[]OneDispatch`, any other commands | `OwnUnsettled`: no attempt is open when a dispatch is about to write its pending row, and from then on none but its own; reconcile, sync and crashes open none |
| `AgentExclusiveCorrect` | any | `Admitted`: what prepare checked stays true as long as it holds the lock, since only the holder adds assignments and nothing finished becomes unfinished; `Cast`: one agent has one phase in a task |
| `SubjectRetainedCorrect`, `PrunedWhenClosedCorrect` | any | `KeptInv`: a task's directory is made once, so it has at most one assignment; the subject of a handoff is kept at least until that directory is there; a prune is about the one assignment of a closed task with its Review Record. `HandoffInv`: nobody else is about a snapshot that is not spoilt, so one that is about to be copied is not there yet, and one that is damaged is just being filled |
| `EngagementImplemented` | any | each action of `Assignments` is a step of `Engagement` or a stutter under the mapping: `Admitted` makes the checks hold at the write (`StillFree`), `KeptInv` has the subject there then and its only review over when it is pruned; an order's status is all that ever changes of it |
| `MetadataHonestCorrect`, `RestorePointFirstCorrect` | any | `Sound` (how far each deploy has come), `Apart` (no two deploys share a snapshot) and `Filled` (marks only where a catalog is) |
| `WorkloadUnderIsolationCorrect`, `CatalogFollowsClusterCorrect` | `[]OneApplies`, any other commands | `Under`: while a command is past isolation, the cluster's isolation is its revision, and a rollback still has the catalog it read. Another process can only break the first by an apply, and the second never: a copy only goes where no catalog was (`Fresh`) |
| `KeepsWhatItFoundCorrect`, `RegistryTruthfulCorrect` | `[]OneCommand`, any number of grants | `Progress`: what the loop over the grants has done for those before the current one, and that what a command found is not among what it created |
| `RestoredIsSoundCorrect` | any, also concurrent restores | `SoundInv`: what is verified is what is staged, what is staged is what is installed, and the manifest lists at least what create found and could list; a component that is restored and not among `remains` is as it was installed (`DestOK`) |
| `AllOrNothingCorrect`, `NoMixtureCorrect`, `OthersKeptCorrect` | one restore at a time, any number of components, creates and people | `AtomicInv`: behind the check, the destinations before the component at hand are from this backup and the others are not restored; what is somebody's own behind the check and would give way to `os.replace` is in `late`, the one exception |
| `OneListenerCorrect`, `WorkspacesApartCorrect` | any agents, accounts, channels, paths, links and edits | `Loaded`: the rules survive normalization, and a path is a prefix of all that lies below it, so what is below two directories that do not overlap does not overlap |
| `DispatchArrivesCorrect` | as above | `FromCatalog`: the catalog in hand is a loaded one, and an execution is for the owner of the task and names its mount point. The checks are against the very catalog that the hypothesis has the pods rendered from; that catalog trusts the leader, and gives no two agents one channel |

"One restore at a time" is the hypothesis `[]OneRestore`; two at once can mix
two backups or undo each other.

`OneCommandPerTask`, `Undisturbed`, `OneDispatch`, `OneApplies` and `OneCommand`
(section 2) are hypotheses about behaviours, `Spec /\ []H => ...`, not about the
number of processes: any number may run, as long as the commands named do not
overlap. It is how the manuals run the CLI (one leader, one operator), the code
does not enforce it, and without it these properties fail: `task_race` shows it
for `WipLimit`, section 5 tells of the others.
Crashes and failures of every step are included in all of them.

Every safety property and action property of the passing runs is proved. Only
model-checked: the liveness of reconciliation (`UnknownResolves`), since
fairness is outside TLAPS here, and the runs that expect a violation.

## 5. Where the code and its documents disagree

With a run whose counterexample shows it (`PROJECT.json`, "findings"):

| Run | The document | The code |
|---|---|---|
| `task_race` | a global limit of two tasks and one per agent (`docs/架構說明.md`:199) | `TaskStore.create` checks and writes without a lock |
| `dispatch_duplicate` | no dispatch after a delivered attempt (A007:321) | only pending and unknown attempts stop it |
| `dispatch_stranded` | a pending attempt left by a crash is treated as unknown and reconciled (A007:122) | dispatch refuses it, and reconcile refuses an assignment that is still prepared |
| `reviewer_head` | the reviewer's HEAD is still the exact commit at dispatch (A007:318) | the handoff moves it before any check, dispatch does not look |

Met while modelling, without a run of their own:

- The second assignment of a task always fails, although `CONTEXT.md`:115 has
  one or more reviews after an execution: prepare makes the task's directory
  without `exist_ok` (assignments.py:197).
- `deploy` applies Secrets before isolation (operations.py:237–258); the
  manuals say isolation first (`docs/架構說明.md`:181 and `docs/操作手冊.md`:330–332).
- `WorkspaceRegistry.upsert` turns a retired row active, although
  `clear_task` refuses that with "retired workspace cannot become active again"
  (registry.py:93).
- Two materializes at once: the second one's clone fails and its undo removes
  the checkout of the first, although the comment at worktree.py:198 says that
  only what this call created is removed. Hence `OneCommand` for
  `KeepsWhatItFound`.
- A crash between clone and set-url leaves a checkout that materialize refuses
  for ever; so does one in the middle of a clone. A crash between rmtree and
  the row, or a cleanup that fails at its second grant, leaves a worktree that
  neither retire nor cleanup can finish.
- After `assigned` → `active` (A007:414), `_validate_binding` refuses the sync
  that would complete the execution assignment, because it asks for the state
  of the phase.
- An agent whose task is closed with an unfinished assignment stays occupied:
  no command cancels an assignment.
- A crash after `review.json` and before the status: the next sync is refused
  with "already exists" for ever. A crash between a reconciled row and the
  status: reconcile finds no unknown attempt any more. Two reconciles at once
  can leave the status of one with the row of the other.
- A crash between `assignment.json` and `TASK.md` leaves an assignment that can
  be dispatched without a brief (A007:317 asks for the inbox); a prepare that
  fails after making the task's directory makes the task unassignable; a prepare
  that outlasts a prune writes the brief of a closed task again.
- A007:86, 173–174 and 267–268 bind a review to an immutable snapshot, and the
  first line of `artifacts.py` says so too. `snapshot_task_artifact` takes the digest
  from one reading of the report (artifacts.py:30) and the copy from another
  (40), and looks at no copy it has made: a report that is rewritten in between,
  a copy that stops, or two handoffs at once leave a file that is not what its
  name says. In the first case the assignment is made all the same, also by a
  second handoff that finds the file just after its own look at line 37; dispatch
  does not take the digest again, although gate 3 (A007:317) has it do so. Nothing repairs
  such a file: every later handoff of that report is refused with "already
  contains different content".
- An answer written before `resolved_at` is never admitted.
- A007:440 asks for the event `review_superseded` first and under the task lock;
  `_require_review_record` writes it last and without a lock. A007:121 asks for
  a check that the attempt is still pending; `append_attempt` checks the status
  of the assignment only.
- `deploy` copies `catalog.yaml` into the snapshot after it was rendered, so an
  edit in between saves another revision than the plan shows. A rollback may
  target such a snapshot, or one of a preview, never applies Secrets, and leaves
  no mark when it fails.
- `restore` stages in a directory next to the backups (backup.py:188) and moves
  from there with `os.replace`, which cannot cross file systems: a backup on an
  external disk (`docs/操作手冊.md`:283–287) has to be copied to a local
  `--backup-root` first. It fails cleanly, and nothing is lost.
- `docs/操作手冊.md`:282 says that restore only writes to absent or clean
  destinations; a file that appears where the catalog goes after the check, or an
  empty directory where a directory goes, is replaced, and removed if the
  restore is undone (`late`).
- A directory that `create` cannot list is silently missing from a backup that is
  sealed and verifies (backup.py:268), although a file that it cannot read makes it fail.
  An undo whose `rmtree` stops half way leaves a part of a component
  (backup.py:221–228).
- `create` accepts a file with a private key in it although
  `docs/本機部署實作.md`:220–225 says that it cannot pass; verify and restore
  refuse the finished backup. A file component that is itself a secret-named
  file gives a backup that cannot be restored.
- `docs/參考/catalog-契約.md`:156 forbids a worktree to overlap any collection root;
  the code compares an agent's worktree with its own roots only. Line 172
  forbids one checkout inside another; `validate_grants` compares checkouts of
  the same repository only, so two repositories may be granted under one
  checkout path and mounted there twice. `WorkspacesApart` states what does hold.
- While pods are rolled out one by one, a channel and an account that moved
  from one agent to another still belong to the old one's pod: a message that is
  dispatched by the new catalog is taken by the old holder. Nothing in the code
  compares pods and catalog before a dispatch; hence the hypotheses in `DispatchArrives`.
- A research execution on a write grant can be prepared (assignments.py:136, as
  A007:241 has it), but dispatch always refuses it (discord_dispatch.py:167) and
  its agent stays occupied, although gate 2 (A007:316) refuses only drift.
- For a review, dispatch does not compare the checkout path in the assignment
  with the reviewer's mount, so an edit of the mount in between is not noticed;
  hence the second part of `DispatchArrives` is about executions.

## 6. Not modelled

- Rules of the catalog about one scalar (the form of an ID, a path, a quantity,
  a Secret reference, credentials in strings) and the environment contract: they
  accept or refuse one value at a time and relate nothing.
- Manifests, AGENTS.md and the plan as text. What they carry of the catalog into
  a pod is in `Catalog`; that a plan comes from one content is in `Deploy`.
- Preflights, `status`, runtime conformance: they read and report.
- Scripts around the CLI: no state of their own.
- `events.jsonl` and the markdown of the registry: nothing reads them back
  to decide.
- Several agents in one registry file: a lost update between two of them is
  listed as a hazard and planned.
- Reading and staging a backup while somebody changes it: `Decay` waits.
- The assignment inbox and the leader's configuration file among the mounts
  (renderer.py:270–287): no workspace property is about them.
- What Git refuses in a handoff, beyond ending it: a dirty checkout, a wrong
  branch, a ref that is there with another commit.
- The manual case of reconciliation (more than one message with a nonce), which
  ends in an error for a person to settle.

## 7. Plan

The order follows what can lose or misrepresent work: first the gate and the
messages, then what is published and deployed, then what is kept.

1. Done: the modules of section 2 and their runs; type invariants and the
   properties of section 4; the refinements of `Delivery`, `Postbox` and
   `Engagement`.
   Every safety and action property of the passing runs is a theorem.
2. Next, if the model is to grow:
   - an abstract restore (all of one backup, or nothing) that `Backup`
     implements;
   - a second agent in the registry, with load, change and save as steps;
   - `TaskStore` composed with `Assignments`: the acceptance gate over
     assignments that prepare and prune really make.
