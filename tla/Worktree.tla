------------------------------- MODULE Worktree -------------------------------
(***************************************************************************)
(* The worktree of one agent (oab_control/worktree.py), its row in the     *)
(* workspace registry (registry.py), and the commands worktree-materialize,*)
(* worktree-cleanup and worktree-retire of cli.py: one independent clone   *)
(* for each grant of the agent, made or reused for a task, cleaned when    *)
(* the task is closed, removed when the agent retires.                     *)
(*                                                                         *)
(* Every Git command is a step that may fail, and the process may die      *)
(* before and after each.  The agent works in its checkouts all the time.  *)
(* A task stands for the branch it names.                                  *)
(***************************************************************************)
EXTENDS Integers, FiniteSets

CONSTANTS
    Procs,      \* CLI processes of the operator
    Tasks,      \* tasks, and their branches
    NumGrants,  \* repository grants of the agent
    NoTask

ASSUME WorktreeAssumption ==
    /\ NumGrants \in Nat \ {0}
    /\ NoTask \notin Tasks
    /\ "default" \notin Tasks /\ "detached" \notin Tasks

VARIABLES
    checkout,  \* the directory of each grant
    marker,    \* .oab-agent-worktree.json is in the agent's worktree
    row,       \* the agent's row in the workspace registry
    closed,    \* tasks that are closed
    command    \* what each process is in the middle of

vars == <<checkout, marker, row, closed, command>>
-----------------------------------------------------------------------------
Grants == 1 .. NumGrants

(* A directory that is not there, one that Git was stopped in, and a clone *)
(* with its origin, the branch it is on, its task branches, and what "git  *)
(* status" shows.                                                          *)
Absent == [kind |-> "absent"]
Partial == [kind |-> "partial"]
Repository ==
    [kind: {"repository"}, origin: {"source", "remote"},
     head: Tasks \union {"default", "detached"}, branches: SUBSET Tasks,
     changes: {"none", "untracked", "tracked"}]
Cloned == [kind |-> "repository", origin |-> "source", head |-> "default",
           branches |-> {}, changes |-> "none"]

IsRepository(g) == checkout[g].kind = "repository"
OnTask(g, t) == IsRepository(g) /\ checkout[g].head = t
Exist == {g \in Grants : checkout[g] # Absent}

NoRow == [status |-> "none", task |-> NoTask]
Row == [status: {"none", "active", "ready", "retired"}, task: Tasks \union {NoTask}]

Idle == [step |-> "idle"]
Steps == {"examine", "clone", "cloning", "origin", "fetch", "switch", "marker", "undo",
          "verify", "clean", "detach", "delete", "remove", "register"}
Command ==
    [kind: {"materialize", "cleanup", "retire"}, step: Steps, task: Tasks \union {NoTask},
     grant: Grants, created: SUBSET Grants, found: SUBSET Grants]

Goto(p, step) == command' = [command EXCEPT ![p].step = step]
Finish(p) == command' = [command EXCEPT ![p] = Idle]

(* The loop over the grants: the next one, or what comes after the last.   *)
NextGrant(p, first, after) ==
    LET c == command[p] IN
    command' = [command EXCEPT ![p] =
                  IF c.grant < NumGrants
                  THEN [c EXCEPT !.grant = c.grant + 1, !.step = first]
                  ELSE [c EXCEPT !.grant = 1, !.step = after]]

Init ==
    /\ checkout = [g \in Grants |-> Absent]
    /\ marker = FALSE
    /\ row = NoRow
    /\ closed = {}
    /\ command = [p \in Procs |-> Idle]

(* A command remembers, for the properties, which directories it found.    *)
Begin(p, kind, step, t) ==
    /\ command[p] = Idle
    /\ command' = [command EXCEPT ![p] =
                     [kind |-> kind, step |-> step, task |-> t, grant |-> 1,
                      created |-> {}, found |-> Exist]]
    /\ UNCHANGED <<checkout, marker, row, closed>>
-----------------------------------------------------------------------------
(* worktree-materialize.  Without --tasks-dir it asks for no task record.  *)

BeginMaterialize(p, t) == Begin(p, "materialize", "examine", t)

(* A directory that is already there is reused if its origin is right.     *)
ReusableWithAnyOrigin(g) == IsRepository(g)  \* mutant: the origin is not compared
Reusable(g) == IsRepository(g) /\ checkout[g].origin = "remote"

CreatedAll(c) == c.created \union {c.grant}  \* mutant: reused checkouts are counted as well
Created(c) == c.created \union {g \in {c.grant} : checkout[g] = Absent}

Examine(p) ==
    LET c == command[p] IN
    /\ c.step = "examine"
    /\ checkout[c.grant] # Absent => Reusable(c.grant)
    /\ command' = [command EXCEPT
                     ![p].created = Created(c),
                     ![p].step = IF checkout[c.grant] = Absent THEN "clone" ELSE "fetch"]
    /\ UNCHANGED <<checkout, marker, row, closed>>

(* git clone makes the directory and fills it; it fails if somebody else   *)
(* made it in the meantime.                                                *)
Clone(p) ==
    LET c == command[p] IN
    /\ c.step = "clone"
    /\ checkout[c.grant] = Absent
    /\ checkout' = [checkout EXCEPT ![c.grant] = Partial]
    /\ Goto(p, "cloning")
    /\ UNCHANGED <<marker, row, closed>>

FinishClone(p) ==
    LET c == command[p] IN
    /\ c.step = "cloning"
    /\ checkout[c.grant] = Partial
    /\ checkout' = [checkout EXCEPT ![c.grant] = Cloned]
    /\ Goto(p, "origin")
    /\ UNCHANGED <<marker, row, closed>>

SetOrigin(p) ==
    LET c == command[p] IN
    /\ c.step = "origin"
    /\ IsRepository(c.grant)
    /\ checkout' = [checkout EXCEPT ![c.grant].origin = "remote"]
    /\ Goto(p, "fetch")
    /\ UNCHANGED <<marker, row, closed>>

(* After the fetch: a checkout with changes is not moved to another branch.*)
Fetch(p) ==
    LET c == command[p] IN
    /\ c.step = "fetch"
    /\ IsRepository(c.grant)
    /\ checkout[c.grant].changes = "none" \/ OnTask(c.grant, c.task)
    /\ IF OnTask(c.grant, c.task) THEN NextGrant(p, "examine", "marker")
                                  ELSE Goto(p, "switch")
    /\ UNCHANGED <<checkout, marker, row, closed>>

(* git switch, with --create if there is no such branch; it takes along    *)
(* what the agent changed since the check, or fails.                       *)
Switch(p) ==
    LET c == command[p] IN
    /\ c.step = "switch"
    /\ IsRepository(c.grant)
    /\ checkout' = [checkout EXCEPT ![c.grant].head = c.task,
                                    ![c.grant].branches = @ \union {c.task}]
    /\ NextGrant(p, "examine", "marker")
    /\ UNCHANGED <<marker, row, closed>>

WriteMarker(p) ==
    /\ command[p].step = "marker"
    /\ marker' = TRUE
    /\ Goto(p, "register")
    /\ UNCHANGED <<checkout, row, closed>>

(* Upsert replaces the row, whatever it says.                              *)
RegisterActive(p) ==
    LET c == command[p] IN
    /\ c.step = "register" /\ c.kind = "materialize"
    /\ row' = [status |-> "active", task |-> c.task]
    /\ Finish(p)
    /\ UNCHANGED <<checkout, marker, closed>>

(* A check or a Git command of materialize fails, at any of its steps.     *)
MaterializeFails(p) ==
    /\ command[p].step \in {"examine", "clone", "cloning", "origin", "fetch", "switch", "marker"}
    /\ Goto(p, "undo")
    /\ UNCHANGED <<checkout, marker, row, closed>>

(* The except block removes what it created; a directory that cannot be    *)
(* removed, or not in time, stays, whole or in part.                       *)
Undo(p) ==
    LET c == command[p] IN
    /\ c.step = "undo"
    /\ \E whole, part \in SUBSET (c.created \intersect Exist) :
          checkout' = [g \in Grants |->
                         IF g \notin c.created \/ g \in whole THEN checkout[g]
                         ELSE IF g \in part THEN Partial ELSE Absent]
    /\ Finish(p)
    /\ UNCHANGED <<marker, row, closed>>
-----------------------------------------------------------------------------
(* worktree-cleanup of a closed task: first every checkout is verified,    *)
(* then each is cleaned, detached at its base and loses the task branch.   *)

BeginCleanup(p, t) ==
    /\ t \in closed
    /\ Exist = Grants
    /\ Begin(p, "cleanup", "verify", t)

Verify(p) ==
    LET c == command[p] IN
    /\ c.step = "verify"
    /\ OnTask(c.grant, c.task)
    /\ checkout[c.grant].changes # "tracked"
    /\ NextGrant(p, "verify", "clean")
    /\ UNCHANGED <<checkout, marker, row, closed>>

(* git fetch and git clean -fd.                                            *)
Clean(p) ==
    LET c == command[p] IN
    /\ c.step = "clean"
    /\ IsRepository(c.grant)
    /\ checkout' = [checkout EXCEPT ![c.grant].changes =
                      IF @ = "tracked" THEN @ ELSE "none"]
    /\ Goto(p, "detach")
    /\ UNCHANGED <<marker, row, closed>>

Detach(p) ==
    LET c == command[p] IN
    /\ c.step = "detach"
    /\ IsRepository(c.grant)
    /\ checkout' = [checkout EXCEPT ![c.grant].head = "detached"]
    /\ Goto(p, "delete")
    /\ UNCHANGED <<marker, row, closed>>

(* git branch -D, whatever was committed to the branch.                    *)
DeleteBranch(p) ==
    LET c == command[p] IN
    /\ c.step = "delete"
    /\ IsRepository(c.grant)
    /\ c.task \in checkout[c.grant].branches /\ checkout[c.grant].head # c.task
    /\ checkout' = [checkout EXCEPT ![c.grant].branches = @ \ {c.task}]
    /\ NextGrant(p, "clean", "register")
    /\ UNCHANGED <<marker, row, closed>>

ClearedRowKeepsTask == [row EXCEPT !.status = "ready"]  \* mutant: the task stays in the row
ClearedRow == [status |-> "ready", task |-> NoTask]

RegisterReady(p) ==
    LET c == command[p] IN
    /\ c.step = "register" /\ c.kind = "cleanup"
    /\ row.status \notin {"none", "retired"}
    /\ row' = ClearedRow
    /\ Finish(p)
    /\ UNCHANGED <<checkout, marker, closed>>
-----------------------------------------------------------------------------
(* worktree-retire: the whole worktree goes, then the row says so.         *)

BeginRetire(p) == marker /\ Begin(p, "retire", "remove", NoTask)

RemoveTree(p) ==
    /\ command[p].step = "remove"
    /\ checkout' = [g \in Grants |-> Absent]
    /\ marker' = FALSE
    /\ Goto(p, "register")
    /\ UNCHANGED <<row, closed>>

(* rmtree stops in the middle.                                             *)
RemoveFails(p) ==
    /\ command[p].step = "remove"
    /\ \E whole, part \in SUBSET Exist :
          checkout' = [g \in Grants |-> IF g \in whole THEN checkout[g]
                                        ELSE IF g \in part THEN Partial ELSE Absent]
    /\ marker' \in {marker, FALSE}
    /\ Finish(p)
    /\ UNCHANGED <<row, closed>>

RegisterRetired(p) ==
    /\ command[p].step = "register" /\ command[p].kind = "retire"
    /\ row # NoRow
    /\ row' = [status |-> "retired", task |-> NoTask]
    /\ Finish(p)
    /\ UNCHANGED <<checkout, marker, closed>>
-----------------------------------------------------------------------------
(* A command ends: it dies, its registry file cannot be written or was not *)
(* asked for, or a check or Git command of cleanup fails.                  *)
Abort(p) ==
    /\ command[p] # Idle
    /\ Finish(p)
    /\ UNCHANGED <<checkout, marker, row, closed>>

(* The agent and people work in a checkout, and deliver what they did; the *)
(* agent leaves branches and origin as they are.                           *)
Work(g, changes) ==
    /\ IsRepository(g)
    /\ checkout' = [checkout EXCEPT ![g].changes = changes]
    /\ UNCHANGED <<marker, row, closed, command>>

CloseTask(t) ==
    /\ t \notin closed
    /\ closed' = closed \union {t}
    /\ UNCHANGED <<checkout, marker, row, command>>

Materialize(p) ==
    \/ \E t \in Tasks : BeginMaterialize(p, t)
    \/ Examine(p) \/ Clone(p) \/ FinishClone(p) \/ SetOrigin(p) \/ Fetch(p) \/ Switch(p)
    \/ WriteMarker(p) \/ RegisterActive(p) \/ MaterializeFails(p) \/ Undo(p)

Cleanup(p) ==
    \/ \E t \in Tasks : BeginCleanup(p, t)
    \/ Verify(p) \/ Clean(p) \/ Detach(p) \/ DeleteBranch(p) \/ RegisterReady(p)

Retire(p) == BeginRetire(p) \/ RemoveTree(p) \/ RemoveFails(p) \/ RegisterRetired(p)

Proc(p) == Materialize(p) \/ Cleanup(p) \/ Retire(p) \/ Abort(p)

People ==
    \/ \E g \in Grants, changes \in {"none", "untracked", "tracked"} : Work(g, changes)
    \/ \E t \in Tasks : CloseTask(t)

Next == (\E p \in Procs : Proc(p)) \/ People

Spec == Init /\ [][Next]_vars
-----------------------------------------------------------------------------
(* Type invariant.  The second part says that a checkout is on a branch    *)
(* that it has, and that only an active row names a task.                  *)
TypeOK ==
    /\ checkout \in [Grants -> Repository \union {Absent, Partial}]
    /\ marker \in BOOLEAN
    /\ row \in Row
    /\ closed \in SUBSET Tasks
    /\ command \in [Procs -> Command \union {Idle}]
    /\ \A g \in Grants : IsRepository(g) /\ checkout[g].head \in Tasks =>
          checkout[g].head \in checkout[g].branches
    /\ row.task # NoTask <=> row.status = "active"

(* Nothing in worktree.py locks an agent's worktree.  The two properties    *)
(* below are about commands that do not overlap: OneCommand at any time.   *)
OneCommand == \A p, q \in Procs : command[p] # Idle /\ command[q] # Idle => p = q

(* worktree.py, materialize: "A pre-existing checkout is never silently    *)
(* reset or deleted", and cleanup_task: "Tracked edits are never discarded *)
(* implicitly": a checkout that a materialize or a cleanup found when it   *)
(* began outlives every step of it, its undo included, with its tracked    *)
(* edits and with the branch of every task that is not closed.             *)
KeepsWhatItFound ==
    [][\A p \in Procs :
          command[p] # Idle /\ command[p].kind # "retire" /\ command'[p] # command[p] =>
              \A g \in command[p].found :
                  /\ checkout'[g] # Absent
                  /\ IsRepository(g) =>
                        /\ checkout'[g].kind = "repository"
                        /\ checkout[g].changes = "tracked" => checkout'[g].changes = "tracked"
                        /\ checkout[g].branches \ closed \subseteq checkout'[g].branches]_vars

(* What is written to the registry is true at that moment of every grant:  *)
(* an active row, that each checkout is on the task's branch with the      *)
(* delivery remote as its origin, although an earlier command may have     *)
(* died half way; a ready row, that each has left the cleaned task's       *)
(* branch and lost it; a retired row, that nothing is left.                *)
RegistryTruthful ==
    [][row' # row =>
          CASE row'.status = "active"  ->
                 \A g \in Grants : OnTask(g, row'.task) /\ checkout[g].origin = "remote"
            [] row'.status = "ready"   ->
                 \E p \in Procs : /\ command[p] # Idle /\ command[p].kind = "cleanup"
                                  /\ \A g \in Grants :
                                        /\ OnTask(g, "detached")
                                        /\ command[p].task \notin checkout[g].branches
            [] row'.status = "retired" -> ~marker /\ Exist = {}]_vars
=============================================================================
