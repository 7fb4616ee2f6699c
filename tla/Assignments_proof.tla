--------------------------- MODULE Assignments_proof ---------------------------
(***************************************************************************)
(* Module Assignments, for any number of tasks, agents, assignments and    *)
(* processes: its type invariant; that an agent never has two unfinished   *)
(* assignments; that prune only removes what is no longer needed; and that *)
(* it implements Engagement.                                               *)
(*                                                                         *)
(* AgentExclusive is not inductive: prepare writes assignment.json some    *)
(* steps after it looked at the other assignments.  What carries it over   *)
(* is that the checks stay true while the lock is held (Admitted), because *)
(* only the holder makes assignments and none of the others can become     *)
(* unfinished again; and that one agent has one phase in a task (Cast).    *)
(*                                                                         *)
(* SubjectRetained is not inductive either: handoff and prune are several  *)
(* steps without a lock.  KeptInv says what ties them together.            *)
(***************************************************************************)
EXTENDS Assignments, TLAPS

(* What every step says of the subjects, it says of their three variables. *)
USE DEF subjects

(* An execution is its task's owner's, a review is a reviewer's; and what  *)
(* is copied is an artifact.                                               *)
Fits(x) ==
    /\ x.phase = "execution" => x.agent = Owner[x.task]
    /\ x.phase = "review" => x.agent \in Reviewers

CopiesArtifact(c) == c.phase = "review" /\ c.task \notin CodeTasks /\ c.subject \in Versions

Cast ==
    /\ \A i \in Existing : Fits(assignment[i])
    /\ \A p \in Procs :
          /\ command[p].step \in {"lock"} \union Holding => Fits(command[p])
          /\ command[p].step \in Copying => CopiesArtifact(command[p])
          /\ command[p].step = "checkout" => command[p].subject \in Versions

(* What prepare checked still holds as long as it has the lock.            *)
Admitted ==
    \A p \in Procs :
        /\ command[p].step \in Holding => command[p].id \in Ids
        /\ command[p].step \in {"root", "record"} =>
              /\ command[p].id \notin Existing
              /\ NoWorkInTask(command[p].task, command[p].phase)
              /\ AgentIdle(command[p].task, command[p].agent)

IInv == TypeOK /\ Cast /\ Admitted /\ AgentExclusive
-----------------------------------------------------------------------------
(* What is left of the command of each process by the ways a step changes  *)
(* it: it begins, goes on, or ends.                                        *)
LEMMA StartType ==
    ASSUME TypeOK, NEW p \in Procs, NEW s \in Preparing \union {"prune_subject"},
           NEW t \in Tasks, NEW ph \in {"execution", "review"}, NEW a \in Agents,
           NEW v \in Versions \union {NoVersion}, Start(p, s, t, ph, a, v)
    PROVE  /\ command' \in [Procs -> Command \union {Idle}]
           /\ command'[p].step = s /\ command'[p].task = t
           /\ command'[p].phase = ph /\ command'[p].subject = v
           /\ \A q \in Procs \ {p} : command'[q] = command[q]
  BY DEF Start, TypeOK, Command

(* A process that is not idle has a full command.                          *)
LEMMA BusyCommand ==
    ASSUME TypeOK, NEW p \in Procs, command[p] # Idle
    PROVE  command[p] \in Command
  BY DEF TypeOK

(* The steps of a command are not the idle one.                            *)
LEMMA NotIdle ==
    ASSUME NEW p \in Procs, command[p].step # "idle"
    PROVE  command[p] # Idle
  BY DEF Idle

(* A command that goes on changes its step only.                           *)
LEMMA GotoType ==
    ASSUME TypeOK, NEW p \in Procs, command[p] # Idle,
           NEW s \in Preparing \union Holding \union {"prune_subject"}, Goto(p, s)
    PROVE  /\ command' \in [Procs -> Command \union {Idle}]
           /\ command'[p].step = s
           /\ command'[p].id = command[p].id
           /\ command'[p].task = command[p].task
           /\ command'[p].phase = command[p].phase
           /\ command'[p].agent = command[p].agent
           /\ command'[p].subject = command[p].subject
           /\ \A q \in Procs \ {p} : command'[q] = command[q]
  <1>1. command[p] \in Command
    BY BusyCommand
  <1>2. [command[p] EXCEPT !.step = s] \in Command
    BY <1>1 DEF Command
  <1>3. command' = [command EXCEPT ![p] = [command[p] EXCEPT !.step = s]]
    BY DEF Goto
  <1>4. /\ command' \in [Procs -> Command \union {Idle}]
        /\ command'[p] = [command[p] EXCEPT !.step = s]
        /\ \A q \in Procs \ {p} : command'[q] = command[q]
    BY <1>2, <1>3 DEF TypeOK
  <1> QED
    BY <1>1, <1>4 DEF Command

(* A command that ends leaves its process idle.                            *)
LEMMA FinishType ==
    ASSUME TypeOK, NEW p \in Procs, Finish(p)
    PROVE  /\ command' \in [Procs -> Command \union {Idle}]
           /\ command'[p] = Idle /\ command'[p].step = "idle"
           /\ \A q \in Procs \ {p} : command'[q] = command[q]
  BY DEF Finish, TypeOK, Idle
-----------------------------------------------------------------------------
(* A step that leaves assignment.json alone, and takes no command to a     *)
(* step the invariant speaks of, but for copying an artifact.              *)
LEMMA Elsewhere ==
    ASSUME Cast, Admitted, AgentExclusive, assignment' = assignment,
           \A q \in Procs : \/ command'[q] = command[q]
                            \/ command'[q].step \in {"check", "prune_subject", "idle"}
                            \/ command'[q].step = "checkout" /\ command'[q].subject \in Versions
                            \/ command'[q].step \in Copying /\ CopiesArtifact(command'[q])
    PROVE  Cast' /\ Admitted' /\ AgentExclusive'
  <1>1. Existing' = Existing /\ Unfinished' = Unfinished
    BY DEF Existing, Unfinished
  <1>2. \A q \in Procs : \/ command'[q] = command[q]
                         \/ /\ command'[q].step \notin {"lock"} \union Holding
                            /\ command'[q].step \in Copying => CopiesArtifact(command'[q])
                            /\ command'[q].step = "checkout" => command'[q].subject \in Versions
    BY DEF Copying, Filling, Holding
  <1>3. Cast'
    BY <1>1, <1>2 DEF Cast, Fits, CopiesArtifact
  <1>4. Admitted'
    BY <1>1, <1>2 DEF Admitted, Holding, NoWorkInTask, AgentIdle
  <1>5. AgentExclusive'
    BY <1>1 DEF AgentExclusive
  <1> QED
    BY <1>3, <1>4, <1>5

(* Beginning a command, or moving one about in front of the lock, keeps    *)
(* the types.                                                              *)
LEMMA BeginExecutionKeeps ==
    ASSUME IInv, NEW p \in Procs, NEW t \in Tasks, NEW a \in Agents, BeginExecution(p, t, a)
    PROVE  IInv'
  <1> USE DEF IInv
  <1>1. Start(p, "check", t, "execution", a, NoVersion) /\ command[p].step = "idle"
    BY DEF BeginExecution, Idle
  <1>2. /\ command' \in [Procs -> Command \union {Idle}]
        /\ command'[p].step = "check"
        /\ \A q \in Procs \ {p} : command'[q] = command[q]
    BY <1>1, StartType DEF Preparing
  <1>3. Cast' /\ Admitted' /\ AgentExclusive'
    BY <1>2, Elsewhere DEF BeginExecution
  <1>4. TypeOK'
    BY <1>1, <1>2 DEF BeginExecution, TypeOK, Existing, Holding
  <1> QED
    BY <1>3, <1>4

(* The handoff of a commit publishes it, before any check.                 *)
LEMMA BeginCodeReviewKeeps ==
    ASSUME IInv, NEW p \in Procs, NEW t \in Tasks, NEW a \in Agents, BeginCodeReview(p, t, a)
    PROVE  IInv'
  <1> USE DEF IInv
  <1>1. /\ Start(p, "checkout", t, "review", a, deliverable[t])
        /\ command[p].step = "idle" /\ deliverable[t] \in Versions
    BY DEF BeginCodeReview, Idle, TypeOK
  <1>2. /\ command' \in [Procs -> Command \union {Idle}]
        /\ command'[p].step = "checkout" /\ command'[p].subject \in Versions
        /\ \A q \in Procs \ {p} : command'[q] = command[q]
    BY <1>1, StartType DEF Preparing
  <1>3. Cast' /\ Admitted' /\ AgentExclusive'
    BY <1>2, Elsewhere DEF BeginCodeReview
  <1>4. \A q \in Procs : (command'[q].step \in Holding) <=> lock' = q
    BY <1>1, <1>2 DEF BeginCodeReview, TypeOK, Holding
  <1>5. published' \subseteq Tasks \X Versions /\ damaged' \subseteq published'
    BY <1>1 DEF BeginCodeReview, Publish, TypeOK
  <1>6. TypeOK'
    BY <1>2, <1>4, <1>5 DEF BeginCodeReview, TypeOK, Existing
  <1> QED
    BY <1>3, <1>6

(* The handoff of an artifact begins with a digest.                        *)
LEMMA BeginArtifactReviewKeeps ==
    ASSUME IInv, NEW p \in Procs, NEW t \in Tasks, NEW a \in Agents, BeginArtifactReview(p, t, a)
    PROVE  IInv'
  <1> USE DEF IInv
  <1>1. /\ Start(p, "compare", t, "review", a, deliverable[t])
        /\ command[p].step = "idle" /\ deliverable[t] \in Versions
    BY DEF BeginArtifactReview, Idle, TypeOK
  <1>2. /\ command' \in [Procs -> Command \union {Idle}]
        /\ command'[p].step = "compare" /\ command'[p].step \in Copying
        /\ command'[p].phase = "review"
        /\ command'[p].task = t /\ command'[p].subject = deliverable[t]
        /\ \A q \in Procs \ {p} : command'[q] = command[q]
    BY <1>1, StartType DEF Preparing, Copying
  <1>3. Cast' /\ Admitted' /\ AgentExclusive'
    <2>1. CopiesArtifact(command'[p])
      BY <1>1, <1>2 DEF BeginArtifactReview, CopiesArtifact
    <2> QED
      BY <1>2, <2>1, Elsewhere DEF BeginArtifactReview
  <1>4. \A q \in Procs : (command'[q].step \in Holding) <=> lock' = q
    BY <1>1, <1>2 DEF BeginArtifactReview, TypeOK, Holding
  <1>5. spoilt' \subseteq (Tasks \ CodeTasks) \X Versions
    BY <1>1 DEF BeginArtifactReview, TypeOK
  <1>6. TypeOK'
    BY <1>2, <1>4, <1>5 DEF BeginArtifactReview, TypeOK, Existing
  <1> QED
    BY <1>3, <1>6

(* A copy is a review's, of a task that delivers an artifact.              *)
LEMMA CopyIsArtifact ==
    ASSUME IInv, NEW p \in Procs, command[p].step \in Copying
    PROVE  /\ command[p] \in Command /\ command[p] # Idle
           /\ Subject(p) = <<command[p].task, command[p].subject>>
           /\ Subject(p) \in (Tasks \ CodeTasks) \X Versions
  <1>1. command[p] \in Command /\ command[p] # Idle
    BY BusyCommand, NotIdle DEF IInv, Copying, Filling
  <1>2. CopiesArtifact(command[p])
    BY DEF IInv, Cast
  <1> QED
    BY <1>1, <1>2 DEF Command, Subject, CopiesArtifact

(* The steps of a copy change what is known of its snapshot, and lead to   *)
(* the checks.                                                             *)
LEMMA CopyingKeeps ==
    ASSUME IInv, NEW p \in Procs,
           \/ CompareSnapshot(p) \/ LookForSnapshot(p) \/ OpenSnapshot(p)
           \/ FillSnapshot(p) \/ StopCopying(p)
    PROVE  IInv'
  <1> USE DEF IInv
  <1>1. /\ command[p].step \in Copying /\ command[p] # Idle
        /\ Subject(p) \in (Tasks \ CodeTasks) \X Versions
    BY CopyIsArtifact DEF CompareSnapshot, LookForSnapshot, OpenSnapshot, FillSnapshot, StopCopying,
       Copying, Filling
  <1>2. /\ command' \in [Procs -> Command \union {Idle}]
        /\ \/ command'[p].step \in {"check", "idle"}
           \/ command'[p].step \in Copying /\ CopiesArtifact(command'[p])
        /\ \A q \in Procs \ {p} : command'[q] = command[q]
    <2>1. CASE StopCopying(p)
      BY <2>1, FinishType DEF StopCopying
    <2>2. CASE ~StopCopying(p)
      <3>1. PICK s \in Copying \union {"check"} : Goto(p, s)
        BY <2>2 DEF CompareSnapshot, LookForSnapshot, OpenSnapshot, FillSnapshot, Copying, Filling
      <3>2. CopiesArtifact(command[p])
        BY <1>1 DEF Cast
      <3> QED
        BY <1>1, <3>1, <3>2, GotoType DEF Preparing, CopiesArtifact
    <2> QED
      BY <2>1, <2>2
  <1>3. /\ UNCHANGED <<taskState, deliverable, reviewerHead, rootDir, assignment, brief, reviewed,
                       lock>>
        /\ published' \subseteq published \union {Subject(p)}
        /\ damaged' \subseteq damaged \union {Subject(p)} /\ spoilt' \subseteq spoilt \union {Subject(p)}
        /\ damaged' \subseteq published'
    BY DEF CompareSnapshot, LookForSnapshot, OpenSnapshot, FillSnapshot, StopCopying, TypeOK
  <1>4. Cast' /\ Admitted' /\ AgentExclusive'
    BY <1>2, <1>3, Elsewhere
  <1>5. \A q \in Procs : (command'[q].step \in Holding) <=> lock' = q
    BY <1>1, <1>2, <1>3 DEF TypeOK, Holding, Copying, Filling
  <1>6. /\ published' \subseteq Tasks \X Versions /\ damaged' \subseteq published'
        /\ damaged' \union spoilt' \subseteq (Tasks \ CodeTasks) \X Versions
    <2>1. /\ published \subseteq Tasks \X Versions
          /\ damaged \union spoilt \subseteq (Tasks \ CodeTasks) \X Versions
      BY DEF TypeOK
    <2>2. Subject(p) \in Tasks \X Versions
      BY <1>1
    <2> QED
      BY <1>1, <1>3, <2>1, <2>2
  <1>7. /\ taskState' \in [Tasks -> TaskStates] /\ deliverable' \in [Tasks -> Versions]
        /\ reviewerHead' \in [Reviewers -> Versions \union {NoVersion}] /\ rootDir' \subseteq Tasks
        /\ assignment' \in [Ids -> Assignment \union {NoAssignment}]
        /\ brief' \subseteq Ids /\ reviewed' \subseteq Existing'
        /\ lock' \in Procs \union {NoProc}
    BY <1>3 DEF TypeOK, Existing
  <1>8. TypeOK'
    BY <1>2, <1>5, <1>6, <1>7 DEF TypeOK
  <1> QED
    BY <1>4, <1>8

(* The checkout moves a head, and the command on to the checks.            *)
LEMMA CheckoutSubjectKeeps ==
    ASSUME IInv, NEW p \in Procs, CheckoutSubject(p)
    PROVE  IInv'
  <1> USE DEF IInv
  <1>1. /\ command[p].step = "checkout" /\ command[p] # Idle /\ Goto(p, "check")
        /\ command[p] \in Command /\ command[p].subject \in Versions
    BY BusyCommand, NotIdle DEF CheckoutSubject, Cast
  <1>2. /\ command' \in [Procs -> Command \union {Idle}]
        /\ command'[p].step = "check"
        /\ \A q \in Procs \ {p} : command'[q] = command[q]
    BY <1>1, GotoType DEF Preparing
  <1>3. Cast' /\ Admitted' /\ AgentExclusive'
    BY <1>2, Elsewhere DEF CheckoutSubject
  <1>4. \A q \in Procs : (command'[q].step \in Holding) <=> lock' = q
    BY <1>1, <1>2 DEF CheckoutSubject, TypeOK, Holding
  <1>5. /\ reviewerHead' \in [Reviewers -> Versions \union {NoVersion}]
        /\ deliverable' \in [Tasks -> Versions]
    BY <1>1 DEF CheckoutSubject, TypeOK
  <1>6. TypeOK'
    BY <1>2, <1>4, <1>5 DEF CheckoutSubject, TypeOK, Existing
  <1> QED
    BY <1>3, <1>6

(* The checks made without the lock decide who may have the assignment.    *)
LEMMA CheckKeeps ==
    ASSUME IInv, NEW p \in Procs, Check(p)
    PROVE  IInv'
  <1> USE DEF IInv
  <1>1. command[p].step = "check" /\ command[p] # Idle /\ Goto(p, "lock")
    BY NotIdle DEF Check
  <1>2. /\ command' \in [Procs -> Command \union {Idle}]
        /\ command'[p].step = "lock"
        /\ command'[p].task = command[p].task
        /\ command'[p].phase = command[p].phase
        /\ command'[p].agent = command[p].agent
        /\ \A q \in Procs \ {p} : command'[q] = command[q]
    BY <1>1, GotoType DEF Preparing
  <1>3. Existing' = Existing /\ Unfinished' = Unfinished /\ assignment' = assignment
    BY DEF Check, Existing, Unfinished
  <1>4. Cast'
    BY <1>2, <1>3 DEF Cast, Fits, CopiesArtifact, Copying, Filling, Check
  <1>5. Admitted'
    BY <1>2, <1>3 DEF Admitted, Holding, NoWorkInTask, AgentIdle
  <1>6. AgentExclusive'
    BY <1>3 DEF AgentExclusive
  <1>7. \A q \in Procs : (command'[q].step \in Holding) <=> lock' = q
    BY <1>1, <1>2 DEF Check, TypeOK, Holding
  <1>8. TypeOK'
    BY <1>2, <1>3, <1>7 DEF Check, TypeOK
  <1> QED
    BY <1>4, <1>5, <1>6, <1>8
-----------------------------------------------------------------------------
(* The checks made with the lock are what Admitted remembers.              *)
LEMMA AcquireKeeps ==
    ASSUME IInv, NEW p \in Procs, NEW i \in Ids, Acquire(p, i)
    PROVE  IInv'
  <1> USE DEF IInv
  <1> DEFINE c == [command[p] EXCEPT !.step = "root", !.id = i]
  <1>1. /\ command[p].step = "lock" /\ command[p] \in Command
        /\ command' = [command EXCEPT ![p] = c]
    BY BusyCommand, NotIdle DEF Acquire
  <1>2. /\ c \in Command /\ c.step = "root" /\ c.id = i
        /\ c.task = command[p].task /\ c.phase = command[p].phase
        /\ c.agent = command[p].agent
    BY <1>1 DEF Command, Holding
  <1> HIDE DEF c
  <1>3. /\ command' \in [Procs -> Command \union {Idle}]
        /\ command'[p] = c
        /\ \A q \in Procs \ {p} : command'[q] = command[q]
    BY <1>1, <1>2 DEF TypeOK
  <1>4. Existing' = Existing /\ Unfinished' = Unfinished /\ assignment' = assignment
    BY DEF Acquire, Existing, Unfinished
  <1>5. Cast'
    BY <1>1, <1>2, <1>3, <1>4 DEF Cast, Fits, CopiesArtifact, Copying, Filling
  <1>6. Admitted'
    BY <1>2, <1>3, <1>4 DEF Acquire, Admitted, Holding, NoWorkInTask, AgentIdle
  <1>7. AgentExclusive'
    BY <1>4 DEF AgentExclusive
  <1>8. \A q \in Procs : (command'[q].step \in Holding) <=> lock' = q
    BY <1>2, <1>3, AssignmentsAssumption DEF Acquire, LockFree, TypeOK, Holding
  <1>9. TypeOK'
    BY <1>3, <1>4, <1>8 DEF Acquire, TypeOK
  <1> QED
    BY <1>5, <1>6, <1>7, <1>9

(* Making the directories keeps what the checks found.                     *)
LEMMA MakeDirectoriesKeeps ==
    ASSUME IInv, NEW p \in Procs, MakeDirectories(p)
    PROVE  IInv'
  <1> USE DEF IInv
  <1>1. /\ command[p].step = "root" /\ command[p] # Idle /\ Goto(p, "record")
        /\ command[p] \in Command
    BY BusyCommand, NotIdle DEF MakeDirectories
  <1>2. /\ command' \in [Procs -> Command \union {Idle}]
        /\ command'[p].step = "record"
        /\ command'[p].id = command[p].id
        /\ command'[p].task = command[p].task
        /\ command'[p].phase = command[p].phase
        /\ command'[p].agent = command[p].agent
        /\ \A q \in Procs \ {p} : command'[q] = command[q]
    BY <1>1, GotoType DEF Holding
  <1>3. Existing' = Existing /\ Unfinished' = Unfinished /\ assignment' = assignment
    BY DEF MakeDirectories, Existing, Unfinished
  <1>4. Cast'
    BY <1>1, <1>2, <1>3 DEF Cast, Fits, CopiesArtifact, Copying, Filling, Holding
  <1>5. Admitted'
    BY <1>1, <1>2, <1>3 DEF Admitted, Holding, NoWorkInTask, AgentIdle
  <1>6. AgentExclusive'
    BY <1>3 DEF AgentExclusive
  <1>7. \A q \in Procs : (command'[q].step \in Holding) <=> lock' = q
    BY <1>1, <1>2 DEF MakeDirectories, TypeOK, Holding
  <1>8. rootDir' \subseteq Tasks
    BY <1>1 DEF MakeDirectories, TypeOK, Command
  <1>9. TypeOK'
    BY <1>2, <1>3, <1>7, <1>8 DEF MakeDirectories, TypeOK
  <1> QED
    BY <1>4, <1>5, <1>6, <1>9

(* When the record is written, its agent has no unfinished assignment: not *)
(* in another task, and in this one only as somebody else.                 *)
LEMMA StillFree ==
    ASSUME IInv, NEW p \in Procs, command[p].step = "record"
    PROVE  \A j \in Unfinished : assignment[j].agent # command[p].agent
  <1> USE DEF IInv
  <1> DEFINE c == command[p]
  <1>1. /\ c \in Command /\ Fits(c)
        /\ NoWorkInTask(c.task, c.phase) /\ AgentIdle(c.task, c.agent)
    BY BusyCommand, NotIdle DEF Admitted, Cast, Holding
  <1> SUFFICES ASSUME NEW j \in Unfinished, assignment[j].agent = c.agent
               PROVE  FALSE
    OBVIOUS
  <1>2. j \in Existing /\ assignment[j] \in Assignment
    BY DEF Unfinished, Existing, TypeOK
  <1>3. assignment[j].task = c.task
    BY <1>1 DEF AgentIdle
  <1>4. assignment[j].phase = "review" /\ c.phase = "execution"
    BY <1>1, <1>2, <1>3 DEF NoWorkInTask, Assignment, Command
  <1>5. assignment[j].agent \in Reviewers /\ c.agent = Owner[c.task]
    BY <1>1, <1>2, <1>4 DEF Cast, Fits
  <1>6. c.task \in Tasks
    BY <1>1 DEF Command
  <1> QED
    BY <1>5, <1>6, AssignmentsAssumption

(* The one step that adds an assignment.  No process but p has the lock,   *)
(* so Admitted has nothing to say of the others.                           *)
LEMMA WriteAssignmentKeeps ==
    ASSUME IInv, NEW p \in Procs, WriteAssignment(p)
    PROVE  IInv'
  <1> USE DEF IInv
  <1> DEFINE c == command[p]
             new == [task |-> c.task, phase |-> c.phase, agent |-> c.agent,
                     subject |-> c.subject, status |-> "prepared"]
  <1>1. /\ c.step = "record" /\ c # Idle /\ Goto(p, "brief")
        /\ c \in Command /\ c.id \in Ids /\ c.id \notin Existing /\ Fits(c)
        /\ NoWorkInTask(c.task, c.phase) /\ AgentIdle(c.task, c.agent)
    BY BusyCommand, NotIdle DEF WriteAssignment, Admitted, Cast, Holding
  <1>2. /\ command' \in [Procs -> Command \union {Idle}]
        /\ command'[p].step = "brief"
        /\ command'[p].id = c.id
        /\ command'[p].task = c.task
        /\ command'[p].phase = c.phase
        /\ command'[p].agent = c.agent
        /\ \A q \in Procs \ {p} : command'[q] = command[q]
    BY <1>1, GotoType DEF Holding
  <1>3. /\ new \in Assignment /\ new # NoAssignment
        /\ new.task = c.task /\ new.phase = c.phase /\ new.agent = c.agent
        /\ new.status = "prepared"
    BY <1>1, NoAssignmentAssumption DEF Command, Assignment, STATUSES
  <1>4. assignment' = [assignment EXCEPT ![c.id] = new]
    BY DEF WriteAssignment
  <1> HIDE DEF new
  <1>5. /\ assignment' \in [Ids -> Assignment \union {NoAssignment}]
        /\ assignment'[c.id] = new
        /\ \A j \in Ids \ {c.id} : assignment'[j] = assignment[j]
    BY <1>1, <1>3, <1>4 DEF TypeOK
  <1>6. /\ Existing' = Existing \union {c.id}
        /\ Unfinished' = Unfinished \union {c.id}
    BY <1>1, <1>3, <1>5 DEF Existing, Unfinished, Finished
  <1>7. \A q \in Procs : (command'[q].step \in Holding) <=> lock' = q
    BY <1>1, <1>2 DEF WriteAssignment, TypeOK, Holding
  <1>8. \A q \in Procs \ {p} : command[q].step \notin Holding
    BY <1>1 DEF TypeOK, Holding
  <1>9. Cast'
    <2>1. \A j \in Existing' : Fits(assignment'[j])
      <3>1. Fits(new)
        BY <1>1, <1>3 DEF Fits
      <3>2. \A j \in Existing : j # c.id /\ j \in Ids /\ Fits(assignment[j])
        BY <1>1 DEF Cast, Existing
      <3> QED
        BY <1>5, <1>6, <3>1, <3>2
    <2>2. Fits(command'[p])
      BY <1>1, <1>2 DEF Fits
    <2>3. \A q \in Procs \ {p} :
            /\ command'[q].step \in {"lock"} \union Holding => Fits(command'[q])
            /\ command'[q].step \in Copying => CopiesArtifact(command'[q])
            /\ command'[q].step = "checkout" => command'[q].subject \in Versions
      BY <1>2 DEF Cast
    <2>4. command'[p].step \notin Copying \union {"checkout"}
      BY <1>2 DEF Copying, Filling
    <2> QED
      BY <2>1, <2>2, <2>3, <2>4 DEF Cast, Fits, CopiesArtifact
  <1>10. Admitted'
    <2>1. \A q \in Procs \ {p} : command'[q].step \notin Holding
      BY <1>2, <1>8
    <2>2. command'[p].id \in Ids /\ command'[p].step \notin {"root", "record"}
      BY <1>1, <1>2
    <2> QED
      BY <2>1, <2>2 DEF Admitted, Holding
  <1>11. \A j \in Unfinished : assignment[j].agent # c.agent
    BY StillFree DEF WriteAssignment
  <1>12. AgentExclusive'
    <2> SUFFICES ASSUME NEW i \in Unfinished', NEW j \in Unfinished',
                        assignment'[i].agent = assignment'[j].agent
                 PROVE  i = j
      BY DEF AgentExclusive
    <2>1. i \in Ids /\ j \in Ids
      BY DEF Unfinished, Existing
    <2>2. CASE i = c.id /\ j # c.id
      BY <1>3, <1>5, <1>6, <1>11, <2>1, <2>2
    <2>3. CASE i # c.id /\ j = c.id
      BY <1>3, <1>5, <1>6, <1>11, <2>1, <2>3
    <2>4. CASE i # c.id /\ j # c.id
      BY <1>5, <1>6, <2>1, <2>4 DEF AgentExclusive
    <2> QED
      BY <2>2, <2>3, <2>4
  <1>13. TypeOK'
    BY <1>2, <1>5, <1>6, <1>7 DEF WriteAssignment, TypeOK
  <1> QED
    BY <1>9, <1>10, <1>12, <1>13
-----------------------------------------------------------------------------
(* The commands that end: prepare's last step, prune's, and any of them    *)
(* in the middle.                                                          *)
LEMMA WriteBriefKeeps ==
    ASSUME IInv, NEW p \in Procs, WriteBrief(p)
    PROVE  IInv'
  <1> USE DEF IInv
  <1>1. command[p].step = "brief" /\ command[p].id \in Ids /\ lock = p
    BY DEF WriteBrief, Admitted, TypeOK, Holding
  <1>2. /\ command' \in [Procs -> Command \union {Idle}]
        /\ command'[p].step = "idle"
        /\ \A q \in Procs \ {p} : command'[q] = command[q]
    BY FinishType DEF WriteBrief
  <1>3. Cast' /\ Admitted' /\ AgentExclusive'
    BY <1>2, Elsewhere DEF WriteBrief
  <1>4. \A q \in Procs : (command'[q].step \in Holding) <=> lock' = q
    BY <1>1, <1>2, AssignmentsAssumption DEF WriteBrief, TypeOK, Holding
  <1>5. TypeOK'
    BY <1>1, <1>2, <1>4 DEF WriteBrief, TypeOK, Existing
  <1> QED
    BY <1>3, <1>5

(* A command that dies lets the lock go and stages nothing.                *)
LEMMA AbortKeeps ==
    ASSUME IInv, NEW p \in Procs, Abort(p)
    PROVE  IInv'
  <1> USE DEF IInv
  <1>2. /\ command' \in [Procs -> Command \union {Idle}]
        /\ command'[p].step = "idle"
        /\ \A q \in Procs \ {p} : command'[q] = command[q]
    BY FinishType DEF Abort
  <1>3. Cast' /\ Admitted' /\ AgentExclusive'
    BY <1>2, Elsewhere DEF Abort
  <1>4. \A q \in Procs : (command'[q].step \in Holding) <=> lock' = q
    BY <1>2, AssignmentsAssumption DEF Abort, TypeOK, Holding
  <1>5. lock' \in Procs \union {NoProc}
    BY DEF Abort, TypeOK
  <1>6. TypeOK'
    BY <1>2, <1>4, <1>5 DEF Abort, TypeOK, Existing
  <1> QED
    BY <1>3, <1>6

(* Prune takes its subject from the assignment it found.                   *)
LEMMA BeginPruneKeeps ==
    ASSUME IInv, NEW p \in Procs, NEW i \in Ids, BeginPrune(p, i)
    PROVE  IInv'
  <1> USE DEF IInv
  <1> DEFINE x == assignment[i]
  <1>1. /\ command[p].step = "idle"
        /\ Start(p, "prune_subject", x.task, x.phase, x.agent, x.subject)
        /\ x \in Assignment
    BY DEF BeginPrune, Idle, Existing, TypeOK
  <1>2. /\ x.task \in Tasks /\ x.phase \in {"execution", "review"}
        /\ x.agent \in Agents /\ x.subject \in Versions \union {NoVersion}
    BY <1>1 DEF Assignment
  <1> HIDE DEF x
  <1>3. /\ command' \in [Procs -> Command \union {Idle}]
        /\ command'[p].step = "prune_subject"
        /\ \A q \in Procs \ {p} : command'[q] = command[q]
    <2>1. PICK t \in Tasks, ph \in {"execution", "review"}, a \in Agents,
               v \in Versions \union {NoVersion} : Start(p, "prune_subject", t, ph, a, v)
      BY <1>1, <1>2
    <2> QED
      BY <2>1 DEF Start, TypeOK, Command
  <1>4. Cast' /\ Admitted' /\ AgentExclusive'
    BY <1>3, Elsewhere DEF BeginPrune
  <1>5. \A q \in Procs : (command'[q].step \in Holding) <=> lock' = q
    BY <1>1, <1>3 DEF BeginPrune, TypeOK, Holding
  <1>6. TypeOK'
    BY <1>3, <1>5 DEF BeginPrune, TypeOK, Existing
  <1> QED
    BY <1>4, <1>6

(* Removing a subject touches no assignment.                               *)
LEMMA PruneSubjectKeeps ==
    ASSUME IInv, NEW p \in Procs, PruneSubject(p)
    PROVE  IInv'
  <1> USE DEF IInv
  <1>2. /\ command' \in [Procs -> Command \union {Idle}]
        /\ command'[p].step = "idle"
        /\ \A q \in Procs \ {p} : command'[q] = command[q]
    BY FinishType DEF PruneSubject
  <1>3. Cast' /\ Admitted' /\ AgentExclusive'
    BY <1>2, Elsewhere DEF PruneSubject
  <1>4. \A q \in Procs : (command'[q].step \in Holding) <=> lock' = q
    BY <1>2 DEF PruneSubject, TypeOK, Holding
  <1>5. TypeOK'
    BY <1>2, <1>4 DEF PruneSubject, TypeOK, Existing
  <1> QED
    BY <1>3, <1>5
-----------------------------------------------------------------------------
(* An assignment that was finished stays finished, so a change of status   *)
(* gives no agent more to do; and nobody has the lock when it happens.     *)
LEMMA ProgressKeeps ==
    ASSUME IInv, NEW i \in Ids, NEW s \in STATUSES, Progress(i, s)
    PROVE  IInv'
  <1> USE DEF IInv
  <1> DEFINE new == [assignment[i] EXCEPT !.status = s]
  <1>1. /\ assignment[i] \in Assignment
        /\ s \in STATUS_TRANSITIONS[assignment[i].status]
        /\ lock = NoProc /\ i \in Existing
        /\ assignment' = [assignment EXCEPT ![i] = new]
    BY DEF Progress, Existing, TypeOK
  <1>2. /\ new \in Assignment /\ new # NoAssignment
        /\ new.task = assignment[i].task /\ new.phase = assignment[i].phase
        /\ new.agent = assignment[i].agent /\ new.status = s
    BY <1>1, NoAssignmentAssumption DEF Assignment
  <1> HIDE DEF new
  <1>3. /\ assignment' \in [Ids -> Assignment \union {NoAssignment}]
        /\ assignment'[i] = new
        /\ \A j \in Ids \ {i} : assignment'[j] = assignment[j]
    BY <1>1, <1>2 DEF TypeOK
  <1>4. assignment[i].status \in Finished => s \in Finished
    BY <1>1 DEF STATUS_TRANSITIONS, STATUSES, Finished, Assignment
  <1>5. Existing' = Existing
    BY <1>1, <1>2, <1>3 DEF Existing
  <1>6. Unfinished' \subseteq Unfinished
    BY <1>2, <1>3, <1>4, <1>5 DEF Unfinished, Existing
  <1>7. \A j \in Existing : assignment'[j].agent = assignment[j].agent
    BY <1>2, <1>3 DEF Existing
  <1>8. AgentExclusive'
    BY <1>6, <1>7 DEF AgentExclusive, Unfinished
  <1>9. \A q \in Procs : command[q].step \notin Holding
    BY <1>1, AssignmentsAssumption DEF TypeOK
  <1>10. Admitted'
    BY <1>9 DEF Progress, Admitted, Holding
  <1>11. Cast'
    <2>1. \A j \in Existing' : Fits(assignment'[j])
      BY <1>2, <1>3, <1>5 DEF Cast, Fits, Existing
    <2> QED
      BY <2>1 DEF Progress, Cast, Fits, CopiesArtifact
  <1>12. TypeOK'
    BY <1>3, <1>5, <1>9 DEF Progress, TypeOK
  <1> QED
    BY <1>8, <1>10, <1>11, <1>12

(* What the rest of the control plane does to tasks and their records.     *)
LEMMA SurroundingsKeep ==
    ASSUME IInv,
           \/ \E i \in Ids : WriteReviewRecord(i)
           \/ \E t \in Tasks, s \in TaskStates : TaskMoves(t, s)
           \/ \E t \in Tasks, v \in Versions : Deliver(t, v)
           \/ UNCHANGED vars
    PROVE  IInv'
  <1> USE DEF IInv
  <1>1. assignment' = assignment /\ command' = command /\ lock' = lock
    BY DEF WriteReviewRecord, TaskMoves, Deliver, vars
  <1>2. Cast' /\ Admitted' /\ AgentExclusive'
    BY <1>1, Elsewhere
  <1>3. reviewed' \subseteq Existing'
    BY <1>1 DEF WriteReviewRecord, TaskMoves, Deliver, vars, TypeOK, Existing
  <1>4. /\ taskState' \in [Tasks -> TaskStates]
        /\ deliverable' \in [Tasks -> Versions]
    BY DEF WriteReviewRecord, TaskMoves, Deliver, vars, TypeOK
  <1>5. UNCHANGED <<published, damaged, spoilt, reviewerHead, rootDir, brief>>
    BY DEF WriteReviewRecord, TaskMoves, Deliver, vars
  <1>6. TypeOK'
    BY <1>1, <1>3, <1>4, <1>5 DEF TypeOK
  <1> QED
    BY <1>2, <1>6
-----------------------------------------------------------------------------
(* With no assignment and no command everything holds.                     *)
LEMMA InitHolds == Init => IInv
  <1> SUFFICES ASSUME Init
               PROVE  IInv
    OBVIOUS
  <1>1. Existing = {} /\ Unfinished = {}
    BY DEF Init, Existing, Unfinished
  <1>2. \A p \in Procs :
          command[p].step \notin {"lock", "checkout"} \union Holding \union Copying
    BY DEF Init, Idle, Holding, Copying, Filling
  <1>3. TypeOK
    BY <1>1, <1>2, AssignmentsAssumption DEF Init, TypeOK, TaskStates
  <1> QED
    BY <1>1, <1>2, <1>3 DEF IInv, Cast, Admitted, AgentExclusive, Holding

(* The inductive step: one case per action of Next.                        *)
LEMMA NextKeeps == IInv /\ [Next]_vars => IInv'
  <1> SUFFICES ASSUME IInv, [Next]_vars
               PROVE  IInv'
    OBVIOUS
  <1>1. ASSUME NEW p \in Procs, Proc(p)
        PROVE  IInv'
    <2>1. CASE \E t \in Tasks, a \in Agents :
                 \/ BeginExecution(p, t, a)
                 \/ BeginCodeReview(p, t, a) \/ BeginArtifactReview(p, t, a)
      BY <2>1, BeginExecutionKeeps, BeginCodeReviewKeeps, BeginArtifactReviewKeeps
    <2>2. CASE \/ CompareSnapshot(p) \/ LookForSnapshot(p) \/ OpenSnapshot(p)
               \/ FillSnapshot(p) \/ StopCopying(p)
      BY <2>2, CopyingKeeps
    <2>3. CASE \E i \in Ids : Acquire(p, i) \/ BeginPrune(p, i)
      BY <2>3, AcquireKeeps, BeginPruneKeeps
    <2>4. CASE CheckoutSubject(p) \/ Check(p)
      BY <2>4, CheckoutSubjectKeeps, CheckKeeps
    <2>5. CASE MakeDirectories(p) \/ WriteAssignment(p) \/ WriteBrief(p)
      BY <2>5, MakeDirectoriesKeeps, WriteAssignmentKeeps, WriteBriefKeeps
    <2>6. CASE PruneSubject(p) \/ Abort(p)
      BY <2>6, PruneSubjectKeeps, AbortKeeps
    <2> QED
      BY <1>1, <2>1, <2>2, <2>3, <2>4, <2>5, <2>6 DEF Proc
  <1>2. CASE \E i \in Ids, s \in STATUSES : Progress(i, s)
    BY <1>2, ProgressKeeps
  <1>3. CASE \/ \E i \in Ids : WriteReviewRecord(i)
             \/ \E t \in Tasks, s \in TaskStates : TaskMoves(t, s)
             \/ \E t \in Tasks, v \in Versions : Deliver(t, v)
             \/ UNCHANGED vars
    BY <1>3, SurroundingsKeep
  <1> QED
    BY <1>1, <1>2, <1>3 DEF Next, Environment

(* The inductive invariant holds in every state of every behaviour.        *)
LEMMA Invariance == Spec => []IInv
  BY InitHolds, NextKeeps, PTL DEF Spec

(* Every variable keeps its type, and the lock is held by exactly the      *)
(* prepare that is past its checks.                                        *)
THEOREM TypeCorrect == Spec => []TypeOK
  <1>1. IInv => TypeOK
    BY DEF IInv
  <1> QED
    BY <1>1, Invariance, PTL

(* No agent ever has two unfinished assignments (prepare's checks under    *)
(* the global lock), for any number of concurrent and dying processes.     *)
THEOREM AgentExclusiveCorrect == Spec => []AgentExclusive
  <1>1. IInv => AgentExclusive
    BY DEF IInv
  <1> QED
    BY <1>1, Invariance, PTL
-----------------------------------------------------------------------------
(* What is behind SubjectRetained and PrunedWhenClosed: a task has at most *)
(* one assignment, because its directory is only made once; a handoff      *)
(* keeps its subject at least until that directory is there; and a prune   *)
(* is about the one assignment of a closed task, with its Review Record.   *)
OnePerTask ==
    /\ \A i \in Existing : assignment[i].task \in rootDir
    /\ \A i, j \in Existing : assignment[i].task = assignment[j].task => i = j

HandedOver == {"checkout", "check", "lock", "root"}

Prepares(p) ==
    LET c == command[p] IN
    /\ c.step \in HandedOver /\ c.phase = "review" => Sound(<<c.task, c.subject>>) \/ c.task \in rootDir
    /\ c.step = "record" =>
          /\ c.task \in rootDir
          /\ \A i \in Existing : assignment[i].task # c.task
          /\ c.phase = "review" => Sound(<<c.task, c.subject>>)

Prunes(p) ==
    LET c == command[p] IN
    c.step = "prune_subject" =>
        /\ taskState[c.task] = "closed"
        /\ \E i \in Existing :
              /\ assignment[i].task = c.task
              /\ assignment[i].phase = "review" => i \in reviewed

KeptInv ==
    /\ OnePerTask
    /\ \A p \in Procs : Prepares(p) /\ Prunes(p)
    /\ SubjectRetained

(* And how a handoff comes to its snapshot: nobody else is about one that  *)
(* is not spoilt.  So one that is about to be copied is not there yet, and *)
(* one that is damaged is just being filled.                               *)
Copies(p) ==
    /\ command[p].step = "copy" /\ Subject(p) \in published => Subject(p) \in spoilt
    /\ command[p].step \in Filling => Subject(p) \in published \/ command[p].task \in rootDir
    /\ command[p].step = "fill_other" => Subject(p) \in spoilt

HandoffInv ==
    /\ \A p \in Procs : Copies(p)
    /\ \A p, q \in Procs :
          /\ p # q /\ Subject(p) = Subject(q)
          /\ command[p].step \in Copying /\ command[q].step \in Copying
          => Subject(p) \in spoilt
    /\ \A s \in damaged \ spoilt : \E p \in Procs : command[p].step = "fill" /\ Subject(p) = s

(* A step that takes nothing away, and leaves the commands alone but one   *)
(* that is still as it should be.                                          *)
LEMMA NothingLost ==
    ASSUME KeptInv, NEW p, UNCHANGED <<assignment, rootDir>>,
           \A s : Sound(s) => Sound(s)', reviewed \subseteq reviewed',
           \A t \in {assignment[i].task : i \in Existing} \union {command[q].task : q \in Procs} :
              taskState[t] = "closed" => taskState'[t] = "closed",
           \A q \in Procs \ {p} : command'[q] = command[q],
           p \in Procs => Prepares(p)' /\ Prunes(p)'
    PROVE  KeptInv'
  <1>1. Existing' = Existing
    BY DEF Existing
  <1>2. OnePerTask'
    BY <1>1 DEF KeptInv, OnePerTask
  <1>3. SubjectRetained'
    <2> SUFFICES ASSUME NEW i \in Existing, assignment[i].phase = "review",
                        i \notin reviewed' \/ taskState'[assignment[i].task] # "closed"
                 PROVE  Sound(<<assignment[i].task, assignment[i].subject>>)'
      BY <1>1 DEF SubjectRetained
    <2>1. Sound(<<assignment[i].task, assignment[i].subject>>)
      BY DEF KeptInv, SubjectRetained
    <2>2. UNCHANGED <<assignment[i].task, assignment[i].subject>>
      OBVIOUS
    <2> QED
      BY <2>1, <2>2 DEF Sound
  <1>4. ASSUME NEW q \in Procs \ {p}
        PROVE  Prepares(q)' /\ Prunes(q)'
    <2>1. command'[q] = command[q] /\ Prepares(q) /\ Prunes(q)
      BY DEF KeptInv
    <2>2. Sound(<<command[q].task, command[q].subject>>)
          => Sound(<<command[q].task, command[q].subject>>)'
      BY <2>1 DEF Sound
    <2>3. Prepares(q)'
      BY <1>1, <2>1, <2>2 DEF Prepares, Sound
    <2>4. Prunes(q)'
      BY <1>1, <2>1 DEF Prunes
    <2> QED
      BY <2>3, <2>4
  <1> QED
    BY <1>2, <1>3, <1>4 DEF KeptInv

(* The steps of a prepare up to its lock, and the two ends of a command,   *)
(* but the steps of a copy.                                                *)
LEMMA PreparingRetains ==
    ASSUME IInv, KeptInv, NEW p \in Procs,
           \/ \E t \in Tasks, a \in Agents :
                 \/ BeginExecution(p, t, a)
                 \/ BeginCodeReview(p, t, a) \/ BeginArtifactReview(p, t, a)
           \/ CheckoutSubject(p) \/ Check(p) \/ WriteBrief(p) \/ Abort(p)
           \/ \E i \in Ids : Acquire(p, i)
    PROVE  KeptInv'
  <1> USE DEF IInv
  <1>1. CASE \E t \in Tasks, a \in Agents : BeginExecution(p, t, a)
    <2>1. PICK t \in Tasks, a \in Agents : BeginExecution(p, t, a)
      BY <1>1
    <2>2. /\ command'[p].step = "check" /\ command'[p].phase = "execution"
          /\ \A q \in Procs \ {p} : command'[q] = command[q]
      BY <2>1 DEF BeginExecution, Start, TypeOK
    <2>3. Prepares(p)' /\ Prunes(p)'
      BY <2>2 DEF Prepares, Prunes
    <2>4. \A s : Sound(s) => Sound(s)'
      BY <2>1 DEF BeginExecution, Sound
    <2> QED
      BY <2>1, <2>2, <2>3, <2>4, NothingLost DEF BeginExecution
  <1>2. CASE \E t \in Tasks, a \in Agents : BeginCodeReview(p, t, a)
    <2>1. PICK t \in Tasks, a \in Agents : BeginCodeReview(p, t, a)
      BY <1>2
    <2>2. /\ command'[p].step = "checkout"
          /\ command'[p].task = t /\ command'[p].subject = deliverable[t]
          /\ \A q \in Procs \ {p} : command'[q] = command[q]
      BY <2>1 DEF BeginCodeReview, Start, TypeOK
    <2>3. \A s : Sound(s) => Sound(s)'
      BY <2>1 DEF BeginCodeReview, Publish, Sound
    <2>4. Sound(<<command[p].task, command[p].subject>>)'
      BY <2>1, <2>2 DEF BeginCodeReview, Publish, Sound, TypeOK
    <2>5. Prepares(p)' /\ Prunes(p)'
      BY <2>2, <2>4 DEF Prepares, Prunes, Sound
    <2> QED
      BY <2>1, <2>2, <2>3, <2>5, NothingLost DEF BeginCodeReview
  <1>2a. CASE \E t \in Tasks, a \in Agents : BeginArtifactReview(p, t, a)
    <2>1. PICK t \in Tasks, a \in Agents : BeginArtifactReview(p, t, a)
      BY <1>2a
    <2>2. /\ command'[p].step = "compare"
          /\ \A q \in Procs \ {p} : command'[q] = command[q]
      BY <2>1 DEF BeginArtifactReview, Start, TypeOK
    <2>3. \A s : Sound(s) => Sound(s)'
      BY <2>1 DEF BeginArtifactReview, Sound
    <2>4. Prepares(p)' /\ Prunes(p)'
      BY <2>2 DEF Prepares, Prunes, HandedOver
    <2> QED
      BY <2>1, <2>2, <2>3, <2>4, NothingLost DEF BeginArtifactReview
  <1>3. ASSUME NEW from \in {"checkout", "check", "lock"}, NEW to \in {"check", "lock", "root"},
               command[p].step = from, command'[p].step = to,
               command'[p].task = command[p].task, command'[p].phase = command[p].phase,
               command'[p].subject = command[p].subject,
               \A q \in Procs \ {p} : command'[q] = command[q],
               UNCHANGED <<assignment, rootDir, subjects, reviewed, taskState>>
        PROVE  KeptInv'
    <2>1. Prepares(p)
      BY DEF KeptInv
    <2>2. \A s : Sound(s) => Sound(s)'
      BY <1>3 DEF Sound
    <2>3. Sound(<<command[p].task, command[p].subject>>)
          => Sound(<<command[p].task, command[p].subject>>)'
      BY <1>3 DEF Sound
    <2>4. Prepares(p)' /\ Prunes(p)'
      BY <1>3, <2>1, <2>3 DEF Prepares, Prunes, HandedOver, Sound
    <2> QED
      BY <1>3, <2>2, <2>4, NothingLost
  <1>4. ASSUME command[p] # Idle
        PROVE  command[p] \in Command
    BY <1>4, BusyCommand
  <1>5. CASE CheckoutSubject(p) \/ Check(p)
    <2>1. PICK s \in {"check", "lock"} : Goto(p, s)
      BY <1>5 DEF CheckoutSubject, Check
    <2>2. /\ command[p].step \in {"checkout", "check"} /\ command[p] \in Command
          /\ UNCHANGED <<assignment, rootDir, subjects, reviewed, taskState>>
      BY <1>4, <1>5, NotIdle DEF CheckoutSubject, Check
    <2>3. /\ command'[p].step = s
          /\ command'[p].task = command[p].task /\ command'[p].phase = command[p].phase
          /\ command'[p].subject = command[p].subject
          /\ \A q \in Procs \ {p} : command'[q] = command[q]
      BY <2>1, <2>2 DEF Goto, TypeOK, Command
    <2> QED
      BY <1>3, <2>2, <2>3
  <1>6. CASE \E i \in Ids : Acquire(p, i)
    <2>1. PICK i \in Ids : Acquire(p, i)
      BY <1>6
    <2>2. /\ command[p].step = "lock" /\ command[p] \in Command
          /\ command' = [command EXCEPT ![p].step = "root", ![p].id = i]
          /\ UNCHANGED <<assignment, rootDir, subjects, reviewed, taskState>>
      BY <1>4, <2>1, NotIdle DEF Acquire
    <2>3. /\ command'[p].step = "root"
          /\ command'[p].task = command[p].task /\ command'[p].phase = command[p].phase
          /\ command'[p].subject = command[p].subject
          /\ \A q \in Procs \ {p} : command'[q] = command[q]
      BY <2>2 DEF TypeOK, Command
    <2> QED
      BY <1>3, <2>2, <2>3
  <1>7. CASE WriteBrief(p) \/ Abort(p)
    <2>1. /\ command'[p].step = "idle"
          /\ \A q \in Procs \ {p} : command'[q] = command[q]
      BY <1>7, FinishType DEF WriteBrief, Abort
    <2>2. UNCHANGED <<assignment, rootDir, subjects, reviewed, taskState>>
      BY <1>7 DEF WriteBrief, Abort
    <2>3. Prepares(p)' /\ Prunes(p)'
      BY <2>1 DEF Prepares, Prunes, HandedOver
    <2>4. \A s : Sound(s) => Sound(s)'
      BY <2>2 DEF Sound
    <2> QED
      BY <2>1, <2>2, <2>3, <2>4, NothingLost
  <1> QED
    BY <1>1, <1>2, <1>2a, <1>5, <1>6, <1>7

(* The steps of a copy.  None takes a sound snapshot away, because the     *)
(* ones that it can disturb are spoilt; and it is handed over as sound.    *)
LEMMA CopyingRetains ==
    ASSUME IInv, KeptInv, HandoffInv, NEW p \in Procs,
           \/ CompareSnapshot(p) \/ LookForSnapshot(p) \/ OpenSnapshot(p)
           \/ FillSnapshot(p) \/ StopCopying(p)
    PROVE  KeptInv'
  <1> USE DEF IInv
  <1>1. /\ command[p].step \in Copying /\ command[p] # Idle
        /\ Subject(p) = <<command[p].task, command[p].subject>>
    BY CopyIsArtifact DEF CompareSnapshot, LookForSnapshot, OpenSnapshot, FillSnapshot, StopCopying,
       Copying, Filling
  <1>2. UNCHANGED <<assignment, rootDir, reviewed, taskState>>
    BY DEF CompareSnapshot, LookForSnapshot, OpenSnapshot, FillSnapshot, StopCopying
  <1>3. \A s : Sound(s) => Sound(s)'
    <2>1. CASE CompareSnapshot(p)
      BY <2>1 DEF CompareSnapshot, AsNamed, Sound
    <2>2. CASE OpenSnapshot(p)
      BY <2>2 DEF OpenSnapshot, Sound, HandoffInv, Copies
    <2>3. CASE LookForSnapshot(p) \/ FillSnapshot(p) \/ StopCopying(p)
      BY <2>3 DEF LookForSnapshot, FillSnapshot, StopCopying, Sound
    <2> QED
      BY <2>1, <2>2, <2>3
  <1>4. /\ \A q \in Procs \ {p} : command'[q] = command[q]
        /\ \/ command'[p].step \in Copying \union {"idle"}
           \/ /\ command'[p].step = "check"
              /\ command'[p].task = command[p].task /\ command'[p].subject = command[p].subject
    <2>1. CASE StopCopying(p)
      BY <2>1, FinishType DEF StopCopying
    <2>2. CASE ~StopCopying(p)
      <3>1. PICK s \in Copying \union {"check"} : Goto(p, s)
        BY <2>2 DEF CompareSnapshot, LookForSnapshot, OpenSnapshot, FillSnapshot, Copying, Filling
      <3> QED
        BY <1>1, <3>1, GotoType DEF Preparing
    <2> QED
      BY <2>1, <2>2
  <1>5. CASE command'[p].step # "check"
    <2>1. Prepares(p)' /\ Prunes(p)'
      BY <1>4, <1>5 DEF Prepares, Prunes, HandedOver, Copying, Filling
    <2> QED
      BY <1>2, <1>3, <1>4, <2>1, NothingLost
  <1>6. CASE command'[p].step = "check"
    <2>1. LookForSnapshot(p) \/ FillSnapshot(p)
      BY <1>1, <1>6, FinishType, GotoType
      DEF CompareSnapshot, OpenSnapshot, StopCopying, Preparing, Copying, Filling
    <2>2. Sound(Subject(p)) \/ Sound(Subject(p))' \/ command[p].task \in rootDir
      <3>1. CASE LookForSnapshot(p)
        <4>1. Subject(p) \in published /\ command[p].step = "look"
          BY <1>1, <1>6, <3>1, GotoType DEF LookForSnapshot, Preparing, Copying
        <4>2. Subject(p) \in damaged => Subject(p) \in spoilt
          BY <1>1, <4>1 DEF HandoffInv, Copying, Filling
        <4> QED
          BY <4>1, <4>2 DEF Sound
      <3>2. CASE FillSnapshot(p)
        <4>1. Subject(p) \in published \/ command[p].task \in rootDir
          BY <3>2 DEF FillSnapshot, HandoffInv, Copies, Filling
        <4>2. UNCHANGED <<published, spoilt>>
              /\ (Subject(p) \in damaged' => Subject(p) \in spoilt)
          BY <3>2 DEF FillSnapshot
        <4>3. CASE Subject(p) \in published
          <5>1. Subject(p) \in published' /\ (Subject(p) \in damaged' => Subject(p) \in spoilt')
            BY <4>2, <4>3
          <5>2. Subject(p)' = Subject(p)
            BY <1>1, <1>4, <1>6 DEF Subject, Copying, Filling
          <5> QED
            BY <5>1, <5>2 DEF Sound
        <4> QED
          BY <4>1, <4>3
      <3> QED
        BY <2>1, <3>1, <3>2
    <2>3. /\ command'[p].task = command[p].task
          /\ Subject(p)' = Subject(p)
          /\ Subject(p) = <<command[p].task, command[p].subject>>
      BY <1>1, <1>4, <1>6 DEF Subject, Copying, Filling
    <2>4. Sound(<<command[p].task, command[p].subject>>)' \/ command'[p].task \in rootDir'
      <3>1. Sound(Subject(p))' \/ command[p].task \in rootDir
        BY <1>3, <2>2, <2>3 DEF Sound
      <3>2. Subject(p)' = <<command'[p].task, command'[p].subject>>
        BY DEF Subject
      <3> QED
        BY <1>2, <2>3, <3>1, <3>2 DEF Sound
    <2>5. Prepares(p)' /\ Prunes(p)'
      BY <1>6, <2>4 DEF Prepares, Prunes
    <2> QED
      BY <1>2, <1>3, <1>4, <2>5, NothingLost
  <1> QED
    BY <1>5, <1>6

(* The directory is made by one command of the task, before there is an    *)
(* assignment of it.                                                       *)
LEMMA MakeDirectoriesRetains ==
    ASSUME IInv, KeptInv, NEW p \in Procs, MakeDirectories(p)
    PROVE  KeptInv'
  <1> USE DEF IInv
  <1> DEFINE c == command[p]
  <1>1. /\ c.step = "root" /\ c \in Command /\ c.task \notin rootDir
        /\ rootDir' = rootDir \union {c.task} /\ Goto(p, "record")
        /\ UNCHANGED <<assignment, subjects, reviewed, taskState>>
    BY BusyCommand, NotIdle DEF MakeDirectories
  <1>2. /\ command'[p].step = "record"
        /\ command'[p].task = c.task /\ command'[p].phase = c.phase
        /\ command'[p].subject = c.subject
        /\ \A q \in Procs \ {p} : command'[q] = command[q]
    BY <1>1 DEF Goto, TypeOK, Command
  <1>3. Existing' = Existing
    BY <1>1 DEF Existing
  <1>4. c.phase = "review" => Sound(<<c.task, c.subject>>)
    BY <1>1 DEF KeptInv, Prepares, HandedOver
  <1>5. \A i \in Existing : assignment[i].task # c.task
    BY <1>1 DEF KeptInv, OnePerTask
  <1>6. Prepares(p)' /\ Prunes(p)'
    BY <1>1, <1>2, <1>3, <1>4, <1>5 DEF Prepares, Prunes, HandedOver, Sound
  <1>7. ASSUME NEW q \in Procs \ {p}
        PROVE  Prepares(q)' /\ Prunes(q)'
    <2>1. command'[q] = command[q] /\ Prepares(q) /\ Prunes(q)
      BY <1>2 DEF KeptInv
    <2>2. Prepares(q)'
      BY <1>1, <1>3, <2>1 DEF Prepares, Sound
    <2>3. Prunes(q)'
      BY <1>1, <1>3, <2>1 DEF Prunes
    <2> QED
      BY <2>2, <2>3
  <1>8. OnePerTask'
    BY <1>1, <1>3 DEF KeptInv, OnePerTask
  <1>9. SubjectRetained'
    BY <1>1, <1>3 DEF KeptInv, SubjectRetained, Sound
  <1> QED
    BY <1>6, <1>7, <1>8, <1>9 DEF KeptInv

(* The assignment of a task appears when its subject is kept and no prune  *)
(* is under way for the task.                                              *)
LEMMA WriteAssignmentRetains ==
    ASSUME IInv, KeptInv, NEW p \in Procs, WriteAssignment(p)
    PROVE  KeptInv'
  <1> USE DEF IInv
  <1> DEFINE c == command[p]
             new == [task |-> c.task, phase |-> c.phase, agent |-> c.agent,
                     subject |-> c.subject, status |-> "prepared"]
  <1>1. /\ c.step = "record" /\ c # Idle /\ Goto(p, "brief")
        /\ c \in Command /\ c.id \in Ids /\ c.id \notin Existing
        /\ UNCHANGED <<taskState, subjects, rootDir, reviewed>>
    BY BusyCommand, NotIdle DEF WriteAssignment, Admitted, Holding
  <1>2. /\ command'[p].step = "brief"
        /\ \A q \in Procs \ {p} : command'[q] = command[q]
    BY <1>1, GotoType DEF Holding
  <1>3. /\ new \in Assignment /\ new # NoAssignment
        /\ new.task = c.task /\ new.phase = c.phase /\ new.subject = c.subject
    BY <1>1, NoAssignmentAssumption DEF Command, Assignment, STATUSES
  <1>4. assignment' = [assignment EXCEPT ![c.id] = new]
    BY DEF WriteAssignment
  <1> HIDE DEF new
  <1>5. /\ assignment'[c.id] = new
        /\ \A j \in Ids \ {c.id} : assignment'[j] = assignment[j]
    BY <1>1, <1>4 DEF TypeOK
  <1>6. Existing' = Existing \union {c.id}
    BY <1>1, <1>3, <1>5 DEF Existing
  <1>7. \A j \in Existing : j \in Ids \ {c.id} /\ assignment'[j] = assignment[j]
    BY <1>1, <1>5 DEF Existing
  <1>8. /\ c.task \in rootDir /\ \A i \in Existing : assignment[i].task # c.task
        /\ c.phase = "review" => Sound(<<c.task, c.subject>>)
    BY <1>1 DEF KeptInv, Prepares
  <1>9. OnePerTask'
    <2>1. \A i \in Existing' : assignment'[i].task \in rootDir'
      BY <1>1, <1>3, <1>5, <1>6, <1>7, <1>8 DEF KeptInv, OnePerTask
    <2>2. \A i, j \in Existing' : assignment'[i].task = assignment'[j].task => i = j
      BY <1>3, <1>5, <1>6, <1>7, <1>8 DEF KeptInv, OnePerTask
    <2> QED
      BY <2>1, <2>2 DEF OnePerTask
  <1>10. SubjectRetained'
    <2> SUFFICES ASSUME NEW i \in Existing', assignment'[i].phase = "review",
                        i \notin reviewed' \/ taskState'[assignment'[i].task] # "closed"
                 PROVE  Sound(<<assignment[i].task, assignment[i].subject>>)'
      BY DEF SubjectRetained
    <2>1. CASE i = c.id
      BY <1>1, <1>3, <1>5, <1>8, <2>1 DEF Sound
    <2>2. CASE i \in Existing
      BY <1>1, <1>7, <2>2 DEF KeptInv, SubjectRetained, Sound
    <2> QED
      BY <1>6, <2>1, <2>2
  <1>11. Prepares(p)' /\ Prunes(p)'
    BY <1>2 DEF Prepares, Prunes, HandedOver, Sound
  <1>12. ASSUME NEW q \in Procs \ {p}
         PROVE  Prepares(q)' /\ Prunes(q)'
    <2>1. command'[q] = command[q] /\ Prepares(q) /\ Prunes(q)
      BY <1>2 DEF KeptInv
    <2>2. command[q].step # "record"
      BY <1>1 DEF TypeOK, Holding
    <2>3. Prepares(q)'
      BY <1>1, <2>1, <2>2 DEF Prepares, HandedOver, Sound
    <2>4. Prunes(q)'
      BY <1>1, <1>6, <1>7, <2>1 DEF Prunes
    <2> QED
      BY <2>3, <2>4
  <1> QED
    BY <1>9, <1>10, <1>11, <1>12 DEF KeptInv

(* A prune begins with the assignment that it has checked.                 *)
LEMMA BeginPruneRetains ==
    ASSUME IInv, KeptInv, NEW p \in Procs, NEW i \in Ids, BeginPrune(p, i)
    PROVE  KeptInv'
  <1> USE DEF IInv
  <1>1. /\ i \in Existing /\ taskState[assignment[i].task] = "closed"
        /\ assignment[i].phase = "review" => i \in reviewed
        /\ UNCHANGED <<assignment, rootDir, subjects, reviewed, taskState>>
    BY DEF BeginPrune, PruneAllowed
  <1>2. /\ command'[p].step = "prune_subject" /\ command'[p].task = assignment[i].task
        /\ \A q \in Procs \ {p} : command'[q] = command[q]
    BY DEF BeginPrune, Start, TypeOK
  <1>3. Existing' = Existing
    BY <1>1 DEF Existing
  <1>4. Prunes(p)'
    BY <1>1, <1>2, <1>3 DEF Prunes
  <1>5. Prepares(p)'
    BY <1>2 DEF Prepares, HandedOver
  <1>6. \A s : Sound(s) => Sound(s)'
    BY <1>1 DEF Sound
  <1> QED
    BY <1>1, <1>2, <1>4, <1>5, <1>6, NothingLost

(* What a prune takes away is the subject of the one assignment of its     *)
(* task; a prepare past its directory is of another task.                  *)
LEMMA PruneSubjectRetains ==
    ASSUME IInv, KeptInv, NEW p \in Procs, PruneSubject(p)
    PROVE  KeptInv'
  <1> USE DEF IInv
  <1> DEFINE c == command[p]
  <1>1. /\ c.step = "prune_subject" /\ published' = published \ {<<c.task, c.subject>>}
        /\ damaged' = damaged \ {<<c.task, c.subject>>}
        /\ UNCHANGED <<assignment, rootDir, reviewed, taskState, spoilt>>
    BY DEF PruneSubject
  <1>2. /\ command'[p].step = "idle"
        /\ \A q \in Procs \ {p} : command'[q] = command[q]
    BY FinishType DEF PruneSubject
  <1>3. Existing' = Existing
    BY <1>1 DEF Existing
  <1>4. PICK i \in Existing : /\ assignment[i].task = c.task
                              /\ assignment[i].phase = "review" => i \in reviewed
    BY <1>1 DEF KeptInv, Prunes
  <1>5. c.task \in rootDir /\ taskState[c.task] = "closed"
    BY <1>1, <1>4 DEF KeptInv, OnePerTask, Prunes
  <1>6. OnePerTask'
    BY <1>1, <1>3 DEF KeptInv, OnePerTask
  <1>7. SubjectRetained'
    <2> SUFFICES ASSUME NEW j \in Existing, assignment[j].phase = "review",
                        j \notin reviewed \/ taskState[assignment[j].task] # "closed"
                 PROVE  Sound(<<assignment[j].task, assignment[j].subject>>)'
      BY <1>1, <1>3 DEF SubjectRetained
    <2>1. Sound(<<assignment[j].task, assignment[j].subject>>)
      BY DEF KeptInv, SubjectRetained
    <2>2. assignment[j].task # c.task
      BY <1>4, <1>5 DEF KeptInv, OnePerTask
    <2> QED
      BY <1>1, <2>1, <2>2 DEF Sound
  <1>8. Prepares(p)' /\ Prunes(p)'
    BY <1>2 DEF Prepares, Prunes, HandedOver, Sound
  <1>9. ASSUME NEW q \in Procs \ {p}
        PROVE  Prepares(q)' /\ Prunes(q)'
    <2>1. command'[q] = command[q] /\ Prepares(q) /\ Prunes(q)
      BY <1>2 DEF KeptInv
    <2>2. command[q].step = "record" => command[q].task # c.task
      BY <1>4, <2>1 DEF Prepares
    <2>3. Sound(<<command[q].task, command[q].subject>>) /\ command[q].task # c.task
          => Sound(<<command[q].task, command[q].subject>>)'
      BY <1>1, <2>1 DEF Sound
    <2>4. command[q].task = c.task => command[q].task \in rootDir
      BY <1>5
    <2>5. Prepares(q)'
      BY <1>1, <1>3, <2>1, <2>2, <2>3, <2>4 DEF Prepares, Sound
    <2>6. Prunes(q)'
      BY <1>1, <1>3, <2>1 DEF Prunes
    <2> QED
      BY <2>5, <2>6
  <1> QED
    BY <1>6, <1>7, <1>8, <1>9 DEF KeptInv

(* A change of status changes neither task, phase nor subject.             *)
LEMMA ProgressRetains ==
    ASSUME IInv, KeptInv, NEW i \in Ids, NEW s \in STATUSES, Progress(i, s)
    PROVE  KeptInv'
  <1> USE DEF IInv
  <1>1. /\ i \in Existing /\ assignment[i] \in Assignment
        /\ assignment' = [assignment EXCEPT ![i].status = s]
        /\ UNCHANGED <<taskState, subjects, rootDir, reviewed, command>>
    BY DEF Progress, Existing, TypeOK
  <1> DEFINE new == [assignment[i] EXCEPT !.status = s]
  <1>2. /\ new \in Assignment /\ new # NoAssignment
        /\ new.task = assignment[i].task /\ new.phase = assignment[i].phase
        /\ new.subject = assignment[i].subject
    BY <1>1, NoAssignmentAssumption DEF Assignment
  <1>3. assignment' = [assignment EXCEPT ![i] = new]
    BY <1>1
  <1> HIDE DEF new
  <1>4. assignment'[i] = new /\ \A j \in Ids \ {i} : assignment'[j] = assignment[j]
    BY <1>3 DEF TypeOK
  <1>5. Existing' = Existing
    BY <1>1, <1>2, <1>4 DEF Existing
  <1>6. \A j \in Existing : /\ assignment'[j].task = assignment[j].task
                            /\ assignment'[j].phase = assignment[j].phase
                            /\ assignment'[j].subject = assignment[j].subject
    BY <1>2, <1>4 DEF Existing
  <1>7. OnePerTask'
    BY <1>1, <1>5, <1>6 DEF KeptInv, OnePerTask
  <1>8. SubjectRetained'
    BY <1>1, <1>5, <1>6 DEF KeptInv, SubjectRetained, Sound
  <1>9. \A q \in Procs : Prepares(q)' /\ Prunes(q)'
    BY <1>1, <1>5, <1>6 DEF KeptInv, Prepares, Prunes, Sound
  <1> QED
    BY <1>7, <1>8, <1>9 DEF KeptInv

(* Reviews are only added and closed tasks stay closed.                    *)
LEMMA SurroundingsRetain ==
    ASSUME IInv, KeptInv,
           \/ \E i \in Ids : WriteReviewRecord(i)
           \/ \E t \in Tasks, s \in TaskStates : TaskMoves(t, s)
           \/ \E t \in Tasks, v \in Versions : Deliver(t, v)
           \/ UNCHANGED vars
    PROVE  KeptInv'
  <1>1. /\ UNCHANGED <<assignment, rootDir, subjects, command>>
        /\ reviewed \subseteq reviewed'
    BY DEF WriteReviewRecord, TaskMoves, Deliver, vars
  <1>2. /\ \A i \in Existing : assignment[i].task \in Tasks
        /\ \A q \in Procs : command[q].step = "prune_subject" => command[q].task \in Tasks
        /\ \A t \in Tasks : taskState[t] = "closed" => taskState'[t] = "closed"
    <2>1. \A i \in Existing : assignment[i].task \in Tasks
      BY DEF IInv, TypeOK, Existing, Assignment
    <2>2. \A q \in Procs : command[q].step = "prune_subject" => command[q].task \in Tasks
      BY BusyCommand, NotIdle DEF IInv, Command
    <2>3. \A t \in Tasks : taskState[t] = "closed" => taskState'[t] = "closed"
      BY DEF IInv, TypeOK, WriteReviewRecord, TaskMoves, Deliver, vars
    <2> QED
      BY <2>1, <2>2, <2>3
  <1>3. Existing' = Existing
    BY <1>1 DEF Existing
  <1>4. OnePerTask'
    BY <1>1, <1>3 DEF KeptInv, OnePerTask
  <1>5. SubjectRetained'
    BY <1>1, <1>2, <1>3 DEF KeptInv, SubjectRetained, Sound
  <1>6. \A q \in Procs : Prepares(q)' /\ Prunes(q)'
    BY <1>1, <1>2, <1>3 DEF KeptInv, Prepares, Prunes, Sound
  <1> QED
    BY <1>4, <1>5, <1>6 DEF KeptInv

(* What is known of the copies under way stands when no copy goes on, and  *)
(* nothing changes of their snapshots but by a prune.                      *)
LEMMA HandoffElsewhere ==
    ASSUME HandoffInv, spoilt' = spoilt, damaged' \subseteq damaged, rootDir \subseteq rootDir',
           \A q \in Procs : command[q].step \in Copying =>
              /\ Subject(q) \in published' => Subject(q) \in published
              /\ Subject(q) \in published => Subject(q) \in published' \/ command[q].task \in rootDir,
           \A q \in Procs : \/ command'[q] = command[q]
                            \/ command'[q].step \notin Copying /\ command[q].step # "fill"
    PROVE  HandoffInv'
  <1>1. ASSUME NEW q \in Procs, command'[q].step \in Copying
        PROVE  command'[q] = command[q] /\ Subject(q)' = Subject(q)
    BY <1>1 DEF Subject
  <1>2. ASSUME NEW q \in Procs
        PROVE  Copies(q)'
    <2>1. CASE command'[q].step \in Copying
      BY <1>1, <2>1 DEF HandoffInv, Copies, Copying, Filling
    <2>2. CASE command'[q].step \notin Copying
      BY <2>2 DEF Copies, Copying, Filling
    <2> QED
      BY <2>1, <2>2
  <1>3. ASSUME NEW q \in Procs, NEW r \in Procs, q # r, Subject(q)' = Subject(r)',
               command'[q].step \in Copying, command'[r].step \in Copying
        PROVE  Subject(q)' \in spoilt'
    BY <1>1, <1>3 DEF HandoffInv
  <1>4. ASSUME NEW s \in damaged' \ spoilt'
        PROVE  \E q \in Procs : command'[q].step = "fill" /\ Subject(q)' = s
    <2>1. PICK q \in Procs : command[q].step = "fill" /\ Subject(q) = s
      BY DEF HandoffInv
    <2>2. command'[q] = command[q] /\ Subject(q)' = Subject(q)
      BY <2>1 DEF Subject
    <2> QED
      BY <2>1, <2>2
  <1> QED
    BY <1>2, <1>3, <1>4 DEF HandoffInv

(* The steps of the other commands, and of everybody else.                 *)
LEMMA OthersHandOff ==
    ASSUME IInv, KeptInv, HandoffInv, Next,
           ~\E p \in Procs :
              \/ \E t \in Tasks, a \in Agents : BeginArtifactReview(p, t, a)
              \/ CompareSnapshot(p) \/ LookForSnapshot(p) \/ OpenSnapshot(p)
              \/ FillSnapshot(p) \/ StopCopying(p)
    PROVE  HandoffInv'
  <1> USE DEF IInv
  <1>1. ASSUME NEW p \in Procs, Proc(p)
        PROVE  HandoffInv'
    <2>1. /\ \A q \in Procs \ {p} : command'[q] = command[q]
          /\ command'[p].step \notin Copying /\ command[p].step # "fill"
          /\ spoilt' = spoilt
      <3>1. CASE \/ \E t \in Tasks, a \in Agents : BeginExecution(p, t, a) \/ BeginCodeReview(p, t, a)
                 \/ \E i \in Ids : BeginPrune(p, i)
        BY <3>1 DEF TypeOK, BeginExecution, BeginCodeReview, BeginPrune, Start, Idle, Copying, Filling
      <3>2. CASE \/ CheckoutSubject(p) \/ Check(p) \/ MakeDirectories(p) \/ WriteAssignment(p)
                 \/ \E i \in Ids : Acquire(p, i)
        BY <3>2, BusyCommand, NotIdle
        DEF TypeOK, Command, CheckoutSubject, Check, MakeDirectories, WriteAssignment, Acquire, Goto,
            Copying, Filling
      <3>3. CASE WriteBrief(p) \/ PruneSubject(p) \/ Abort(p)
        BY <3>3, FinishType DEF WriteBrief, PruneSubject, Abort, Copying, Filling
      <3> QED
        BY <1>1, <3>1, <3>2, <3>3 DEF Proc
    <2>2. CASE PruneSubject(p)
      <3>1. /\ published' = published \ {<<command[p].task, command[p].subject>>}
            /\ damaged' \subseteq damaged /\ rootDir' = rootDir
            /\ command[p].step = "prune_subject"
        BY <2>2 DEF PruneSubject
      <3>2. command[p].task \in rootDir
        BY <3>1 DEF KeptInv, Prunes, OnePerTask
      <3>3. ASSUME NEW q \in Procs, command[q].step \in Copying, Subject(q) \in published
            PROVE  Subject(q) \in published' \/ command[q].task \in rootDir
        <4>1. CASE Subject(q) = <<command[p].task, command[p].subject>>
          <5>1. command[q].task = command[p].task
            BY <4>1 DEF Subject
          <5> QED
            BY <3>2, <5>1
        <4>2. CASE Subject(q) # <<command[p].task, command[p].subject>>
          BY <3>1, <3>3, <4>2
        <4> QED
          BY <4>1, <4>2
      <3> QED
        BY <2>1, <3>1, <3>3, HandoffElsewhere
    <2>3. CASE \E t \in Tasks, a \in Agents : BeginCodeReview(p, t, a)
      <3>1. PICK t \in CodeTasks : published' = published \union {<<t, deliverable[t]>>}
        BY <2>3 DEF BeginCodeReview, Publish
      <3>2. damaged' = damaged /\ rootDir' = rootDir
        BY <2>3 DEF BeginCodeReview
      <3>3. ASSUME NEW q \in Procs, command[q].step \in Copying, Subject(q) \in published'
            PROVE  Subject(q) \in published
        BY <3>1, <3>3, CopyIsArtifact
      <3> QED
        BY <2>1, <3>1, <3>2, <3>3, HandoffElsewhere
    <2>4. CASE ~PruneSubject(p) /\ ~\E t \in Tasks, a \in Agents : BeginCodeReview(p, t, a)
      <3>1. UNCHANGED subjects /\ rootDir \subseteq rootDir'
        BY <1>1, <2>4 DEF Proc, BeginExecution, CheckoutSubject, Check, Acquire,
           MakeDirectories, WriteAssignment, WriteBrief, BeginPrune, Abort
      <3> QED
        BY <2>1, <3>1, HandoffElsewhere
    <2> QED
      BY <2>2, <2>3, <2>4
  <1>2. CASE Environment
    <2>1. UNCHANGED <<subjects, rootDir, command>>
      BY <1>2 DEF Environment, WriteReviewRecord, Progress, TaskMoves, Deliver
    <2> QED
      BY <2>1, HandoffElsewhere
  <1> QED
    BY <1>1, <1>2 DEF Next

(* Digest, comparison, look, copy and its end.                             *)
LEMMA CopyingHandsOff ==
    ASSUME IInv, HandoffInv, NEW p \in Procs,
           \/ \E t \in Tasks, a \in Agents : BeginArtifactReview(p, t, a)
           \/ CompareSnapshot(p) \/ LookForSnapshot(p) \/ OpenSnapshot(p)
           \/ FillSnapshot(p) \/ StopCopying(p)
    PROVE  HandoffInv'
  <1> USE DEF IInv
  <1>1. CASE \E t \in Tasks, a \in Agents : BeginArtifactReview(p, t, a)
    <2>1. PICK t \in Tasks, a \in Agents : BeginArtifactReview(p, t, a)
      BY <1>1
    <2>2. /\ command'[p].step = "compare" /\ command[p].step = "idle"
          /\ Subject(p)' = <<t, deliverable[t]>>
          /\ \A q \in Procs \ {p} : command'[q] = command[q] /\ Subject(q)' = Subject(q)
          /\ UNCHANGED <<published, damaged, rootDir>> /\ spoilt \subseteq spoilt'
      BY <2>1 DEF BeginArtifactReview, Start, TypeOK, Idle, Subject
    <2>3. \A q \in Procs : Copies(q)'
      BY <2>2 DEF HandoffInv, Copies, Filling
    <2>4. ASSUME NEW q \in Procs \ {p}, command[q].step \in Copying, Subject(q) = Subject(p)'
          PROVE  Subject(q) \in spoilt'
      BY <2>1, <2>2, <2>4 DEF BeginArtifactReview, CopyingElsewhere
    <2>5. ASSUME NEW s \in damaged' \ spoilt'
          PROVE  \E q \in Procs : command'[q].step = "fill" /\ Subject(q)' = s
      <3>1. PICK q \in Procs : command[q].step = "fill" /\ Subject(q) = s
        BY <2>2 DEF HandoffInv
      <3> QED
        BY <2>2, <3>1
    <2>6. ASSUME NEW q \in Procs, NEW r \in Procs, q # r, Subject(q)' = Subject(r)',
                 command'[q].step \in Copying, command'[r].step \in Copying
          PROVE  Subject(q)' \in spoilt'
      BY <2>2, <2>4, <2>6 DEF HandoffInv
    <2> QED
      BY <2>3, <2>5, <2>6 DEF HandoffInv
  <1> DEFINE s == Subject(p)
  <1>2. ASSUME command[p].step \in Copying, NEW to,
               command'[p].step = to, to \in Copying => Subject(p)' = s,
               \A q \in Procs \ {p} : command'[q] = command[q],
               rootDir' = rootDir,
               \A x : x # s => /\ ((x \in published') <=> (x \in published))
                              /\ ((x \in damaged') <=> (x \in damaged))
                              /\ ((x \in spoilt') <=> (x \in spoilt)),
               s \in published => s \in published',
               s \in spoilt => s \in spoilt' \/ ~CopyingElsewhere(p, s),
               s \in published' => s \in published \/ s \in spoilt' \/ ~CopyingElsewhere(p, s),
               Copies(p)',
               s \in damaged' \ spoilt' => to = "fill"
        PROVE  HandoffInv'
    <2>1. \A q \in Procs \ {p} : Subject(q)' = Subject(q)
      BY <1>2 DEF Subject
    <2>2. ASSUME NEW q \in Procs \ {p}, command[q].step \in Copying, Subject(q) = s
          PROVE  s \in spoilt'
      <3>1. s \in spoilt /\ CopyingElsewhere(p, s)
        BY <1>2, <2>2 DEF HandoffInv, CopyingElsewhere
      <3> QED
        BY <1>2, <3>1
    <2>3. ASSUME NEW q \in Procs \ {p}
          PROVE  Copies(q)'
      <3>1. CASE command[q].step \in Copying /\ Subject(q) = s
        BY <1>2, <2>1, <2>2, <3>1 DEF HandoffInv, Copies
      <3>2. CASE command[q].step \in Copying /\ Subject(q) # s
        BY <1>2, <2>1, <3>2 DEF HandoffInv, Copies
      <3>3. CASE command[q].step \notin Copying
        BY <1>2, <3>3 DEF Copies, Copying, Filling
      <3> QED
        BY <3>1, <3>2, <3>3
    <2>4. ASSUME NEW q \in Procs, NEW r \in Procs, q # r, Subject(q)' = Subject(r)',
                 command'[q].step \in Copying, command'[r].step \in Copying
          PROVE  Subject(q)' \in spoilt'
      <3>1. CASE q = p \/ r = p
        BY <1>2, <2>1, <2>2, <2>4, <3>1
      <3>2. CASE q # p /\ r # p
        <4>1. Subject(q) \in spoilt
          BY <1>2, <2>1, <2>4, <3>2 DEF HandoffInv
        <4> QED
          BY <1>2, <2>1, <2>2, <2>4, <3>2, <4>1
      <3> QED
        BY <3>1, <3>2
    <2>5. ASSUME NEW x \in damaged' \ spoilt'
          PROVE  \E q \in Procs : command'[q].step = "fill" /\ Subject(q)' = x
      <3>1. CASE x = s
        BY <1>2, <2>5, <3>1 DEF Copying, Filling
      <3>2. CASE x # s
        <4>1. PICK q \in Procs : command[q].step = "fill" /\ Subject(q) = x
          BY <1>2, <2>5, <3>2 DEF HandoffInv
        <4> QED
          BY <1>2, <2>1, <3>2, <4>1
      <3> QED
        BY <3>1, <3>2
    <2> QED
      BY <1>2, <2>3, <2>4, <2>5 DEF HandoffInv
  <1>3. ASSUME command[p].step \in Copying, NEW to \in Copying \union {"check"}, Goto(p, to)
        PROVE  /\ command'[p].step = to /\ command'[p].task = command[p].task
               /\ \A q \in Procs \ {p} : command'[q] = command[q]
               /\ Subject(p)' = s
    BY <1>3, GotoType, CopyIsArtifact DEF Subject, Preparing
  <1>4. CASE CompareSnapshot(p)
    <2>1. /\ command[p].step = "compare" /\ Goto(p, "look")
          /\ UNCHANGED <<published, damaged, rootDir>>
          /\ s \in published => s \notin damaged
          /\ spoilt' = IF s \in published /\ ~CopyingElsewhere(p, s) THEN spoilt \ {s} ELSE spoilt
      BY <1>4 DEF CompareSnapshot, AsNamed
    <2>2. /\ command'[p].step = "look" /\ Subject(p)' = s
          /\ \A q \in Procs \ {p} : command'[q] = command[q]
      BY <1>3, <2>1 DEF Copying
    <2>3. Copies(p)'
      BY <2>2 DEF Copies, Filling
    <2>4. s \notin damaged
      BY <2>1 DEF TypeOK
    <2> QED
      BY <1>2, <2>1, <2>2, <2>3, <2>4 DEF Copying
  <1>5. CASE LookForSnapshot(p)
    <2> DEFINE to == IF s \in published THEN "check" ELSE "copy"
    <2>1. /\ command[p].step = "look" /\ Goto(p, to) /\ UNCHANGED <<published, damaged, spoilt, rootDir>>
      BY <1>5 DEF LookForSnapshot
    <2>2. command[p].step \in Copying /\ to \in Copying \union {"check"}
      BY <2>1 DEF Copying
    <2>3. /\ command'[p].step = to /\ Subject(p)' = s
          /\ \A q \in Procs \ {p} : command'[q] = command[q]
      BY <1>3, <2>1, <2>2
    <2>4. Copies(p)'
      BY <2>1, <2>3 DEF Copies, Filling
    <2>5. s \in damaged => s \in spoilt
      BY <2>1, <2>2 DEF HandoffInv, Copying, Filling
    <2> QED
      BY <1>2, <2>1, <2>2, <2>3, <2>4, <2>5
  <1>6. CASE OpenSnapshot(p)
    <2>1. PICK to \in Filling :
            /\ command[p].step = "copy" /\ Goto(p, to)
            /\ published' = published \union {s} /\ damaged' = damaged \union {s}
            /\ to = "fill" => spoilt' = spoilt
            /\ to = "fill_other" => spoilt' = spoilt \union {s}
            /\ rootDir' = rootDir
      BY <1>6 DEF OpenSnapshot, Filling
    <2>2. command[p].step \in Copying /\ to \in Copying
      BY <2>1 DEF Copying
    <2>3. /\ command'[p].step = to /\ Subject(p)' = s
          /\ \A q \in Procs \ {p} : command'[q] = command[q]
      BY <1>3, <2>1, <2>2
    <2>4. Copies(p)'
      BY <2>1, <2>3 DEF Copies, Filling
    <2>5. CopyingElsewhere(p, s) => s \in spoilt
      BY <2>2 DEF HandoffInv, CopyingElsewhere
    <2> QED
      BY <1>2, <2>1, <2>2, <2>3, <2>4, <2>5 DEF Filling
  <1>7. CASE FillSnapshot(p)
    <2>1. /\ command[p].step \in Filling /\ Goto(p, "check") /\ UNCHANGED <<published, spoilt, rootDir>>
          /\ \/ damaged' = damaged \ {s}
             \/ s \in spoilt /\ damaged' = damaged \union ({s} \intersect published)
      BY <1>7 DEF FillSnapshot, Filling
    <2>2. command[p].step \in Copying
      BY <2>1 DEF Copying
    <2>3. /\ command'[p].step = "check" /\ Subject(p)' = s
          /\ \A q \in Procs \ {p} : command'[q] = command[q]
      BY <1>3, <2>1, <2>2
    <2>4. Copies(p)'
      BY <2>3 DEF Copies, Filling
    <2> QED
      BY <1>2, <2>1, <2>2, <2>3, <2>4
  <1>8. CASE StopCopying(p)
    <2>1. /\ command[p].step \in Filling /\ Finish(p) /\ UNCHANGED <<published, rootDir>>
          /\ spoilt' = spoilt \union {s}
          /\ \A x : x # s => ((x \in damaged') <=> (x \in damaged))
      BY <1>8 DEF StopCopying
    <2>2. command[p].step \in Copying
      BY <2>1 DEF Copying
    <2>3. /\ command'[p].step = "idle" /\ "idle" \notin Copying
          /\ \A q \in Procs \ {p} : command'[q] = command[q]
      BY <2>1, FinishType DEF Copying, Filling
    <2>4. Copies(p)'
      BY <2>3 DEF Copies, Filling
    <2> QED
      BY <1>2, <2>1, <2>2, <2>3, <2>4
  <1> QED
    BY <1>1, <1>4, <1>5, <1>6, <1>7, <1>8

(* It holds at first, and of every step.                                   *)
LEMMA KeptInvariance == Spec => [](IInv /\ KeptInv /\ HandoffInv)
  <1>1. Init => KeptInv /\ HandoffInv
    <2> SUFFICES ASSUME Init PROVE KeptInv /\ HandoffInv
      OBVIOUS
    <2>1. Existing = {} /\ \A p \in Procs : command[p].step = "idle"
      BY DEF Init, Existing, Idle
    <2>2. KeptInv
      BY <2>1 DEF KeptInv, OnePerTask, SubjectRetained, Prepares, Prunes, HandedOver
    <2>3. HandoffInv
      BY <2>1 DEF Init, HandoffInv, Copies, Copying, Filling
    <2> QED
      BY <2>2, <2>3
  <1>2. IInv /\ KeptInv /\ HandoffInv /\ [Next]_vars => KeptInv'
    <2> SUFFICES ASSUME IInv, KeptInv, HandoffInv, [Next]_vars PROVE KeptInv'
      OBVIOUS
    <2>1. ASSUME NEW p \in Procs, Proc(p)
          PROVE  KeptInv'
      <3>1. CASE \/ \E t \in Tasks, a \in Agents :
                      \/ BeginExecution(p, t, a)
                      \/ BeginCodeReview(p, t, a) \/ BeginArtifactReview(p, t, a)
                 \/ CheckoutSubject(p) \/ Check(p) \/ WriteBrief(p) \/ Abort(p)
                 \/ \E i \in Ids : Acquire(p, i)
        BY <3>1, PreparingRetains
      <3>2. CASE \E i \in Ids : BeginPrune(p, i)
        BY <3>2, BeginPruneRetains
      <3>3. CASE MakeDirectories(p) \/ WriteAssignment(p) \/ PruneSubject(p)
        BY <3>3, MakeDirectoriesRetains, WriteAssignmentRetains, PruneSubjectRetains
      <3>4. CASE \/ CompareSnapshot(p) \/ LookForSnapshot(p) \/ OpenSnapshot(p)
                 \/ FillSnapshot(p) \/ StopCopying(p)
        BY <3>4, CopyingRetains
      <3> QED
        BY <2>1, <3>1, <3>2, <3>3, <3>4 DEF Proc
    <2>2. CASE \E i \in Ids, s \in STATUSES : Progress(i, s)
      BY <2>2, ProgressRetains
    <2>3. CASE \/ \E i \in Ids : WriteReviewRecord(i)
               \/ \E t \in Tasks, s \in TaskStates : TaskMoves(t, s)
               \/ \E t \in Tasks, v \in Versions : Deliver(t, v)
               \/ UNCHANGED vars
      BY <2>3, SurroundingsRetain
    <2> QED
      BY <2>1, <2>2, <2>3 DEF Next, Environment
  <1>3. IInv /\ KeptInv /\ HandoffInv /\ [Next]_vars => HandoffInv'
    <2>1. ASSUME HandoffInv, UNCHANGED vars PROVE HandoffInv'
      BY <2>1, HandoffElsewhere DEF vars
    <2> QED
      BY <2>1, OthersHandOff, CopyingHandsOff
  <1> QED
    BY <1>1, <1>2, <1>3, Invariance, PTL DEF Spec

(* What a reviewer is asked about is kept until its Review Record exists   *)
(* and its task is closed, for any number of prepares and prunes that      *)
(* overlap and die.                                                        *)
THEOREM SubjectRetainedCorrect == Spec => []SubjectRetained
  <1>1. KeptInv => SubjectRetained
    BY DEF KeptInv
  <1> QED
    BY <1>1, KeptInvariance, PTL

(* No brief and no subject of a task is removed unless the task is closed  *)
(* when that happens, although prune looks once and without a lock.        *)
THEOREM PrunedWhenClosedCorrect == Spec => PrunedWhenClosed
  <1> DEFINE Removes ==
        /\ \A i \in brief \ brief' : taskState[assignment[i].task] = "closed"
        /\ \A s \in published \ published' : taskState[s[1]] = "closed"
  <1>1. IInv /\ KeptInv /\ [Next]_vars => [Removes]_vars
    <2> SUFFICES ASSUME IInv, KeptInv, Next PROVE Removes
      BY DEF vars
    <2>1. CASE \E p \in Procs, i \in Ids : BeginPrune(p, i)
      <3>1. PICK p \in Procs, i \in Ids : BeginPrune(p, i)
        BY <2>1
      <3> QED
        BY <3>1 DEF BeginPrune, PruneAllowed
    <2>2. CASE \E p \in Procs : PruneSubject(p)
      <3>1. PICK p \in Procs : PruneSubject(p)
        BY <2>2
      <3>2. /\ command[p].step = "prune_subject" /\ UNCHANGED brief
            /\ published \ published' \subseteq {<<command[p].task, command[p].subject>>}
        BY <3>1 DEF PruneSubject
      <3>3. taskState[command[p].task] = "closed"
        BY <3>2 DEF KeptInv, Prunes
      <3> QED
        BY <3>2, <3>3
    <2>3. CASE /\ ~\E p \in Procs, i \in Ids : BeginPrune(p, i)
               /\ ~\E p \in Procs : PruneSubject(p)
      <3>1. brief \subseteq brief' /\ published \subseteq published'
        BY <2>3 DEF Next, Proc, Environment, BeginExecution, BeginCodeReview, BeginArtifactReview,
                    CompareSnapshot, LookForSnapshot, OpenSnapshot, FillSnapshot, StopCopying,
                    Acquire, CheckoutSubject, Check, MakeDirectories, WriteAssignment, WriteBrief,
                    Abort, WriteReviewRecord, Progress, TaskMoves, Deliver
      <3> QED
        BY <3>1
    <2> QED
      BY <2>1, <2>2, <2>3
  <1>2. PrunedWhenClosed <=> [][Removes]_vars
    BY DEF PrunedWhenClosed
  <1> HIDE DEF Removes
  <1> QED
    BY <1>1, <1>2, KeptInvariance, PTL DEF Spec
-----------------------------------------------------------------------------
(* Assignments implements Engagement.  IInv makes the checks hold when the *)
(* record is written, KeptInv has the subject there then and its only      *)
(* review over when it is removed, HandoffInv has a copy spoil nothing but *)
(* what is spoilt; and only reviews are recorded.                          *)
RecordsAreReviews == \A i \in reviewed : assignment[i].phase = "review"

EngagedInv == IInv /\ KeptInv /\ HandoffInv /\ RecordsAreReviews

AbstractVars == <<Orders, OpenOrders, OverReviews, published \ damaged, spoilt>>

(* What an order is made of.                                               *)
LEMMA OrderFields ==
    ASSUME NEW i
    PROVE  /\ OrderOf(i).id = i
           /\ OrderOf(i).task = assignment[i].task
           /\ OrderOf(i).phase = assignment[i].phase
           /\ OrderOf(i).agent = assignment[i].agent
           /\ OrderOf(i).subject = assignment[i].subject
  BY DEF OrderOf

(* The orders of records whose work does not change.                       *)
LEMMA SameOrder ==
    ASSUME NEW i,
           assignment'[i].task = assignment[i].task,
           assignment'[i].phase = assignment[i].phase,
           assignment'[i].agent = assignment[i].agent,
           assignment'[i].subject = assignment[i].subject
    PROVE  OrderOf(i)' = OrderOf(i)
  BY DEF OrderOf

(* No step that leaves the records alone touches the orders.               *)
LEMMA OrdersAlone ==
    ASSUME UNCHANGED assignment
    PROVE  UNCHANGED <<Orders, OpenOrders>> /\ \A i : OrderOf(i)' = OrderOf(i)
  BY DEF Orders, OpenOrders, OrderOf, Existing, Unfinished

(* Nor does one that leaves reviews and tasks alone end a review.          *)
LEMMA ReviewsAlone ==
    ASSUME UNCHANGED <<assignment, reviewed, taskState>>
    PROVE  UNCHANGED <<Orders, OpenOrders, OverReviews>>
  BY OrdersAlone DEF OverReviews, OrderOf

(* assignment.json is written: the order is given.                         *)
LEMMA WriteAssignmentGives ==
    ASSUME EngagedInv, NEW p \in Procs, WriteAssignment(p)
    PROVE  Promise!Next /\ RecordsAreReviews'
  <1> USE DEF EngagedInv
  <1> DEFINE c == command[p]
             new == [task |-> c.task, phase |-> c.phase, agent |-> c.agent,
                     subject |-> c.subject, status |-> "prepared"]
             order == [id |-> c.id, task |-> c.task, phase |-> c.phase, agent |-> c.agent,
                       subject |-> c.subject]
  <1>1. /\ c.step = "record" /\ c \in Command /\ c.id \in Ids /\ c.id \notin Existing
        /\ NoWorkInTask(c.task, c.phase)
    BY BusyCommand, NotIdle DEF WriteAssignment, IInv, Admitted, Holding
  <1>1a. PICK i \in Ids : i = command[p].id
    BY <1>1
  <1>2. assignment' = [assignment EXCEPT ![c.id] = new]
    BY DEF WriteAssignment
  <1>3. /\ new \in Assignment /\ new # NoAssignment /\ new.status \notin Finished
        /\ new.task = c.task /\ new.phase = c.phase /\ new.agent = c.agent
        /\ new.subject = c.subject
    BY <1>1, NoAssignmentAssumption DEF Command, Assignment, STATUSES, Finished
  <1> HIDE DEF new
  <1>4. assignment'[c.id] = new /\ \A j \in Ids \ {c.id} : assignment'[j] = assignment[j]
    BY <1>1, <1>2 DEF IInv, TypeOK
  <1>5. OrderOf(i)' = order
    BY <1>1a, <1>3, <1>4 DEF OrderOf
  <1>6. \A j \in Ids \ {c.id} : OrderOf(j)' = OrderOf(j)
    BY <1>4, SameOrder
  <1>7. /\ Existing \subseteq Ids \ {c.id} /\ Existing' = Existing \union {c.id}
        /\ Unfinished \subseteq Existing /\ Unfinished' = Unfinished \union {c.id}
    BY <1>1, <1>3, <1>4 DEF Existing, Unfinished
  <1>8. Orders' = Orders \union {order} /\ OpenOrders' = OpenOrders \union {order}
    <2>1. /\ Existing \subseteq Ids \ {i} /\ Existing' = Existing \union {i}
          /\ Unfinished \subseteq Existing /\ Unfinished' = Unfinished \union {i}
          /\ \A j \in Existing : OrderOf(j)' = OrderOf(j)
      BY <1>1a, <1>6, <1>7
    <2> QED
      BY <1>5, <2>1 DEF Orders, OpenOrders
  <1>9. UNCHANGED <<OverReviews, published, damaged, spoilt>> /\ RecordsAreReviews'
    <2>1. UNCHANGED <<reviewed, taskState, subjects>> /\ reviewed \subseteq Existing
      BY DEF WriteAssignment, IInv, TypeOK
    <2>2. \A j \in reviewed : assignment'[j] = assignment[j] /\ OrderOf(j)' = OrderOf(j)
      BY <1>4, <1>6, <1>7, <2>1
    <2> QED
      BY <2>1, <2>2 DEF OverReviews, RecordsAreReviews
  <1>10. order \in Promise!NewOrders
    <2>1. c.id \notin {o.id : o \in Orders}
      BY <1>1, OrderFields DEF Orders
    <2>2. c.agent \notin {o.agent : o \in OpenOrders}
      BY <1>1, StillFree, OrderFields DEF OpenOrders
    <2> QED
      BY <1>1, <2>1, <2>2
      DEF Promise!NewOrders, Promise!NewIds, Promise!FreeAgents, Command
  <1>11. \A x \in OpenOrders :
            x.task = c.task => x.phase = "review" /\ c.phase = "execution"
    <2> SUFFICES ASSUME NEW j \in Unfinished, assignment[j].task = c.task
                 PROVE  assignment[j].phase = "review" /\ c.phase = "execution"
      BY OrderFields DEF OpenOrders
    <2>1. assignment[j] \in Assignment
      BY DEF Unfinished, Existing, IInv, TypeOK
    <2> QED
      BY <1>1, <2>1 DEF NoWorkInTask, Assignment, Command
  <1>12. c.phase = "review" => <<c.task, c.subject>> \in (published \ damaged) \union spoilt
    BY <1>1 DEF KeptInv, Prepares, Sound
  <1>13. /\ order.task = c.task /\ order.phase = c.phase /\ order.subject = c.subject
    OBVIOUS
  <1> HIDE DEF order
  <1>14. Promise!Give(order)
    BY <1>8, <1>9, <1>11, <1>12, <1>13 DEF Promise!Give, Promise!Subject
  <1> QED
    BY <1>9, <1>10, <1>14 DEF Promise!Next

(* A change of status finishes an order or is none of its business.        *)
LEMMA ProgressFinishes ==
    ASSUME EngagedInv, NEW i \in Ids, NEW s \in STATUSES, Progress(i, s)
    PROVE  (Promise!Next \/ UNCHANGED AbstractVars) /\ RecordsAreReviews'
  <1> USE DEF EngagedInv
  <1> DEFINE new == [assignment[i] EXCEPT !.status = s]
  <1>1. /\ assignment[i] \in Assignment /\ i \in Existing
        /\ s \in STATUS_TRANSITIONS[assignment[i].status]
        /\ assignment' = [assignment EXCEPT ![i] = new]
    BY DEF Progress, Existing, IInv, TypeOK
  <1>2. /\ new # NoAssignment /\ new.status = s
        /\ new.task = assignment[i].task /\ new.phase = assignment[i].phase
        /\ new.agent = assignment[i].agent /\ new.subject = assignment[i].subject
    BY <1>1, NoAssignmentAssumption DEF Assignment
  <1> HIDE DEF new
  <1>3. assignment'[i] = new /\ \A j \in Ids \ {i} : assignment'[j] = assignment[j]
    BY <1>1 DEF IInv, TypeOK
  <1>4. assignment[i].status \in Finished => s \in Finished
    BY <1>1 DEF STATUS_TRANSITIONS, STATUSES, Finished, Assignment
  <1>5. \A j \in Ids : OrderOf(j)' = OrderOf(j)
    BY <1>2, <1>3, SameOrder
  <1>6. Existing' = Existing /\ Existing \subseteq Ids
    BY <1>1, <1>2, <1>3 DEF Existing
  <1>7. Orders' = Orders
    BY <1>5, <1>6 DEF Orders
  <1>8. /\ UNCHANGED <<reviewed, taskState, subjects>>
        /\ reviewed \subseteq Ids
    BY <1>6 DEF Progress, IInv, TypeOK
  <1>9. UNCHANGED OverReviews /\ RecordsAreReviews'
    <2>1. \A j \in Ids : /\ assignment'[j].task = assignment[j].task
                         /\ assignment'[j].phase = assignment[j].phase
      BY <1>2, <1>3
    <2> QED
      BY <1>5, <1>8, <2>1 DEF OverReviews, RecordsAreReviews
  <1>10. CASE i \in Unfinished /\ s \in Finished
    <2>1. Unfinished' = Unfinished \ {i} /\ Unfinished \subseteq Ids
      BY <1>2, <1>3, <1>6, <1>10 DEF Unfinished, Existing
    <2>2. \A j \in Unfinished : j # i => OrderOf(j) # OrderOf(i)
      BY OrderFields
    <2>3. /\ OpenOrders = {OrderOf(j) : j \in Unfinished}
          /\ OpenOrders' = {OrderOf(j) : j \in Unfinished \ {i}}
      BY <1>5, <2>1 DEF OpenOrders
    <2>4. OpenOrders' = OpenOrders \ {OrderOf(i)} /\ OrderOf(i) \in OpenOrders
      BY <1>10, <2>2, <2>3
    <2>5. Promise!Finish(OrderOf(i))
      BY <1>7, <1>8, <1>9, <2>4 DEF Promise!Finish
    <2> QED
      BY <1>9, <2>4, <2>5 DEF Promise!Next
  <1>11. CASE ~(i \in Unfinished /\ s \in Finished)
    <2>1. Unfinished' = Unfinished /\ Unfinished \subseteq Ids
      BY <1>1, <1>2, <1>3, <1>4, <1>6, <1>11 DEF Unfinished, Existing
    <2>2. OpenOrders' = OpenOrders
      BY <1>5, <2>1 DEF OpenOrders
    <2> QED
      BY <1>7, <1>8, <1>9, <2>2 DEF AbstractVars
  <1> QED
    BY <1>10, <1>11

(* A review is over when it is recorded and its task closed, whichever     *)
(* comes last; no task has two.                                            *)
LEMMA ReviewsEnd ==
    ASSUME EngagedInv,
           \/ \E i \in Ids : WriteReviewRecord(i)
           \/ \E t \in Tasks, s \in TaskStates : TaskMoves(t, s)
    PROVE  (Promise!Next \/ UNCHANGED AbstractVars) /\ RecordsAreReviews'
  <1> USE DEF EngagedInv
  <1> DEFINE Closed == {j \in reviewed : taskState[assignment[j].task] = "closed"}
  <1>1. /\ UNCHANGED <<assignment, subjects>>
        /\ UNCHANGED <<Orders, OpenOrders>> /\ \A i : OrderOf(i)' = OrderOf(i)
    BY OrdersAlone DEF WriteReviewRecord, TaskMoves
  <1>2. PICK new \in SUBSET Existing :
          /\ Closed' = Closed \union new
          /\ \A i, j \in new : i = j
          /\ \A i \in new : assignment[i].phase = "review"
    <2>1. ASSUME NEW i \in Ids, WriteReviewRecord(i)
          PROVE  \E new \in SUBSET Existing :
                   /\ Closed' = Closed \union new
                   /\ \A k, j \in new : k = j
                   /\ \A k \in new : assignment[k].phase = "review"
      <3> DEFINE new == {k \in {i} : taskState[assignment[i].task] = "closed"}
      <3>1. /\ new \subseteq Existing /\ \A k, j \in new : k = j
            /\ \A k \in new : assignment[k].phase = "review"
        BY <2>1 DEF WriteReviewRecord
      <3>2. Closed' = Closed \union new
        BY <2>1 DEF WriteReviewRecord
      <3> QED
        BY <3>1, <3>2
    <2>2. ASSUME NEW t \in Tasks, NEW s \in TaskStates, TaskMoves(t, s)
          PROVE  \E new \in SUBSET Existing :
                   /\ Closed' = Closed \union new
                   /\ \A k, j \in new : k = j
                   /\ \A k \in new : assignment[k].phase = "review"
      <3> DEFINE new == {k \in reviewed : assignment[k].task = t /\ s = "closed"}
      <3>1. reviewed \subseteq Existing
        BY DEF IInv, TypeOK
      <3>2. new \subseteq Existing /\ \A k \in new : assignment[k].phase = "review"
        BY <3>1 DEF RecordsAreReviews
      <3>3. \A k, j \in new : k = j
        BY <3>1 DEF KeptInv, OnePerTask
      <3>4. /\ taskState[t] # "closed" /\ taskState'[t] = s
            /\ \A u \in Tasks \ {t} : taskState'[u] = taskState[u]
            /\ reviewed' = reviewed /\ assignment' = assignment
        BY <2>2 DEF TaskMoves, IInv, TypeOK
      <3>5. \A j \in reviewed : assignment[j].task \in Tasks
        BY <3>1 DEF IInv, TypeOK, Existing, Assignment
      <3>6. Closed' = Closed \union new
        BY <3>4, <3>5
      <3> QED
        BY <3>2, <3>3, <3>6
    <2> QED
      BY <2>1, <2>2
  <1>3. /\ OverReviews = {OrderOf(j) : j \in Closed}
        /\ OverReviews' = {OrderOf(j) : j \in Closed'}
    BY <1>1 DEF OverReviews
  <1>4. RecordsAreReviews'
    BY <1>1 DEF RecordsAreReviews, WriteReviewRecord, TaskMoves
  <1> HIDE DEF Closed
  <1>5. CASE new = {}
    <2>1. OverReviews' = OverReviews
      BY <1>2, <1>3, <1>5
    <2> QED
      BY <1>1, <1>4, <2>1 DEF AbstractVars
  <1>6. CASE new # {}
    <2>1. PICK i \in new : new = {i}
      BY <1>2, <1>6
    <2>2. OverReviews' = OverReviews \union {OrderOf(i)}
      BY <1>2, <1>3, <2>1
    <2>3. OrderOf(i) \in Orders /\ OrderOf(i).phase = "review"
      BY <1>2, <2>1, OrderFields DEF Orders
    <2>4. Promise!EndReview(OrderOf(i))
      BY <1>1, <2>2, <2>3 DEF Promise!EndReview
    <2> QED
      BY <1>4, <2>3, <2>4 DEF Promise!Next
  <1> QED
    BY <1>5, <1>6

(* The handoff of a commit keeps it; a prune discards a subject whose only *)
(* review is over.                                                         *)
LEMMA SubjectsComeAndGo ==
    ASSUME EngagedInv, NEW p \in Procs,
           \/ \E t \in Tasks, a \in Agents : BeginCodeReview(p, t, a)
           \/ PruneSubject(p)
    PROVE  Promise!Next \/ UNCHANGED AbstractVars
  <1> USE DEF EngagedInv
  <1>1. /\ UNCHANGED <<Orders, OpenOrders, OverReviews, spoilt>>
    BY ReviewsAlone DEF BeginCodeReview, PruneSubject
  <1>2. ASSUME NEW t \in Tasks, NEW a \in Agents, BeginCodeReview(p, t, a)
        PROVE  Promise!Next
    <2>1. <<t, deliverable[t]>> \in Tasks \X Versions
      BY DEF IInv, TypeOK
    <2>2. <<t, deliverable[t]>> \notin damaged
      BY <1>2 DEF BeginCodeReview, IInv, TypeOK
    <2>3. (published \ damaged)' = (published \ damaged) \union {<<t, deliverable[t]>>}
      BY <1>2, <2>2 DEF BeginCodeReview, Publish
    <2>4. Promise!Keep(<<t, deliverable[t]>>)
      BY <1>1, <2>3 DEF Promise!Keep
    <2> QED
      BY <2>1, <2>4 DEF Promise!Next
  <1>3. CASE PruneSubject(p)
    <2> DEFINE c == command[p]
    <2>1. /\ c.step = "prune_subject" /\ c \in Command
          /\ (published \ damaged)' = (published \ damaged) \ {<<c.task, c.subject>>}
      BY <1>3, BusyCommand, NotIdle DEF PruneSubject, IInv
    <2>2. CASE c.subject \in Versions
      <3>1. PICK i \in Existing :
              /\ taskState[c.task] = "closed"
              /\ assignment[i].task = c.task
              /\ assignment[i].phase = "review" => i \in reviewed
        BY <2>1 DEF KeptInv, Prunes
      <3>2. \A j \in Existing : assignment[j].task = c.task => j = i
        BY <3>1 DEF KeptInv, OnePerTask
      <3>3. ASSUME NEW o \in Orders, o.phase = "review",
                   Promise!Subject(o) = <<c.task, c.subject>>
            PROVE  o \in OverReviews
        <4>1. PICK j \in Existing : o = OrderOf(j)
          BY DEF Orders
        <4>2. assignment[j].task = c.task /\ assignment[j].phase = "review"
          BY <3>3, <4>1, OrderFields DEF Promise!Subject
        <4>3. j \in reviewed /\ taskState[assignment[j].task] = "closed"
          BY <3>1, <3>2, <4>2
        <4> QED
          BY <4>1, <4>3 DEF OverReviews
      <3>4. Promise!Discard(<<c.task, c.subject>>)
        BY <1>1, <2>1, <3>3 DEF Promise!Discard
      <3> QED
        BY <2>1, <2>2, <3>4 DEF Promise!Next, Command
    <2>3. CASE c.subject \notin Versions
      <3>1. <<c.task, c.subject>> \notin published
        BY <2>3 DEF IInv, TypeOK
      <3> QED
        BY <1>1, <2>1, <3>1 DEF AbstractVars
    <2> QED
      BY <2>2, <2>3
  <1> QED
    BY <1>2, <1>3

(* The steps of an artifact's handoff: a comparison confirms, a copy that  *)
(* is whole keeps, and whatever disturbs one spoils it or discards what is *)
(* spoilt already.                                                         *)
LEMMA CopiesComeAndGo ==
    ASSUME EngagedInv, NEW p \in Procs,
           \/ \E t \in Tasks, a \in Agents : BeginArtifactReview(p, t, a)
           \/ CompareSnapshot(p) \/ LookForSnapshot(p) \/ OpenSnapshot(p)
           \/ FillSnapshot(p) \/ StopCopying(p)
    PROVE  Promise!Next \/ UNCHANGED AbstractVars
  <1> USE DEF EngagedInv
  <1> DEFINE s == Subject(p)
             whole == published \ damaged
  <1>1. /\ UNCHANGED <<Orders, OpenOrders, OverReviews>>
    BY ReviewsAlone DEF BeginArtifactReview, CompareSnapshot, LookForSnapshot, OpenSnapshot,
       FillSnapshot, StopCopying
  <1>2. ASSUME NEW x \in (Tasks \ CodeTasks) \X Versions,
               \/ spoilt' = spoilt \union {x} /\ whole' \in {whole, whole \ {x}}
               \/ spoilt' = spoilt /\ whole' = whole \union {x}
               \/ spoilt' = spoilt /\ whole' = whole \ {x} /\ x \in spoilt
               \/ spoilt' = spoilt \ {x} /\ whole' = whole /\ x \in whole
        PROVE  Promise!Next
    <2>1. x \in Tasks \X Versions
      OBVIOUS
    <2>2. CASE spoilt' = spoilt \union {x} /\ whole' \in {whole, whole \ {x}}
      BY <1>1, <1>2, <2>2 DEF Promise!Next, Promise!Spoil
    <2>3. CASE spoilt' = spoilt /\ whole' = whole \union {x}
      BY <1>1, <2>1, <2>3 DEF Promise!Next, Promise!Keep
    <2>4. CASE spoilt' = spoilt /\ whole' = whole \ {x} /\ x \in spoilt
      BY <1>1, <2>1, <2>4 DEF Promise!Next, Promise!Discard
    <2>5. CASE spoilt' = spoilt \ {x} /\ whole' = whole /\ x \in whole
      BY <1>1, <2>1, <2>5 DEF Promise!Next, Promise!Confirm
    <2> QED
      BY <1>2, <2>2, <2>3, <2>4, <2>5
  <1>3. CASE \E t \in Tasks, a \in Agents : BeginArtifactReview(p, t, a)
    <2>1. PICK t \in Tasks, a \in Agents : BeginArtifactReview(p, t, a)
      BY <1>3
    <2>2. <<t, deliverable[t]>> \in (Tasks \ CodeTasks) \X Versions
      BY <2>1 DEF BeginArtifactReview, IInv, TypeOK
    <2>3. whole' = whole /\ spoilt' \in {spoilt, spoilt \union {<<t, deliverable[t]>>}}
      BY <2>1 DEF BeginArtifactReview
    <2> QED
      BY <1>1, <1>2, <2>2, <2>3 DEF AbstractVars
  <1>4. CASE ~\E t \in Tasks, a \in Agents : BeginArtifactReview(p, t, a)
    <2>1. s \in (Tasks \ CodeTasks) \X Versions
      BY <1>4, CopyIsArtifact DEF CompareSnapshot, LookForSnapshot, OpenSnapshot, FillSnapshot,
         StopCopying, Copying, Filling
    <2>2. \/ spoilt' = spoilt /\ whole' = whole
          \/ spoilt' = spoilt \union {s} /\ whole' \in {whole, whole \ {s}}
          \/ spoilt' = spoilt /\ whole' = whole \union {s}
          \/ spoilt' = spoilt /\ whole' = whole \ {s} /\ s \in spoilt
          \/ spoilt' = spoilt \ {s} /\ whole' = whole /\ s \in whole
      <3>1. CASE CompareSnapshot(p)
        BY <3>1 DEF CompareSnapshot, AsNamed
      <3>2. CASE LookForSnapshot(p)
        BY <3>2 DEF LookForSnapshot
      <3>3. CASE OpenSnapshot(p)
        <4>1. whole' = whole \ {s} /\ spoilt' \in {spoilt, spoilt \union {s}}
          BY <3>3 DEF OpenSnapshot
        <4>2. s \in published => s \in spoilt
          BY <3>3 DEF OpenSnapshot, HandoffInv, Copies
        <4> QED
          BY <4>1, <4>2
      <3>4. CASE FillSnapshot(p)
        <4>1. spoilt' = spoilt /\ published' = published
          BY <3>4 DEF FillSnapshot
        <4>2. CASE damaged' = damaged \ {s}
          <5>1. damaged \subseteq published
            BY DEF IInv, TypeOK
          <5>2. CASE s \in published
            BY <4>1, <4>2, <5>2
          <5>3. CASE s \notin published
            BY <4>1, <4>2, <5>1, <5>3
          <5> QED
            BY <5>2, <5>3
        <4>3. CASE s \in spoilt /\ damaged' = damaged \union ({s} \intersect published)
          BY <4>1, <4>3
        <4> QED
          BY <3>4, <4>2, <4>3 DEF FillSnapshot
      <3>5. CASE StopCopying(p)
        <4>1. spoilt' = spoilt \union {s} /\ published' = published
              /\ damaged' \in {damaged, damaged \union ({s} \intersect published)}
          BY <3>5 DEF StopCopying
        <4> QED
          BY <4>1
      <3> QED
        BY <1>4, <3>1, <3>2, <3>3, <3>4, <3>5
    <2> HIDE DEF s
    <2> QED
      BY <1>1, <1>2, <2>1, <2>2 DEF AbstractVars
  <1> QED
    BY <1>3, <1>4

(* Every other step of a command is none of Engagement's.                  *)
LEMMA OthersStutter ==
    ASSUME NEW p \in Procs, Proc(p), ~WriteAssignment(p), ~PruneSubject(p),
           ~\E t \in Tasks, a \in Agents : BeginCodeReview(p, t, a) \/ BeginArtifactReview(p, t, a),
           ~CompareSnapshot(p), ~LookForSnapshot(p), ~OpenSnapshot(p),
           ~FillSnapshot(p), ~StopCopying(p)
    PROVE  UNCHANGED AbstractVars
  <1>1. UNCHANGED <<assignment, reviewed, taskState, subjects>>
    BY DEF Proc, BeginExecution, Acquire, BeginPrune, CheckoutSubject, Check,
       MakeDirectories, WriteBrief, Abort
  <1> QED
    BY <1>1, ReviewsAlone DEF AbstractVars

(* Every step is one of Engagement or none.                                *)
LEMMA StepEngages ==
    ASSUME EngagedInv, [Next]_vars
    PROVE  (Promise!Next \/ UNCHANGED AbstractVars) /\ RecordsAreReviews'
  <1>1. ASSUME NEW p \in Procs, Proc(p)
        PROVE  (Promise!Next \/ UNCHANGED AbstractVars) /\ RecordsAreReviews'
    <2>1. CASE WriteAssignment(p)
      BY <2>1, WriteAssignmentGives
    <2>2. CASE ~WriteAssignment(p)
      <3>1. UNCHANGED <<assignment, reviewed>>
        BY <1>1, <2>2 DEF Proc, BeginExecution, BeginCodeReview, BeginArtifactReview,
           CompareSnapshot, LookForSnapshot, OpenSnapshot, FillSnapshot, StopCopying,
           Acquire, BeginPrune, CheckoutSubject, Check, MakeDirectories, WriteBrief, PruneSubject, Abort
      <3>2. RecordsAreReviews'
        BY <3>1 DEF EngagedInv, RecordsAreReviews
      <3> QED
        BY <1>1, <2>2, <3>2, SubjectsComeAndGo, CopiesComeAndGo, OthersStutter
    <2> QED
      BY <2>1, <2>2
  <1>2. CASE \E i \in Ids, s \in STATUSES : Progress(i, s)
    BY <1>2, ProgressFinishes
  <1>3. CASE \/ \E i \in Ids : WriteReviewRecord(i)
             \/ \E t \in Tasks, s \in TaskStates : TaskMoves(t, s)
    BY <1>3, ReviewsEnd
  <1>4. CASE (\E t \in Tasks, v \in Versions : Deliver(t, v)) \/ UNCHANGED vars
    <2>1. UNCHANGED <<assignment, reviewed, taskState, subjects>>
      BY <1>4 DEF Deliver, vars
    <2> QED
      BY <2>1, ReviewsAlone DEF AbstractVars, EngagedInv, RecordsAreReviews
  <1> QED
    BY <1>1, <1>2, <1>3, <1>4 DEF Next, Environment

(* Handoff, prepare, progress and prune, in steps that overlap and stop    *)
(* anywhere, do what Engagement does in one step each, for any number of   *)
(* tasks, agents, assignments and processes.                               *)
THEOREM EngagementImplemented == Spec => ImplementsEngagement
  <1>1. Init => Promise!Init /\ RecordsAreReviews
    <2> SUFFICES ASSUME Init PROVE Promise!Init /\ RecordsAreReviews
      OBVIOUS
    <2>1. /\ Existing = {} /\ Unfinished = {} /\ reviewed = {}
          /\ published = {} /\ damaged = {} /\ spoilt = {}
      BY DEF Init, Existing, Unfinished
    <2>2. Orders = {} /\ OpenOrders = {} /\ OverReviews = {}
      BY <2>1 DEF Orders, OpenOrders, OverReviews
    <2> QED
      BY <2>1, <2>2 DEF Promise!Init, RecordsAreReviews
  <1>2. EngagedInv /\ [Next]_vars =>
           [Promise!Next]_<<Orders, OpenOrders, OverReviews, published \ damaged, spoilt>> /\ RecordsAreReviews'
    BY StepEngages DEF AbstractVars
  <1>3. Spec => [](IInv /\ KeptInv /\ HandoffInv)
    BY KeptInvariance
  <1>4. EngagedInv <=> (IInv /\ KeptInv /\ HandoffInv) /\ RecordsAreReviews
    BY DEF EngagedInv
  <1>5. Spec => Promise!Init /\ [][Promise!Next]_<<Orders, OpenOrders, OverReviews, published \ damaged, spoilt>>
    BY <1>1, <1>2, <1>3, <1>4, PTL DEF Spec
  <1> QED
    BY <1>5 DEF ImplementsEngagement, Promise!Spec
=============================================================================
