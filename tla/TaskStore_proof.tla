--------------------------- MODULE TaskStore_proof ---------------------------
(* Theorems about TaskStore, for every value of its constants. *)
EXTENDS TaskStore, FiniteSetTheorems, TLAPS

(* Replacing one review of a task by another keeps the sequence typed. *)
LEMMA ReplaceReview ==
    ASSUME NEW s \in Seq(Review), NEW i, NEW r \in Review
    PROVE  [s EXCEPT ![i] = r] \in Seq(Review)
  <1>1. Len(s) \in Nat /\ s \in [1..Len(s) -> Review]
    OBVIOUS
  <1>2. [s EXCEPT ![i] = r] \in [1..Len(s) -> Review]
    BY <1>1
  <1> QED
    BY <1>1, <1>2

(* The three updates of a review record give a review record.              *)
LEMMA ReviewUpdates ==
    ASSUME NEW s \in Seq(Review), NEW i \in DOMAIN s
    PROVE  /\ [s[i] EXCEPT !.status = "superseded"] \in Review
           /\ [s[i] EXCEPT !.assignment = "superseded"] \in Review
           /\ [s[i] EXCEPT !.assignment = "completed"] \in Review
  <1>1. s[i] \in Review
    OBVIOUS
  <1> QED
    BY <1>1 DEF Review

(* What the steps of a command hold, by the shape of the step. *)
LEMMA CommandShape ==
    ASSUME NEW c \in Commands
    PROVE  /\ c.step = "mkdir" => c.task \in Tasks /\ c.record \in Record
           /\ c.step = "record" =>
                /\ c.task \in Tasks /\ c.record \in Record
                /\ c.doc \in Docs \union {""} /\ c.version \in Versions \union {NoVersion}
           /\ c.step = "doc" => c.task \in Tasks /\ c.doc \in Docs
           /\ c.step = "collected" => c.task \in Tasks /\ c.version \in Versions
           /\ c.step = "supersede" => c.task \in Tasks /\ c.index \in 1..MaxReviews
           /\ c.step = "idle" => c = Idle
  <1>1. CASE c = Idle
    BY <1>1 DEF Idle
  <1>2. CASE c \in [step: {"mkdir"}, task: Tasks, record: Record]
    BY <1>2
  <1>3. CASE c \in [step: {"record"}, task: Tasks, record: Record, doc: Docs \union {""},
                    version: Versions \union {NoVersion}]
    BY <1>3
  <1>4. CASE c \in [step: {"doc"}, task: Tasks, doc: Docs]
    BY <1>4
  <1>5. CASE c \in [step: {"collected"}, task: Tasks, version: Versions]
    BY <1>5
  <1>6. CASE c \in [step: {"supersede"}, task: Tasks, index: 1..MaxReviews]
    BY <1>6
  <1> QED
    BY <1>1, <1>2, <1>3, <1>4, <1>5, <1>6 DEF Commands

(* The commands the actions start or carry on are commands.                *)
LEMMA CommandTypes ==
    /\ Idle \in Commands
    /\ \A t \in Tasks, r \in Record : [step |-> "mkdir", task |-> t, record |-> r] \in Commands
    /\ \A t \in Tasks, r \in Record, d \in Docs \union {""}, v \in Versions \union {NoVersion} :
         [step |-> "record", task |-> t, record |-> r, doc |-> d, version |-> v] \in Commands
    /\ \A t \in Tasks, d \in Docs : [step |-> "doc", task |-> t, doc |-> d] \in Commands
    /\ \A t \in Tasks, v \in Versions :
         [step |-> "collected", task |-> t, version |-> v] \in Commands
    /\ \A t \in Tasks, i \in 1..MaxReviews :
         [step |-> "supersede", task |-> t, index |-> i] \in Commands
  BY DEF Commands
-----------------------------------------------------------------------------
(* The records a transition stages are records.                            *)
LEMMA StagedRecords ==
    ASSUME NEW r \in Record
    PROVE  /\ \A s \in STATES : [r EXCEPT !.state = s] \in Record
           /\ \A e \in CloseEvidence : ClosedRecord(r, e) \in Record
           /\ \A v \in Versions : AcceptedRecord(r, v) \in Record
  BY DEF Record, STATES, ClosedRecord, AcceptedRecord, Closures

(* The record that create writes is a record.                              *)
LEMMA NewRecords ==
    \A k \in Kinds, a \in Agents, b \in BOOLEAN : NewRecord(k, a, b) \in Record
  BY DEF Record, NewRecord, STATES, Closures

(* The type invariant, for any number of writers.                          *)
THEOREM TypeCorrect == Spec => []TypeOK
  <1>1. Init => TypeOK
    <2>1. <<>> \in Seq(Review)
      OBVIOUS
    <2> QED
      BY <2>1, CommandTypes DEF Init, TypeOK
  <1>2. TypeOK /\ [Next]_vars => TypeOK'
    <2> SUFFICES ASSUME TypeOK, [Next]_vars
                 PROVE  TypeOK'
      OBVIOUS
    <2> USE DEF TypeOK
    <2>a. \A w \in Writers, c \in Commands : [command EXCEPT ![w] = c] \in [Writers -> Commands]
      OBVIOUS
    <2>1. ASSUME NEW w \in Writers, Create(w)
          PROVE  TypeOK'
      <3>1. PICK t \in Tasks, k \in Kinds, a \in Agents, b \in BOOLEAN :
                   CreateCheck(w, t, NewRecord(k, a, b))
        BY <2>1 DEF Create
      <3>2. command' \in [Writers -> Commands]
        BY <3>1, <2>a, NewRecords, CommandTypes DEF CreateCheck
      <3> QED
        BY <3>1, <3>2 DEF CreateCheck
    <2>2. ASSUME NEW w \in Writers, CreateDirectory(w)
          PROVE  TypeOK'
      <3>1. command[w].task \in Tasks /\ command[w].record \in Record
        BY <2>2, CommandShape DEF CreateDirectory
      <3>2. command' \in [Writers -> Commands]
        BY <2>2, <3>1, <2>a, CommandTypes DEF CreateDirectory
      <3> QED
        BY <2>2, <3>1, <3>2 DEF CreateDirectory
    <2>3. ASSUME NEW w \in Writers, NEW t \in Tasks, NEW s \in STATES, Move(w, t, s)
          PROVE  TypeOK'
      <3>1. task[t] \in Record
        BY <2>3 DEF Move, Recorded
      <3>2. command' \in [Writers -> Commands]
        BY <2>3, <3>1, <2>a, StagedRecords, CommandTypes DEF Move, Stage
      <3> QED
        BY <2>3, <3>2 DEF Move, Stage
    <2>4. ASSUME NEW w \in Writers, NEW t \in Tasks, NEW e \in CloseEvidence, Close(w, t, e)
          PROVE  TypeOK'
      <3>1. task[t] \in Record
        BY <2>4 DEF Close, Recorded
      <3>2. ClosedDoc(task[t], e) \in Docs \union {""}
        BY DEF ClosedDoc, Docs
      <3>3. command' \in [Writers -> Commands]
        BY <2>4, <3>1, <3>2, <2>a, StagedRecords, CommandTypes DEF Close, Stage
      <3> QED
        BY <2>4, <3>3 DEF Close, Stage
    <2>5. ASSUME NEW w \in Writers, NEW t \in Tasks, Collect(w, t)
          PROVE  TypeOK'
      <3>1. command' \in [Writers -> Commands]
        BY <2>5, <2>a, CommandTypes DEF Collect
      <3> QED
        BY <2>5, <3>1 DEF Collect
    <2>6. ASSUME NEW w \in Writers, NEW i \in 1..MaxReviews, Accept(w, i)
          PROVE  TypeOK'
      <3>1. command[w].task \in Tasks /\ command[w].version \in Versions
        BY <2>6, CommandShape DEF Accept
      <3>2. task[command[w].task] \in Record
        BY <3>1, <2>6 DEF Accept, Recorded
      <3>3. command' \in [Writers -> Commands]
        BY <2>6, <3>1, <3>2, <2>a, StagedRecords, CommandTypes DEF Accept, Stage, Docs
      <3> QED
        BY <2>6, <3>3 DEF Accept, Stage
    <2>7. ASSUME NEW w \in Writers, NEW i \in 1..MaxReviews, AcceptSupersedes(w, i)
          PROVE  TypeOK'
      <3> DEFINE t == command[w].task
      <3>1. t \in Tasks
        BY <2>7, CommandShape DEF AcceptSupersedes
      <3>2. i \in DOMAIN reviews[t]
        BY <2>7 DEF AcceptSupersedes, ReviewUsable, LatestCompleted, Completed
      <3>3. [reviews[t][i] EXCEPT !.status = "superseded"] \in Review
        BY <3>1, <3>2, ReviewUpdates
      <3>4. reviews' \in [Tasks -> Seq(Review)]
        BY <2>7, <3>1, <3>3, ReplaceReview DEF AcceptSupersedes
      <3>5. command' \in [Writers -> Commands]
        BY <2>7, <3>1, <2>a, CommandTypes DEF AcceptSupersedes
      <3> QED
        BY <2>7, <3>4, <3>5 DEF AcceptSupersedes
    <2>8. ASSUME NEW w \in Writers, WriteRecord(w)
          PROVE  TypeOK'
      <3>1. /\ command[w].task \in Tasks /\ command[w].record \in Record
            /\ command[w].doc \in Docs \union {""}
            /\ command[w].version \in Versions \union {NoVersion}
        BY <2>8, CommandShape DEF WriteRecord
      <3>2. command' \in [Writers -> Commands]
        BY <2>8, <3>1, <2>a, CommandTypes DEF WriteRecord
      <3>3. acceptedAs' \in [Tasks -> Versions \union {NoVersion}]
        BY <2>8, <3>1 DEF WriteRecord
      <3> QED
        BY <2>8, <3>1, <3>2, <3>3 DEF WriteRecord
    <2>9. ASSUME NEW w \in Writers, WriteDoc(w)
          PROVE  TypeOK'
      <3>1. command[w].task \in Tasks /\ command[w].doc \in Docs
        BY <2>9, CommandShape DEF WriteDoc
      <3>2. command' \in [Writers -> Commands]
        BY <2>9, <2>a, CommandTypes DEF WriteDoc
      <3> QED
        BY <2>9, <3>1, <3>2 DEF WriteDoc
    <2>10. ASSUME NEW w \in Writers, SupersedeAssignment(w)
           PROVE  TypeOK'
      <3> DEFINE c == command[w]
      <3>1. c.task \in Tasks
        BY <2>10, CommandShape DEF SupersedeAssignment
      <3>2. reviews' \in [Tasks -> Seq(Review)]
        <4>1. CASE c.index \in DOMAIN reviews[c.task]
          <5>1. [reviews[c.task][c.index] EXCEPT !.assignment = "superseded"] \in Review
            BY <4>1, <3>1, ReviewUpdates
          <5> QED
            BY <2>10, <3>1, <5>1, ReplaceReview DEF SupersedeAssignment
        <4>2. CASE c.index \notin DOMAIN reviews[c.task]
          <5>1. reviews' = reviews
            BY <2>10, <3>1, <4>2 DEF SupersedeAssignment
          <5> QED
            BY <5>1
        <4> QED
          BY <4>1, <4>2
      <3>3. command' \in [Writers -> Commands]
        BY <2>10, <2>a, CommandTypes DEF SupersedeAssignment
      <3> QED
        BY <2>10, <3>2, <3>3 DEF SupersedeAssignment
    <2>11. ASSUME NEW w \in Writers, Notes(w)
           PROVE  TypeOK'
      <3>1. CASE \E t \in Tasks, v \in Versions : WriteReport(w, t, v)
        <4>1. PICK t \in Tasks, v \in Versions : WriteReport(w, t, v)
          BY <3>1
        <4>2. docs' \in [Tasks -> SUBSET Docs]
          BY <4>1 DEF WriteReport, Docs
        <4>3. deliverable' \in [Tasks -> Versions]
          BY <4>1 DEF WriteReport
        <4> QED
          BY <4>1, <4>2, <4>3 DEF WriteReport
      <3>2. CASE \E t \in Tasks : WriteReview(w, t)
        <4>1. docs' \in [Tasks -> SUBSET Docs]
          BY <3>2 DEF WriteReview, Docs
        <4> QED
          BY <3>2, <4>1 DEF WriteReview
      <3> QED
        BY <2>11, <3>1, <3>2 DEF Notes
    <2>12. ASSUME NEW w \in Writers, Abort(w)
           PROVE  TypeOK'
      <3>1. command' \in [Writers -> Commands]
        BY <2>12, <2>a, CommandTypes DEF Abort
      <3> QED
        BY <2>12, <3>1 DEF Abort
    <2>13. ASSUME NEW t \in Tasks, NEW v \in Versions, Commit(t, v)
           PROVE  TypeOK'
      BY <2>13 DEF Commit
    <2>14. ASSUME NEW t \in Tasks, AskReview(t)
           PROVE  TypeOK'
      BY <2>14 DEF AskReview
    <2>15. ASSUME NEW t \in Tasks, NEW v \in {"passed", "changes_requested"}, RecordReview(t, v)
           PROVE  TypeOK'
      <3>1. [subject |-> asked[t], verdict |-> v, status |-> "completed",
             assignment |-> "dispatched"] \in Review
        BY <2>15 DEF RecordReview, Review
      <3>2. reviews' \in [Tasks -> Seq(Review)]
        BY <2>15, <3>1 DEF RecordReview
      <3> QED
        BY <2>15, <3>2 DEF RecordReview
    <2>16. ASSUME NEW t \in Tasks, NEW i \in 1..MaxReviews, CompleteReview(t, i)
           PROVE  TypeOK'
      <3>1. [reviews[t][i] EXCEPT !.assignment = "completed"] \in Review
        BY <2>16, ReviewUpdates DEF CompleteReview
      <3>2. reviews' \in [Tasks -> Seq(Review)]
        BY <2>16, <3>1, ReplaceReview DEF CompleteReview
      <3> QED
        BY <2>16, <3>2 DEF CompleteReview
    <2>17. CASE UNCHANGED vars
      BY <2>17 DEF vars
    <2> QED
      BY <2>1, <2>2, <2>3, <2>4, <2>5, <2>6, <2>7, <2>8, <2>9, <2>10, <2>11, <2>12,
         <2>13, <2>14, <2>15, <2>16, <2>17
         DEF Next, Writer, Environment, Transition, Gate
  <1> QED
    BY <1>1, <1>2, PTL DEF Spec
-----------------------------------------------------------------------------
(* What a command decided on still holds when it writes: the record it     *)
(* replaces is the one it read, of the same task, kind and agent and one   *)
(* transition before.                                                      *)
Replaces(c) ==
    /\ c.record.state \in TRANSITIONS[task[c.task].state]
    /\ c.record.kind = task[c.task].kind
    /\ c.record.agent = task[c.task].agent

CommandFresh(c) ==
    c.step = "record" =>
        /\ c.task \in taskDir
        /\ c.task \in Recorded => Replaces(c)

Fresh ==
    /\ Recorded \subseteq taskDir
    /\ \A w \in Writers : CommandFresh(command[w])

(* The other writers keep their commands.                                  *)
Only(w) == \A v \in Writers \ {w} : command'[v] = command[v]

(* The step of a writer changes its own command only.                       *)
LEMMA OwnCommand ==
    ASSUME TypeOK, NEW w \in Writers, NEW c, command' = [command EXCEPT ![w] = c]
    PROVE  command'[w] = c /\ Only(w)
  BY DEF TypeOK, Only

(* A command that is at work on a task.                                    *)
LEMMA AtWork ==
    ASSUME TypeOK, NEW w \in Writers, command[w].step # "idle"
    PROVE  Working(w) /\ command[w].task \in Tasks
  <1>1. Working(w)
    BY DEF Working, Idle
  <1>2. command[w] \in Commands
    BY DEF TypeOK
  <1>3. command[w].step \in {"mkdir", "record", "doc", "collected", "supersede"}
    BY <1>1, <1>2 DEF Commands, Working
  <1> QED
    BY <1>1, <1>2, <1>3, CommandShape

(* Of a step of a writer that leaves the records alone, only its own        *)
(* command matters.                                                        *)
LEMMA FreshKept ==
    ASSUME TypeOK, Fresh, task' = task, taskDir \subseteq taskDir',
           NEW w \in Writers, Only(w), CommandFresh(command[w])'
    PROVE  Fresh'
  <1>1. Recorded' = Recorded
    BY DEF Recorded
  <1>2. ASSUME NEW v \in Writers \ {w}
        PROVE  CommandFresh(command[v])'
    <2>1. CommandFresh(command[v]) /\ command'[v] = command[v]
      BY DEF Fresh, Only
    <2> QED
      BY <1>1, <2>1 DEF CommandFresh, Replaces
  <1> QED
    BY <1>1, <1>2 DEF Fresh

(* Staging a transition keeps Fresh: the staged record replaces one that   *)
(* is there by a step of the lifecycle.                                    *)
LEMMA FreshStaged ==
    ASSUME TypeOK, Fresh, NEW w \in Writers, NEW t \in Recorded, NEW r, NEW doc, NEW version,
           Stage(w, t, r, doc, version),
           r.state \in TRANSITIONS[task[t].state], r.kind = task[t].kind, r.agent = task[t].agent
    PROVE  Fresh'
  <1> DEFINE c == [step |-> "record", task |-> t, record |-> r, doc |-> doc, version |-> version]
  <1>1. command'[w] = c /\ Only(w) /\ task' = task /\ taskDir' = taskDir
    BY OwnCommand DEF Stage
  <1>2. Recorded' = Recorded /\ t \in taskDir
    BY <1>1 DEF Fresh, Recorded
  <1>3. CommandFresh(command[w])'
    BY <1>1, <1>2 DEF CommandFresh, Replaces
  <1> QED
    BY <1>1, <1>3, FreshKept

(* The three transitions stage such a record.                              *)
LEMMA TransitionStages ==
    ASSUME TypeOK, NEW w \in Writers,
           \/ \E t \in Tasks, s \in STATES : Move(w, t, s)
           \/ \E t \in Tasks, e \in CloseEvidence : Close(w, t, e)
           \/ \E i \in 1..MaxReviews : Accept(w, i)
    PROVE  \E t \in Recorded : \E r, doc, version :
              /\ Stage(w, t, r, doc, version)
              /\ r.state \in TRANSITIONS[task[t].state]
              /\ r.kind = task[t].kind /\ r.agent = task[t].agent
  <1>1. ASSUME NEW t \in Tasks, NEW s \in STATES, Move(w, t, s)
        PROVE  /\ t \in Recorded /\ Stage(w, t, [task[t] EXCEPT !.state = s], "", NoVersion)
               /\ LET r == [task[t] EXCEPT !.state = s]
                  IN  /\ r.state \in TRANSITIONS[task[t].state]
                      /\ r.kind = task[t].kind /\ r.agent = task[t].agent
    <2>1. task[t] \in Record /\ t \in Recorded /\ s \in TRANSITIONS[task[t].state]
      BY <1>1 DEF Move, Recorded, TypeOK
    <2> QED
      BY <1>1, <2>1 DEF Move, Record
  <1>2. ASSUME NEW t \in Tasks, NEW e \in CloseEvidence, Close(w, t, e)
        PROVE  /\ t \in Recorded
               /\ Stage(w, t, ClosedRecord(task[t], e), ClosedDoc(task[t], e), NoVersion)
               /\ ClosedRecord(task[t], e).state \in TRANSITIONS[task[t].state]
               /\ ClosedRecord(task[t], e).kind = task[t].kind
               /\ ClosedRecord(task[t], e).agent = task[t].agent
    <2>1. task[t] \in Record /\ t \in Recorded /\ "closed" \in TRANSITIONS[task[t].state]
      BY <1>2 DEF Close, Recorded, TypeOK
    <2>2. /\ ClosedRecord(task[t], e).state = "closed"
          /\ ClosedRecord(task[t], e).kind = task[t].kind
          /\ ClosedRecord(task[t], e).agent = task[t].agent
      BY <2>1 DEF ClosedRecord, Record
    <2> QED
      BY <1>2, <2>1, <2>2 DEF Close
  <1>3. ASSUME NEW i \in 1..MaxReviews, Accept(w, i)
        PROVE  LET t == command[w].task
                   version == command[w].version
               IN  /\ t \in Recorded
                   /\ Stage(w, t, AcceptedRecord(task[t], version), "acceptance", version)
                   /\ AcceptedRecord(task[t], version).state \in TRANSITIONS[task[t].state]
                   /\ AcceptedRecord(task[t], version).kind = task[t].kind
                   /\ AcceptedRecord(task[t], version).agent = task[t].agent
    <2> DEFINE t == command[w].task
               version == command[w].version
    <2>1. task[t] \in Record /\ t \in Recorded /\ "accepted" \in TRANSITIONS[task[t].state]
      BY <1>3 DEF Accept, Recorded, TypeOK
    <2>2. /\ AcceptedRecord(task[t], version).state = "accepted"
          /\ AcceptedRecord(task[t], version).kind = task[t].kind
          /\ AcceptedRecord(task[t], version).agent = task[t].agent
      BY <2>1 DEF AcceptedRecord, Record
    <2> QED
      BY <1>3, <2>1, <2>2 DEF Accept
  <1> QED
    BY <1>1, <1>2, <1>3

(* The steps of a writer that neither create, nor stage or write a record. *)
Aside(w) ==
    \/ \E t \in Tasks : Collect(w, t)
    \/ \E i \in 1..MaxReviews : AcceptSupersedes(w, i)
    \/ WriteDoc(w) \/ SupersedeAssignment(w) \/ Abort(w)

LEMMA AsideSteps ==
    ASSUME TypeOK, NEW w \in Writers, Aside(w)
    PROVE  /\ UNCHANGED <<taskDir, task, acceptedAs>> /\ Only(w)
           /\ command'[w].step \in {"idle", "collected", "supersede"}
  <1>1. Idle.step = "idle"
    BY DEF Idle
  <1>2. CASE WriteDoc(w) \/ SupersedeAssignment(w) \/ Abort(w)
    BY <1>1, <1>2, OwnCommand DEF WriteDoc, SupersedeAssignment, Abort
  <1>3. CASE \E t \in Tasks : Collect(w, t)
    <2>1. PICK t \in Tasks : Collect(w, t)
      BY <1>3
    <2>2. command'[w] = [step |-> "collected", task |-> t, version |-> deliverable[t]] /\ Only(w)
      BY <2>1, OwnCommand DEF Collect
    <2> QED
      BY <2>1, <2>2 DEF Collect
  <1>4. CASE \E i \in 1..MaxReviews : AcceptSupersedes(w, i)
    <2>1. PICK i \in 1..MaxReviews : AcceptSupersedes(w, i)
      BY <1>4
    <2>2. command'[w] = [step |-> "supersede", task |-> command[w].task, index |-> i] /\ Only(w)
      BY <2>1, OwnCommand DEF AcceptSupersedes
    <2> QED
      BY <2>1, <2>2 DEF AcceptSupersedes
  <1> QED
    BY <1>2, <1>3, <1>4 DEF Aside

(* The steps that leave records and commands alone.                        *)
Outside == (\E w \in Writers : Notes(w)) \/ Environment

LEMMA OutsideSteps ==
    ASSUME Outside \/ UNCHANGED vars
    PROVE  UNCHANGED <<taskDir, task, acceptedAs, command>>
  BY DEF Outside, Notes, WriteReport, WriteReview, Environment, Commit, AskReview, RecordReview,
         CompleteReview, vars

(* What a step may be.                                                     *)
LEMMA NextCases ==
    ASSUME [Next]_vars
    PROVE  \/ \E w \in Writers :
                \/ Create(w) \/ CreateDirectory(w)
                \/ \E t \in Tasks, s \in STATES : Move(w, t, s)
                \/ \E t \in Tasks, e \in CloseEvidence : Close(w, t, e)
                \/ \E i \in 1..MaxReviews : Accept(w, i)
                \/ WriteRecord(w) \/ Aside(w)
           \/ Outside \/ UNCHANGED vars
  BY DEF Next, Writer, Transition, Gate, Aside, Outside

(* What writing a record does to records and commands.                     *)
LEMMA RecordWritten ==
    ASSUME TypeOK, NEW w \in Writers, WriteRecord(w)
    PROVE  LET c == command[w] IN
           /\ c.step = "record" /\ c.task \in Tasks /\ c.record \in Record /\ Working(w)
           /\ taskDir' = taskDir /\ Only(w)
           /\ task'[c.task] = c.record /\ \A u \in Tasks \ {c.task} : task'[u] = task[u]
           /\ Recorded' = Recorded \union {c.task}
           /\ command'[w].step \in {"idle", "doc"}
  <1> DEFINE c == command[w]
             d == [step |-> "doc", task |-> c.task, doc |-> c.doc]
  <1>1. c.step = "record" /\ c.task \in Tasks /\ c.record \in Record
    BY CommandShape DEF WriteRecord, TypeOK
  <1>2. task'[c.task] = c.record /\ \A u \in Tasks \ {c.task} : task'[u] = task[u]
    BY <1>1 DEF WriteRecord, TypeOK
  <1>3. Recorded' = Recorded \union {c.task}
    BY <1>1, <1>2, NoTaskAssumption DEF Recorded
  <1>4. command'[w] = (IF c.doc = "" THEN Idle ELSE d) /\ Only(w) /\ taskDir' = taskDir
    BY OwnCommand DEF WriteRecord
  <1>5. Idle.step = "idle" /\ d.step = "doc"
    BY DEF Idle
  <1>6. command'[w].step \in {"idle", "doc"}
    BY <1>4, <1>5
  <1>7. Working(w)
    BY <1>1, AtWork
  <1> QED
    BY <1>1, <1>2, <1>3, <1>4, <1>6, <1>7

(* Every step keeps Fresh, as long as no two commands are about one task.  *)
LEMMA FreshInvariant ==
    ASSUME OneCommandPerTask, TypeOK, Fresh, [Next]_vars
    PROVE  Fresh'
  <1>1. ASSUME NEW w \in Writers, Create(w)
        PROVE  Fresh'
    <2>1. PICK t \in Tasks, k \in Kinds, a \in Agents, b \in BOOLEAN :
                 CreateCheck(w, t, NewRecord(k, a, b))
      BY <1>1 DEF Create
    <2> DEFINE c == [step |-> "mkdir", task |-> t, record |-> NewRecord(k, a, b)]
    <2>2. command'[w] = c /\ Only(w) /\ task' = task /\ taskDir' = taskDir
      BY <2>1, OwnCommand DEF CreateCheck
    <2>3. command'[w].step = "mkdir"
      BY <2>2
    <2> QED
      BY <2>2, <2>3, FreshKept DEF CommandFresh
  <1>2. ASSUME NEW w \in Writers, CreateDirectory(w)
        PROVE  Fresh'
    <2> DEFINE d == command[w]
               c == [step |-> "record", task |-> d.task, record |-> d.record, doc |-> "",
                     version |-> NoVersion]
    <2>1. /\ command'[w] = c /\ Only(w) /\ task' = task
          /\ taskDir' = taskDir \union {d.task} /\ d.task \notin taskDir
      BY <1>2, OwnCommand DEF CreateDirectory
    <2>2. d.task \notin Recorded'
      BY <2>1 DEF Recorded, Fresh
    <2>3. command'[w].task = d.task
      <3>1. c.task = d.task
        OBVIOUS
      <3> HIDE DEF c
      <3> QED
        BY <2>1, <3>1
    <2> QED
      BY <2>1, <2>2, <2>3, FreshKept DEF CommandFresh
  <1>3. ASSUME NEW w \in Writers,
               \/ \E t \in Tasks, s \in STATES : Move(w, t, s)
               \/ \E t \in Tasks, e \in CloseEvidence : Close(w, t, e)
               \/ \E i \in 1..MaxReviews : Accept(w, i)
        PROVE  Fresh'
    BY <1>3, TransitionStages, FreshStaged
  <1>4. ASSUME NEW w \in Writers, WriteRecord(w)
        PROVE  Fresh'
    <2> DEFINE c == command[w]
    <2>1. /\ c.step = "record" /\ c.task \in Tasks /\ Working(w) /\ taskDir' = taskDir /\ Only(w)
          /\ \A u \in Tasks \ {c.task} : task'[u] = task[u]
          /\ Recorded' = Recorded \union {c.task}
          /\ command'[w].step \in {"idle", "doc"}
      BY <1>4, RecordWritten
    <2>2. Recorded' \subseteq taskDir'
      BY <2>1 DEF Fresh, CommandFresh
    <2>3. ASSUME NEW v \in Writers \ {w}, command[v].step = "record"
          PROVE  CommandFresh(command[v])'
      <3>1. command[v].task \in Tasks /\ command[v].task # c.task /\ command'[v] = command[v]
        BY <2>1, <2>3, AtWork DEF OneCommandPerTask, Only
      <3>2. CommandFresh(command[v]) /\ task'[command[v].task] = task[command[v].task]
        BY <2>1, <3>1 DEF Fresh
      <3> QED
        BY <2>1, <3>1, <3>2 DEF CommandFresh, Replaces
    <2>4. ASSUME NEW v \in Writers, command'[v].step = "record"
          PROVE  CommandFresh(command[v])'
      BY <2>1, <2>3, <2>4 DEF Only
    <2> QED
      BY <2>2, <2>4 DEF Fresh, CommandFresh
  <1>5. ASSUME NEW w \in Writers, Aside(w)
        PROVE  Fresh'
    BY <1>5, AsideSteps, FreshKept DEF CommandFresh
  <1>6. ASSUME Outside \/ UNCHANGED vars
        PROVE  Fresh'
    <2>1. task' = task /\ taskDir' = taskDir /\ command' = command
      BY <1>6, OutsideSteps
    <2> QED
      BY <2>1 DEF Fresh, CommandFresh, Replaces, Recorded
  <1> QED
    BY <1>1, <1>2, <1>3, <1>4, <1>5, <1>6, NextCases

(* Fresh holds of the empty store.                                         *)
LEMMA FreshInit == Init => Fresh
  BY DEF Init, Fresh, CommandFresh, Recorded, Idle

(* Only WriteRecord changes task.json.                                      *)
LEMMA OnlyWriteRecord ==
    ASSUME TypeOK, [Next]_vars, task' # task
    PROVE  \E w \in Writers : WriteRecord(w)
  <1>1. ASSUME NEW w \in Writers,
               \/ \E t \in Tasks, s \in STATES : Move(w, t, s)
               \/ \E t \in Tasks, e \in CloseEvidence : Close(w, t, e)
               \/ \E i \in 1..MaxReviews : Accept(w, i)
        PROVE  task' = task
    BY <1>1, TransitionStages DEF Stage
  <1>2. ASSUME NEW w \in Writers, Create(w) \/ CreateDirectory(w)
        PROVE  task' = task
    BY <1>2 DEF Create, CreateCheck, CreateDirectory
  <1> QED
    BY <1>1, <1>2, NextCases, AsideSteps, OutsideSteps

(* The lifecycle of a record, while no two commands are about one task.     *)
THEOREM LifecycleCorrect == Spec /\ []OneCommandPerTask => LifecycleSteps
  <1> DEFINE Legal ==
        \A t \in Recorded :
          /\ task'[t] # NoTask
          /\ task'[t].kind = task[t].kind /\ task'[t].agent = task[t].agent
          /\ \/ task'[t].state \in TRANSITIONS[task[t].state]
             \/ task'[t] = task[t]
  <1>1. TypeOK /\ Fresh /\ [Next]_vars => [Legal]_task
    <2> SUFFICES ASSUME TypeOK, Fresh, [Next]_vars, task' # task, NEW t \in Recorded
                 PROVE  /\ task'[t] # NoTask
                        /\ task'[t].kind = task[t].kind /\ task'[t].agent = task[t].agent
                        /\ \/ task'[t].state \in TRANSITIONS[task[t].state]
                           \/ task'[t] = task[t]
      OBVIOUS
    <2>1. PICK w \in Writers : WriteRecord(w)
      BY OnlyWriteRecord
    <2>2. /\ command[w].step = "record" /\ command[w].record \in Record
          /\ task'[command[w].task] = command[w].record
          /\ \A u \in Tasks \ {command[w].task} : task'[u] = task[u]
      BY <2>1, RecordWritten
    <2>3. CASE t = command[w].task
      <3>1. Replaces(command[w])
        BY <2>2, <2>3 DEF Fresh, CommandFresh
      <3> QED
        BY <2>2, <2>3, <3>1, NoTaskAssumption DEF Replaces
    <2>4. CASE t # command[w].task
      BY <2>2, <2>4 DEF Recorded
    <2> QED
      BY <2>3, <2>4
  <1>2. OneCommandPerTask /\ TypeOK /\ Fresh /\ [Next]_vars => Fresh'
    BY FreshInvariant
  <1> QED
    BY <1>1, <1>2, FreshInit, TypeCorrect, PTL DEF Spec, LifecycleSteps
-----------------------------------------------------------------------------
(* Room for the task that is being created stays until it is there, while  *)
(* nothing else is created; transitions only make more of it.              *)
Room(agent) == Cardinality(ActiveTasks) < MaxActive /\ AgentFree(agent)

RoomInv == \A w \in Writers : Creating(w) => Room(command[w].record.agent)

(* Fewer unfinished tasks, of the agents they had, leave as much room.     *)
LEMMA RoomStays ==
    ASSUME NEW agent, Room(agent),
           ActiveTasks' \subseteq ActiveTasks,
           \A u \in ActiveTasks' : task'[u].agent = task[u].agent
    PROVE  Room(agent)'
  <1>1. IsFiniteSet(ActiveTasks)
    BY FS_Subset, TaskStoreAssumption DEF ActiveTasks, Recorded
  <1>2. /\ Cardinality(ActiveTasks') <= Cardinality(ActiveTasks)
        /\ Cardinality(ActiveTasks') \in Nat /\ Cardinality(ActiveTasks) \in Nat
    BY <1>1, FS_Subset, FS_CardinalityType
  <1>3. Cardinality(ActiveTasks') < MaxActive
    BY <1>2, TaskStoreAssumption DEF Room
  <1> QED
    BY <1>3 DEF Room, AgentFree

(* A record that replaces another is of a task that was unfinished.        *)
LEMMA ReplacedIsActive ==
    ASSUME TypeOK, Fresh, NEW w \in Writers, WriteRecord(w), command[w].task \in Recorded
    PROVE  /\ command[w].task \in ActiveTasks
           /\ ActiveTasks' \subseteq ActiveTasks
           /\ \A u \in ActiveTasks' : task'[u].agent = task[u].agent
  <1> DEFINE c == command[w]
  <1>1. /\ c.step = "record" /\ c.task \in Tasks
        /\ task'[c.task] = c.record /\ \A u \in Tasks \ {c.task} : task'[u] = task[u]
        /\ Recorded' = Recorded \union {c.task}
    BY RecordWritten
  <1>2. Replaces(c) /\ task[c.task] \in Record
    BY <1>1 DEF Fresh, CommandFresh, Recorded, TypeOK
  <1>3. task[c.task].state # "closed"
    BY <1>2 DEF Replaces, TRANSITIONS, STATES, Record
  <1>4. c.task \in ActiveTasks
    BY <1>2, <1>3 DEF ActiveTasks, ACTIVE, Record
  <1>5. ActiveTasks' \subseteq ActiveTasks
    BY <1>1, <1>4 DEF ActiveTasks, Recorded
  <1>6. \A u \in ActiveTasks' : task'[u].agent = task[u].agent
    BY <1>1, <1>2 DEF Replaces, ActiveTasks, Recorded
  <1> QED
    BY <1>4, <1>5, <1>6

(* A command that is not creating after a step that leaves records alone.  *)
LEMMA RoomKept ==
    ASSUME RoomInv, task' = task, NEW w \in Writers, Only(w),
           Creating(w)' => Room(command'[w].record.agent)
    PROVE  RoomInv'
  <1>1. Recorded' = Recorded /\ ActiveTasks' = ActiveTasks
    BY DEF Recorded, ActiveTasks
  <1>2. \A agent : Room(agent)' <=> Room(agent)
    BY <1>1 DEF Room, AgentFree
  <1>3. ASSUME NEW v \in Writers \ {w}, Creating(v)'
        PROVE  Room(command[v].record.agent)'
    <2>1. Creating(v) /\ command'[v] = command[v]
      BY <1>1, <1>3 DEF Creating, Only
    <2> QED
      BY <1>2, <2>1 DEF RoomInv
  <1>4. Creating(w)' => Room(command[w].record.agent)'
    BY <1>2
  <1> QED
    BY <1>3, <1>4 DEF RoomInv

(* Every step keeps the room, as long as no two commands create.           *)
LEMMA RoomInvariant ==
    ASSUME OneCreate, TypeOK, Fresh, RoomInv, [Next]_vars
    PROVE  RoomInv'
  <1>1. ASSUME NEW w \in Writers, Create(w)
        PROVE  RoomInv'
    <2>1. PICK t \in Tasks, k \in Kinds, a \in Agents, b \in BOOLEAN :
                 CreateCheck(w, t, NewRecord(k, a, b))
      BY <1>1 DEF Create
    <2> DEFINE r == NewRecord(k, a, b)
               c == [step |-> "mkdir", task |-> t, record |-> r]
    <2>2. command'[w] = c /\ Only(w) /\ task' = task /\ Room(r.agent)
      BY <2>1, OwnCommand DEF CreateCheck, Room
    <2> HIDE DEF r
    <2>3. command'[w].record = r
      BY <2>2
    <2> QED
      BY <2>2, <2>3, RoomKept
  <1>2. ASSUME NEW w \in Writers, CreateDirectory(w)
        PROVE  RoomInv'
    <2> DEFINE d == command[w]
               c == [step |-> "record", task |-> d.task, record |-> d.record, doc |-> "",
                     version |-> NoVersion]
    <2>1. command'[w] = c /\ Only(w) /\ task' = task /\ d.step = "mkdir"
      BY <1>2, OwnCommand DEF CreateDirectory
    <2>2. Room(d.record.agent)
      BY <2>1 DEF RoomInv, Creating
    <2>3. command'[w].record = d.record
      <3>1. c.record = d.record
        OBVIOUS
      <3> HIDE DEF c
      <3> QED
        BY <2>1, <3>1
    <2> QED
      BY <2>1, <2>2, <2>3, RoomKept
  <1>3. ASSUME NEW w \in Writers,
               \/ \E t \in Tasks, s \in STATES : Move(w, t, s)
               \/ \E t \in Tasks, e \in CloseEvidence : Close(w, t, e)
               \/ \E i \in 1..MaxReviews : Accept(w, i)
        PROVE  RoomInv'
    <2>0. PICK t \in Recorded : \E r, doc, version : Stage(w, t, r, doc, version)
      BY <1>3, TransitionStages
    <2>1. PICK r, doc, version : Stage(w, t, r, doc, version)
      BY <2>0
    <2> DEFINE c == [step |-> "record", task |-> t, record |-> r, doc |-> doc, version |-> version]
    <2>2. command'[w] = c /\ Only(w) /\ task' = task
      BY <2>1, OwnCommand DEF Stage
    <2>3. command'[w].step = "record" /\ command'[w].task \in Recorded'
      BY <2>2 DEF Recorded
    <2>4. ~Creating(w)'
      BY <2>3 DEF Creating
    <2> QED
      BY <2>2, <2>4, RoomKept
  <1>4. ASSUME NEW w \in Writers, WriteRecord(w)
        PROVE  RoomInv'
    <2> DEFINE c == command[w]
    <2>1. /\ c.step = "record" /\ Only(w) /\ Recorded' = Recorded \union {c.task}
          /\ command'[w].step \in {"idle", "doc"}
      BY <1>4, RecordWritten
    <2>2. \A v \in Writers : Creating(v)' => v # w /\ Creating(v) /\ command'[v] = command[v]
      BY <2>1 DEF Creating, Only
    <2>3. CASE c.task \in Recorded
      <3>1. \A v \in Writers : Creating(v)' => Room(command[v].record.agent)'
        <4> SUFFICES ASSUME NEW v \in Writers, Creating(v)'
                     PROVE  Room(command[v].record.agent)'
          OBVIOUS
        <4>1. Room(command[v].record.agent) /\ command'[v] = command[v]
          BY <2>2 DEF RoomInv
        <4> DEFINE a == command[v].record.agent
        <4>2. Room(a) /\ a' = a
          BY <4>1
        <4> QED
          BY <1>4, <2>3, <4>1, ReplacedIsActive, RoomStays DEF Room, AgentFree
      <3> QED
        BY <3>1 DEF RoomInv
    <2>4. CASE c.task \notin Recorded
      <3>1. Creating(w)
        BY <2>1, <2>4 DEF Creating
      <3>2. \A v \in Writers : ~Creating(v)'
        BY <2>2, <3>1 DEF OneCreate
      <3> QED
        BY <3>2 DEF RoomInv
    <2> QED
      BY <2>3, <2>4
  <1>5. ASSUME NEW w \in Writers, Aside(w)
        PROVE  RoomInv'
    <2>1. ~Creating(w)'
      BY <1>5, AsideSteps DEF Creating
    <2> QED
      BY <1>5, <2>1, AsideSteps, RoomKept
  <1>6. ASSUME Outside \/ UNCHANGED vars
        PROVE  RoomInv'
    <2>1. task' = task /\ command' = command
      BY <1>6, OutsideSteps
    <2> QED
      BY <2>1 DEF RoomInv, Room, Creating, AgentFree, Recorded, ActiveTasks
  <1> QED
    BY <1>1, <1>2, <1>3, <1>4, <1>5, <1>6, NextCases

(* Nobody creates at first.                                                *)
LEMMA RoomInit == Init => RoomInv
  BY DEF Init, RoomInv, Creating, Idle

(* Admission, while no two commands are about one task and no two create:  *)
(* never more than MaxActive unfinished tasks and never two for one agent. *)
THEOREM WipLimitCorrect == Spec /\ []Undisturbed => []WipLimit
  <1>1. Init => WipLimit
    <2> SUFFICES ASSUME Init PROVE WipLimit
      OBVIOUS
    <2>1. ActiveTasks = {}
      BY DEF Init, ActiveTasks, Recorded
    <2> QED
      BY <2>1, FS_EmptySet, TaskStoreAssumption DEF WipLimit
  <1>2. TypeOK /\ Fresh /\ RoomInv /\ WipLimit /\ [Next]_vars => WipLimit'
    <2> SUFFICES ASSUME TypeOK, Fresh, RoomInv, WipLimit, [Next]_vars
                 PROVE  WipLimit'
      OBVIOUS
    <2>1. CASE task' = task
      BY <2>1 DEF WipLimit, ActiveTasks, Recorded
    <2>2. CASE task' # task
      <3>1. PICK w \in Writers : WriteRecord(w)
        BY <2>2, OnlyWriteRecord
      <3> DEFINE c == command[w]
      <3>2. /\ c.step = "record" /\ c.task \in Tasks
            /\ task'[c.task] = c.record /\ \A u \in Tasks \ {c.task} : task'[u] = task[u]
        BY <3>1, RecordWritten
      <3>3. ActiveTasks' \subseteq ActiveTasks \union {c.task}
        BY <3>2 DEF ActiveTasks, Recorded
      <3>4. IsFiniteSet(ActiveTasks)
        BY FS_Subset, TaskStoreAssumption DEF ActiveTasks, Recorded
      <3>5. Cardinality(ActiveTasks) \in Nat
        BY <3>4, FS_CardinalityType
      <3>6. CASE c.task \notin Recorded
        <4>1. Room(c.record.agent)
          BY <3>2, <3>6 DEF RoomInv, Creating
        <4>2. c.task \notin ActiveTasks
          BY <3>6 DEF ActiveTasks
        <4>3. /\ IsFiniteSet(ActiveTasks \union {c.task})
              /\ Cardinality(ActiveTasks \union {c.task}) = Cardinality(ActiveTasks) + 1
          BY <3>4, <4>2, FS_AddElement
        <4>4. Cardinality(ActiveTasks') <= Cardinality(ActiveTasks) + 1
              /\ Cardinality(ActiveTasks') \in Nat
          BY <3>3, <4>3, FS_Subset, FS_CardinalityType
        <4>5. Cardinality(ActiveTasks') <= MaxActive
          BY <3>5, <4>1, <4>4, TaskStoreAssumption DEF Room
        <4>6. \A u \in ActiveTasks' \ {c.task} :
                u \in ActiveTasks /\ task'[u].agent = task[u].agent
          BY <3>2, <3>3 DEF ActiveTasks, Recorded
        <4>7. \A u \in ActiveTasks' \ {c.task} : task'[u].agent # task'[c.task].agent
          BY <3>2, <4>1, <4>6 DEF Room, AgentFree
        <4>8. \A t, u \in ActiveTasks' : task'[t].agent = task'[u].agent => t = u
          BY <4>6, <4>7 DEF WipLimit
        <4> QED
          BY <4>5, <4>8 DEF WipLimit
      <3>7. CASE c.task \in Recorded
        <4>1. /\ ActiveTasks' \subseteq ActiveTasks
              /\ \A u \in ActiveTasks' : task'[u].agent = task[u].agent
          BY <3>1, <3>7, ReplacedIsActive
        <4>2. Cardinality(ActiveTasks') <= Cardinality(ActiveTasks)
              /\ Cardinality(ActiveTasks') \in Nat
          BY <3>4, <4>1, FS_Subset, FS_CardinalityType
        <4>3. Cardinality(ActiveTasks') <= MaxActive
          BY <3>5, <4>2, TaskStoreAssumption DEF WipLimit
        <4>4. \A t, u \in ActiveTasks' : task'[t].agent = task'[u].agent => t = u
          BY <4>1 DEF WipLimit
        <4> QED
          BY <4>3, <4>4 DEF WipLimit
      <3> QED
        BY <3>6, <3>7
    <2> QED
      BY <2>1, <2>2
  <1>3. Undisturbed /\ TypeOK /\ Fresh /\ RoomInv /\ [Next]_vars => Fresh' /\ RoomInv'
    BY FreshInvariant, RoomInvariant DEF Undisturbed
  <1> QED
    BY <1>1, <1>2, <1>3, FreshInit, RoomInit, TypeCorrect, PTL DEF Spec
-----------------------------------------------------------------------------
(* The gate, while no two commands are about one task.  What a record      *)
(* claims is justified by the Review Records and the version it was        *)
(* accepted as; the same holds of a record that is staged, and of what a   *)
(* markdown file says or is about to say.                                  *)
GoodReview(s, v) ==
    \E i \in DOMAIN s :
        /\ s[i].subject = v /\ s[i].verdict = "passed"
        /\ s[i].status = "completed" /\ s[i].assignment = "completed"

Decided(r) == r.state = "accepted" \/ r.closure \in {"merged", "accepted"}

Justified(r, s, v) ==
    /\ (r.closure # "") <=> (r.state = "closed")
    /\ Decided(r) =>
          /\ GoodReview(s, v) /\ v \in Versions
          /\ r.kind = "code" => r.delivery = v /\ r.authorized = TRUE
    /\ r.merged = TRUE => r.closure = "merged"
    /\ r.closure = "merged" => r.kind = "code" /\ r.merged = TRUE
    /\ r.closure = "accepted" => r.kind # "code"

Claims(doc, r, v) ==
    /\ doc = "acceptance" => r.state \in {"accepted", "closed"} /\ v \in Versions
    /\ doc = "delivery" => r.closure = "merged"
    /\ doc = "cancellation" => r.closure = "cancelled"

Blank(r) == r.state = "planned" /\ r.closure = "" /\ r.merged = FALSE

\* what acceptedAs will be once c has written its record
AsOf(c) == IF c.record.state = "accepted" THEN c.version ELSE acceptedAs[c.task]

CommandSound(c) ==
    /\ c.step = "mkdir" => Blank(c.record)
    /\ c.step = "record" =>
          /\ Justified(c.record, reviews[c.task], AsOf(c))
          /\ Claims(c.doc, c.record, AsOf(c))
          /\ c.task \notin Recorded => Blank(c.record)
    /\ c.step = "doc" =>
          c.task \in Recorded /\ Claims(c.doc, task[c.task], acceptedAs[c.task])
    /\ c.step = "supersede" =>
          /\ c.index \in DOMAIN reviews[c.task]
          /\ reviews[c.task][c.index].status = "superseded"

RecordsSound == \A t \in Recorded : Justified(task[t], reviews[t], acceptedAs[t])

DocsSound ==
    \A t \in Tasks, doc \in {"acceptance", "delivery", "cancellation"} :
        doc \in docs[t] => t \in Recorded /\ Claims(doc, task[t], acceptedAs[t])

GateInv == RecordsSound /\ DocsSound /\ \A w \in Writers : CommandSound(command[w])

(* Of a record, its reviews only matter to what it has decided.            *)
LEMMA JustifiedStays ==
    ASSUME NEW r, NEW s, NEW z, NEW v, Justified(r, s, v),
           Decided(r) /\ GoodReview(s, v) => GoodReview(z, v)
    PROVE  Justified(r, z, v)
  BY DEF Justified

(* A step that leaves records and their versions alone.                    *)
LEMMA RecordsStay ==
    ASSUME TypeOK, GateInv, UNCHANGED <<task, acceptedAs>>,
           \A t \in Recorded : Decided(task[t]) /\ GoodReview(reviews[t], acceptedAs[t])
               => GoodReview(reviews'[t], acceptedAs[t]),
           \A t \in Tasks : docs'[t] \subseteq docs[t] \union {"report", "review"},
           \A w \in Writers : CommandSound(command[w])'
    PROVE  GateInv'
  <1>1. Recorded' = Recorded
    BY DEF Recorded
  <1>2. RecordsSound'
    <2> SUFFICES ASSUME NEW t \in Recorded
                 PROVE  Justified(task[t], reviews'[t], acceptedAs[t])
      BY <1>1 DEF RecordsSound
    <2>1. Justified(task[t], reviews[t], acceptedAs[t])
      BY DEF GateInv, RecordsSound
    <2> QED
      BY <2>1, JustifiedStays
  <1>3. DocsSound'
    BY <1>1 DEF GateInv, DocsSound
  <1> QED
    BY <1>2, <1>3 DEF GateInv

(* A command that is none of the four steps has nothing to keep.           *)
LEMMA NothingStaged ==
    ASSUME NEW w \in Writers, command'[w].step \in {"idle", "collected"}
    PROVE  CommandSound(command[w])'
  BY DEF CommandSound

(* A command is as sound after a step of somebody else that leaves its     *)
(* task alone.                                                             *)
LEMMA CommandStays ==
    ASSUME GateInv, NEW w \in Writers, command'[w] = command[w],
           command[w].step # "idle" =>
              /\ task'[command[w].task] = task[command[w].task]
              /\ acceptedAs'[command[w].task] = acceptedAs[command[w].task]
              /\ command[w].task \in Recorded' <=> command[w].task \in Recorded
              /\ \A v : GoodReview(reviews[command[w].task], v)
                        => GoodReview(reviews'[command[w].task], v),
           command[w].step = "supersede" =>
              /\ command[w].index \in DOMAIN reviews'[command[w].task]
              /\ reviews'[command[w].task][command[w].index].status = "superseded"
    PROVE  CommandSound(command[w])'
  <1>1. CommandSound(command[w])
    BY DEF GateInv
  <1>2. CASE command[w].step = "record"
    <2> DEFINE c == command[w]
    <2>1. AsOf(command[w])' = AsOf(command[w])
      BY <1>2 DEF AsOf
    <2>2. Justified(c.record, reviews'[c.task], AsOf(c)) /\ Claims(c.doc, c.record, AsOf(c))
      BY <1>1, <1>2, JustifiedStays DEF CommandSound
    <2>3. c.task \notin Recorded' => Blank(c.record)
      BY <1>1, <1>2 DEF CommandSound
    <2> QED
      BY <1>2, <2>1, <2>2, <2>3 DEF CommandSound
  <1>3. CASE command[w].step # "record"
    BY <1>1, <1>3 DEF CommandSound
  <1> QED
    BY <1>2, <1>3

(* The commands of the others, when a step leaves records, versions and    *)
(* reviews alone.                                                          *)
LEMMA UntouchedSound ==
    ASSUME GateInv, NEW w \in Writers, Only(w),
           UNCHANGED <<task, acceptedAs, reviews>>
    PROVE  \A v \in Writers \ {w} : CommandSound(command[v])'
  <1> SUFFICES ASSUME NEW v \in Writers \ {w}
               PROVE  CommandSound(command[v])'
    OBVIOUS
  <1>1. Recorded' = Recorded /\ command'[v] = command[v]
    BY DEF Recorded, Only
  <1>2. CommandSound(command[v])
    BY DEF GateInv
  <1>3. command[v].step = "supersede" =>
          /\ command[v].index \in DOMAIN reviews'[command[v].task]
          /\ reviews'[command[v].task][command[v].index].status = "superseded"
    BY <1>2 DEF CommandSound
  <1> QED
    BY <1>1, <1>3, CommandStays

(* The commands of the others, when a command works on its own task.       *)
LEMMA ElsewhereSound ==
    ASSUME OneCommandPerTask, TypeOK, GateInv, NEW w \in Writers, Working(w), Only(w),
           \A u \in Tasks \ {command[w].task} :
              /\ task'[u] = task[u] /\ acceptedAs'[u] = acceptedAs[u]
              /\ reviews'[u] = reviews[u]
    PROVE  \A v \in Writers \ {w} : CommandSound(command[v])'
  <1> SUFFICES ASSUME NEW v \in Writers \ {w}
               PROVE  CommandSound(command[v])'
    OBVIOUS
  <1>1. command'[v] = command[v] /\ CommandSound(command[v])
    BY DEF GateInv, Only
  <1>2. CASE command[v].step = "idle"
    BY <1>1, <1>2, NothingStaged
  <1>3. CASE command[v].step # "idle"
    <2>1. command[v].task \in Tasks \ {command[w].task}
      BY <1>3, AtWork DEF OneCommandPerTask
    <2>2. command[v].task \in Recorded' <=> command[v].task \in Recorded
      BY <2>1 DEF Recorded
    <2>3. command[v].step = "supersede" =>
            /\ command[v].index \in DOMAIN reviews'[command[v].task]
            /\ reviews'[command[v].task][command[v].index].status = "superseded"
      BY <1>1, <2>1 DEF CommandSound
    <2> QED
      BY <1>1, <2>1, <2>2, <2>3, CommandStays
  <1> QED
    BY <1>2, <1>3

(* Staging a record that is justified.                                     *)
LEMMA StagingKeeps ==
    ASSUME TypeOK, GateInv, NEW w \in Writers, NEW c,
           command' = [command EXCEPT ![w] = c], c.step = "record",
           UNCHANGED <<task, docs, reviews, acceptedAs>>,
           Justified(c.record, reviews[c.task], AsOf(c)),
           Claims(c.doc, c.record, AsOf(c)),
           c.task \notin Recorded => Blank(c.record)
    PROVE  GateInv'
  <1>1. command'[w] = c /\ Only(w) /\ Recorded' = Recorded
    BY OwnCommand DEF Recorded
  <1>2. AsOf(command[w])' = AsOf(c)
    BY <1>1 DEF AsOf
  <1>3. CommandSound(command[w])'
    BY <1>1, <1>2 DEF CommandSound
  <1> QED
    BY <1>1, <1>3, UntouchedSound, RecordsStay

(* create stages a record that claims nothing.                             *)
LEMMA CreateJustified ==
    ASSUME OneCommandPerTask, TypeOK, GateInv, NEW w \in Writers, Create(w) \/ CreateDirectory(w)
    PROVE  GateInv'
  <1>1. CASE Create(w)
    <2>1. PICK t \in Tasks, k \in Kinds, a \in Agents, b \in BOOLEAN :
                 CreateCheck(w, t, NewRecord(k, a, b))
      BY <1>1 DEF Create
    <2> DEFINE r == NewRecord(k, a, b)
               c == [step |-> "mkdir", task |-> t, record |-> r]
    <2>2. Blank(r)
      BY DEF NewRecord, Blank
    <2> HIDE DEF r
    <2>3. command'[w] = c /\ Only(w) /\ UNCHANGED <<task, docs, reviews, acceptedAs>>
      BY <2>1, OwnCommand DEF CreateCheck, r
    <2>4. c.step = "mkdir" /\ c.record = r
      OBVIOUS
    <2>5. CommandSound(command[w])'
      BY <2>2, <2>3, <2>4 DEF CommandSound
    <2> QED
      BY <2>3, <2>5, UntouchedSound, RecordsStay
  <1>2. CASE CreateDirectory(w)
    <2> DEFINE r == command[w].record
               c == [step |-> "record", task |-> command[w].task, record |-> r, doc |-> "",
                     version |-> NoVersion]
    <2>1. Blank(r)
      BY <1>2 DEF CreateDirectory, GateInv, CommandSound
    <2>2. \A s, v : Justified(r, s, v) /\ Claims("", r, v)
      BY <2>1 DEF Blank, Justified, Claims, Decided
    <2> HIDE DEF r
    <2>3. command' = [command EXCEPT ![w] = c] /\ UNCHANGED <<task, docs, reviews, acceptedAs>>
      BY <1>2 DEF CreateDirectory, r
    <2>4. c.step = "record" /\ c.record = r /\ c.doc = ""
      OBVIOUS
    <2> HIDE DEF c
    <2> QED
      BY <2>1, <2>2, <2>3, <2>4, StagingKeeps
  <1> QED
    BY <1>1, <1>2

(* A transition short of accepted or closed leaves no claim behind.        *)
LEMMA MoveJustified ==
    ASSUME OneCommandPerTask, TypeOK, GateInv, NEW w \in Writers, NEW t \in Tasks, NEW s \in STATES, Move(w, t, s)
    PROVE  GateInv'
  <1> DEFINE r == [task[t] EXCEPT !.state = s]
             c == [step |-> "record", task |-> t, record |-> r, doc |-> "",
                   version |-> NoVersion]
  <1>1. /\ t \in Recorded /\ task[t] \in Record
        /\ s \in TRANSITIONS[task[t].state] /\ s # "accepted" /\ s # "closed"
    BY DEF Move, Recorded, TypeOK
  <1>2. task[t].state # "closed"
    BY <1>1 DEF TRANSITIONS, STATES
  <1>3. Justified(task[t], reviews[t], acceptedAs[t])
    BY <1>1 DEF GateInv, RecordsSound
  <1>4. /\ r.state = s /\ r.closure = task[t].closure /\ r.merged = task[t].merged
        /\ r.kind = task[t].kind
    BY <1>1 DEF Record
  <1>5. command' = [command EXCEPT ![w] = c] /\ UNCHANGED <<task, docs, reviews, acceptedAs>>
    BY DEF Move, Stage
  <1> HIDE DEF r
  <1>6. Justified(r, reviews[t], acceptedAs[t]) /\ Claims("", r, acceptedAs[t])
    BY <1>1, <1>2, <1>3, <1>4 DEF Justified, Claims, Decided
  <1>7. c.step = "record" /\ c.record = r /\ c.doc = "" /\ c.task = t
    OBVIOUS
  <1> HIDE DEF c
  <1>8. AsOf(c) = acceptedAs[t]
    BY <1>1, <1>4, <1>7 DEF AsOf
  <1> QED
    BY <1>1, <1>5, <1>6, <1>7, <1>8, StagingKeeps

(* A merge or a plain closing stands on the acceptance; a cancellation     *)
(* claims nothing.                                                         *)
LEMMA CloseJustified ==
    ASSUME OneCommandPerTask, TypeOK, GateInv, NEW w \in Writers, NEW t \in Tasks, NEW e \in CloseEvidence,
           Close(w, t, e)
    PROVE  GateInv'
  <1> DEFINE old == task[t]
             r == ClosedRecord(old, e)
             doc == ClosedDoc(old, e)
             c == [step |-> "record", task |-> t, record |-> r, doc |-> doc,
                   version |-> NoVersion]
  <1>1. /\ t \in Recorded /\ old \in Record
        /\ "closed" \in TRANSITIONS[old.state]
        /\ old.state # "accepted" => IsCancellation(e)
    BY DEF Close, Recorded, TypeOK, IsCancellation
  <1>2. old.state # "closed"
    BY <1>1 DEF TRANSITIONS, STATES
  <1>3. Justified(old, reviews[t], acceptedAs[t])
    BY <1>1 DEF GateInv, RecordsSound
  <1>4. command' = [command EXCEPT ![w] = c] /\ UNCHANGED <<task, docs, reviews, acceptedAs>>
    BY DEF Close, Stage
  <1> HIDE DEF old
  <1>5. r.state = "closed" /\ r.kind = old.kind
    BY <1>1 DEF ClosedRecord, Record
  <1>6. Justified(r, reviews[t], acceptedAs[t]) /\ Claims(doc, r, acceptedAs[t])
    <2>1. CASE IsCancellation(e)
      <3>1. r = [old EXCEPT !.state = "closed", !.closure = "cancelled"] /\ doc = "cancellation"
        BY <2>1 DEF ClosedRecord, ClosedDoc
      <3>2. r.closure = "cancelled" /\ r.merged = old.merged
        BY <1>1, <3>1 DEF Record
      <3>3. old.merged # TRUE
        BY <1>2, <1>3 DEF Justified
      <3> HIDE DEF r, doc
      <3> QED
        BY <1>5, <3>1, <3>2, <3>3 DEF Justified, Claims, Decided
    <2>2. CASE ~IsCancellation(e) /\ old.kind = "code"
      <3>1. /\ r = [old EXCEPT !.state = "closed", !.closure = "merged", !.merged = TRUE]
            /\ doc = "delivery"
        BY <2>2 DEF ClosedRecord, ClosedDoc
      <3>2. /\ r.closure = "merged" /\ r.merged = TRUE
            /\ r.delivery = old.delivery /\ r.authorized = old.authorized
        BY <1>1, <3>1 DEF Record
      <3> HIDE DEF r, doc
      <3> QED
        BY <1>1, <1>3, <1>5, <2>2, <3>1, <3>2 DEF Justified, Claims, Decided
    <2>3. CASE ~IsCancellation(e) /\ old.kind # "code"
      <3>1. r = [old EXCEPT !.state = "closed", !.closure = "accepted"] /\ doc = ""
        BY <2>3 DEF ClosedRecord, ClosedDoc
      <3>2. r.closure = "accepted" /\ r.merged = old.merged
        BY <1>1, <3>1 DEF Record
      <3>3. old.merged # TRUE
        BY <1>2, <1>3 DEF Justified
      <3> HIDE DEF r, doc
      <3> QED
        BY <1>1, <1>3, <1>5, <2>3, <3>1, <3>2, <3>3 DEF Justified, Claims, Decided
    <2> QED
      BY <2>1, <2>2, <2>3
  <1> HIDE DEF r, doc
  <1>7. c.step = "record" /\ c.record = r /\ c.doc = doc /\ c.task = t
    OBVIOUS
  <1> HIDE DEF c
  <1>8. AsOf(c) = acceptedAs[t]
    BY <1>5, <1>7 DEF AsOf
  <1> QED
    BY <1>1, <1>4, <1>6, <1>7, <1>8, StagingKeeps

(* What the gate lets through has its review.                              *)
LEMMA AcceptJustified ==
    ASSUME OneCommandPerTask, TypeOK, GateInv, NEW w \in Writers, NEW i \in 1..MaxReviews, Accept(w, i)
    PROVE  GateInv'
  <1> DEFINE t == command[w].task
             version == command[w].version
             r == AcceptedRecord(task[t], version)
             c == [step |-> "record", task |-> t, record |-> r, doc |-> "acceptance",
                   version |-> version]
  <1>1. /\ t \in Recorded /\ t \in Tasks /\ task[t] \in Record /\ version \in Versions
        /\ "accepted" \in TRANSITIONS[task[t].state] /\ DeliveryAuthorized(task[t])
        /\ ReviewUsable(t, i) /\ SubjectMatches(t, i, version)
    BY CommandShape DEF Accept, Recorded, TypeOK
  <1>2. GoodReview(reviews[t], version)
    BY <1>1 DEF ReviewUsable, LatestCompleted, Completed, SubjectMatches, GoodReview
  <1>3. Justified(task[t], reviews[t], acceptedAs[t])
    BY <1>1 DEF GateInv, RecordsSound
  <1>4. task[t].state # "closed"
    BY <1>1 DEF TRANSITIONS, STATES
  <1>5. /\ r.state = "accepted" /\ r.closure = task[t].closure /\ r.merged = task[t].merged
        /\ r.kind = task[t].kind /\ r.authorized = task[t].authorized
        /\ r.kind = "code" => r.delivery = version
    BY <1>1 DEF AcceptedRecord, Record
  <1>6. r.kind = "code" => r.authorized = TRUE
    <2>1. task[t].kind = "code" => task[t].authorized
      BY <1>1 DEF DeliveryAuthorized
    <2>2. task[t].authorized \in BOOLEAN
      BY <1>1 DEF Record
    <2> QED
      BY <1>5, <2>1, <2>2
  <1>7. command' = [command EXCEPT ![w] = c] /\ UNCHANGED <<task, docs, reviews, acceptedAs>>
    BY DEF Accept, Stage
  <1> HIDE DEF r
  <1>8. Justified(r, reviews[t], version) /\ Claims("acceptance", r, version)
    BY <1>1, <1>2, <1>3, <1>4, <1>5, <1>6 DEF Justified, Claims, Decided
  <1>0. t \in Recorded
    BY <1>1
  <1> HIDE DEF t, version
  <1>9. /\ c.step = "record" /\ c.record = r /\ c.doc = "acceptance" /\ c.task = t
        /\ c.version = version
    OBVIOUS
  <1> HIDE DEF c
  <1>10. AsOf(c) = version
    BY <1>5, <1>9 DEF AsOf
  <1> QED
    BY <1>0, <1>7, <1>8, <1>9, <1>10, StagingKeeps

(* The record that is written is the one that was staged, and what older   *)
(* markdown says of the task stays true of it.                             *)
LEMMA WriteRecordJustified ==
    ASSUME OneCommandPerTask, TypeOK, Fresh, GateInv, NEW w \in Writers, WriteRecord(w)
    PROVE  GateInv'
  <1> DEFINE c == command[w]
             t == c.task
             d == [step |-> "doc", task |-> t, doc |-> c.doc]
  <1>1. /\ c.step = "record" /\ t \in Tasks /\ c.record \in Record
        /\ Justified(c.record, reviews[t], AsOf(c)) /\ Claims(c.doc, c.record, AsOf(c))
        /\ UNCHANGED <<docs, reviews>>
    BY CommandShape DEF WriteRecord, TypeOK, GateInv, CommandSound
  <1>2. /\ task'[t] = c.record /\ acceptedAs'[t] = AsOf(c)
        /\ \A u \in Tasks \ {t} : task'[u] = task[u] /\ acceptedAs'[u] = acceptedAs[u]
    BY <1>1 DEF WriteRecord, TypeOK, AsOf
  <1>3. c.record # NoTask
    BY <1>1, NoTaskAssumption
  <1>4. Recorded' = Recorded \union {t}
    BY <1>1, <1>2, <1>3 DEF Recorded
  <1>5. command'[w] = IF c.doc = "" THEN Idle ELSE d
    BY OwnCommand DEF WriteRecord
  <1>6. t \in Recorded => c.record.state \in TRANSITIONS[task[t].state] /\ task[t] \in Record
    BY <1>1 DEF Fresh, CommandFresh, Replaces, TypeOK, Recorded
  <1>7. RecordsSound'
    BY <1>1, <1>2, <1>4 DEF RecordsSound, GateInv, Recorded
  <1>8. DocsSound'
    <2> SUFFICES ASSUME NEW u \in Tasks, NEW doc \in {"acceptance", "delivery", "cancellation"},
                        doc \in docs[u]
                 PROVE  u \in Recorded' /\ Claims(doc, task'[u], acceptedAs'[u])
      BY <1>1 DEF DocsSound
    <2>1. u \in Recorded /\ Claims(doc, task[u], acceptedAs[u])
      BY DEF GateInv, DocsSound
    <2>2. CASE u # t
      BY <1>2, <1>4, <2>1, <2>2
    <2>3. CASE u = t
      <3>1. Justified(task[t], reviews[t], acceptedAs[t])
        BY <2>1, <2>3 DEF GateInv, RecordsSound
      <3>2. /\ c.record.state \in TRANSITIONS[task[t].state]
            /\ task[t].state \in STATES
        BY <1>6, <2>1, <2>3 DEF Record
      <3>3. task[t].state # "closed"
        BY <3>2 DEF TRANSITIONS
      <3>4. task[t].closure = ""
        BY <3>1, <3>3 DEF Justified
      <3>5. doc = "acceptance" /\ task[t].state = "accepted" /\ acceptedAs[t] \in Versions
        BY <2>1, <2>3, <3>3, <3>4 DEF Claims
      <3>6. c.record.state = "closed"
        BY <3>2, <3>5 DEF TRANSITIONS, STATES
      <3>7. AsOf(c) = acceptedAs[t]
        BY <3>6 DEF AsOf
      <3> QED
        BY <1>2, <1>4, <2>3, <3>5, <3>6, <3>7 DEF Claims
    <2> QED
      BY <2>2, <2>3
  <1>9. CommandSound(command[w])'
    <2>1. CASE c.doc = ""
      <3>1. command'[w] = Idle
        BY <1>5, <2>1
      <3> HIDE DEF d, t, c
      <3>2. Idle.step = "idle"
        BY DEF Idle
      <3>3. command'[w].step = "idle"
        BY <3>1, <3>2
      <3> QED
        BY <3>3, NothingStaged
    <2>2. CASE c.doc # ""
      <3>1. d.step = "doc" /\ d.task = t /\ d.doc = c.doc
        OBVIOUS
      <3>2. command'[w] = d
        BY <1>5, <2>2
      <3>3. t \in Recorded' /\ Claims(c.doc, task'[t], acceptedAs'[t])
        BY <1>1, <1>2, <1>4
      <3> HIDE DEF d, t, c
      <3> QED
        BY <3>1, <3>2, <3>3 DEF CommandSound
    <2> QED
      BY <2>1, <2>2
  <1>10. \A v \in Writers \ {w} : CommandSound(command[v])'
    <2>1. \A u \in Tasks \ {t} : reviews'[u] = reviews[u]
      BY <1>1
    <2> QED
      BY <1>2, <2>1, RecordWritten, ElsewhereSound
  <1> QED
    BY <1>7, <1>8, <1>9, <1>10 DEF GateInv

(* Markdown says what the record does.                                     *)
LEMMA WriteDocJustified ==
    ASSUME OneCommandPerTask, TypeOK, GateInv, NEW w \in Writers, WriteDoc(w)
    PROVE  GateInv'
  <1> DEFINE c == command[w]
  <1>1. /\ c.step = "doc" /\ c.task \in Tasks /\ c.task \in Recorded
        /\ Claims(c.doc, task[c.task], acceptedAs[c.task])
        /\ UNCHANGED <<task, reviews, acceptedAs>>
        /\ docs' = [docs EXCEPT ![c.task] = @ \union {c.doc}]
    BY CommandShape DEF WriteDoc, TypeOK, GateInv, CommandSound
  <1>2. Recorded' = Recorded
    BY <1>1 DEF Recorded
  <1>3. \A u \in Tasks : \A doc \in docs'[u] : doc \in docs[u] \/ (u = c.task /\ doc = c.doc)
    BY <1>1 DEF TypeOK
  <1>4. DocsSound'
    BY <1>1, <1>2, <1>3 DEF GateInv, DocsSound
  <1>5. RecordsSound'
    BY <1>1, <1>2 DEF GateInv, RecordsSound
  <1>6. command'[w].step = "idle" /\ Only(w)
    <2>1. command'[w] = Idle /\ Only(w)
      BY OwnCommand DEF WriteDoc
    <2> QED
      BY <2>1 DEF Idle
  <1>7. CommandSound(command[w])'
    BY <1>6, NothingStaged
  <1> QED
    BY <1>1, <1>4, <1>5, <1>6, <1>7, UntouchedSound DEF GateInv

(* A completed review that passed stays what it is, whatever is added to   *)
(* the reviews of a task or changed in the others.                         *)
LEMMA GoodReviewStays ==
    ASSUME NEW s \in Seq(Review), NEW z, NEW v, GoodReview(s, v),
           DOMAIN s \subseteq DOMAIN z,
           \A i \in DOMAIN s : s[i].status = "completed" /\ s[i].assignment = "completed"
               => z[i] = s[i]
    PROVE  GoodReview(z, v)
  BY DEF GoodReview

(* The gate only supersedes a review of a task that is in review, so no    *)
(* record rests on it.                                                     *)
LEMMA SupersedingJustified ==
    ASSUME OneCommandPerTask, TypeOK, GateInv, NEW w \in Writers, NEW i \in 1..MaxReviews, AcceptSupersedes(w, i)
    PROVE  GateInv'
  <1> DEFINE t == command[w].task
             c == [step |-> "supersede", task |-> t, index |-> i]
  <1>1. /\ t \in Recorded /\ t \in Tasks /\ task[t] \in Record /\ reviews[t] \in Seq(Review)
        /\ "accepted" \in TRANSITIONS[task[t].state] /\ i \in DOMAIN reviews[t]
        /\ UNCHANGED <<task, docs, acceptedAs>>
        /\ reviews' = [reviews EXCEPT ![t][i].status = "superseded"]
    BY DEF AcceptSupersedes, Recorded, TypeOK, ReviewUsable, LatestCompleted, Completed
  <1>2. \A u \in Tasks \ {t} : reviews'[u] = reviews[u]
    BY <1>1 DEF TypeOK
  <1>3. reviews'[t] = [reviews[t] EXCEPT ![i] = [reviews[t][i] EXCEPT !.status = "superseded"]]
    BY <1>1 DEF TypeOK
  <1>4. i \in DOMAIN reviews'[t] /\ reviews'[t][i].status = "superseded"
    <2>1. reviews[t][i] \in Review
      BY <1>1
    <2>2. [reviews[t][i] EXCEPT !.status = "superseded"].status = "superseded"
      BY <2>1 DEF Review
    <2> QED
      BY <1>1, <1>3, <2>2
  <1>5. ~Decided(task[t])
    <2>1. task[t].state = "review"
      BY <1>1 DEF TRANSITIONS, STATES, Record
    <2>2. Justified(task[t], reviews[t], acceptedAs[t])
      BY <1>1 DEF GateInv, RecordsSound
    <2> QED
      BY <2>1, <2>2 DEF Justified, Decided
  <1>6. command'[w] = c /\ Only(w)
    BY OwnCommand DEF AcceptSupersedes
  <1>a. \A v \in Writers \ {w} : CommandSound(command[v])'
    <2>1. Working(w)
      BY AtWork DEF AcceptSupersedes
    <2> QED
      BY <1>1, <1>2, <1>6, <2>1, ElsewhereSound
  <1> HIDE DEF t
  <1>7. c.step = "supersede" /\ c.task = t /\ c.index = i
    OBVIOUS
  <1> HIDE DEF c
  <1>8. CommandSound(command[w])'
    BY <1>4, <1>6, <1>7 DEF CommandSound
  <1>9. \A u \in Recorded : Decided(task[u]) => reviews'[u] = reviews[u]
    BY <1>2, <1>5 DEF Recorded
  <1> QED
    BY <1>1, <1>8, <1>9, <1>a, RecordsStay

(* The assignment that is superseded has a Review Record that was, so no   *)
(* record rests on it either.                                              *)
LEMMA SupersededJustified ==
    ASSUME OneCommandPerTask, TypeOK, GateInv, NEW w \in Writers, SupersedeAssignment(w)
    PROVE  GateInv'
  <1> DEFINE t == command[w].task
             i == command[w].index
             s == reviews[t]
             r == [s[i] EXCEPT !.assignment = "superseded"]
  <1>1. /\ command[w].step = "supersede" /\ t \in Tasks /\ s \in Seq(Review)
        /\ i \in DOMAIN s /\ s[i].status = "superseded"
        /\ UNCHANGED <<task, docs, acceptedAs>>
        /\ reviews' = [reviews EXCEPT ![t][i].assignment = "superseded"]
    BY CommandShape DEF SupersedeAssignment, TypeOK, GateInv, CommandSound
  <1>2. reviews'[t] = [s EXCEPT ![i] = r]
    BY <1>1 DEF TypeOK
  <1>3. \A u \in Tasks \ {t} : reviews'[u] = reviews[u]
    BY <1>1 DEF TypeOK
  <1> HIDE DEF r
  <1>4. /\ DOMAIN reviews'[t] = DOMAIN s
        /\ \A j \in DOMAIN s \ {i} : reviews'[t][j] = s[j]
    BY <1>1, <1>2
  <1>5. \A v : GoodReview(s, v) => GoodReview(reviews'[t], v)
    BY <1>1, <1>4, GoodReviewStays
  <1>6. command'[w].step = "idle" /\ Only(w)
    <2>1. command'[w] = Idle /\ Only(w)
      BY OwnCommand DEF SupersedeAssignment
    <2> QED
      BY <2>1 DEF Idle
  <1>7. CommandSound(command[w])'
    BY <1>6, NothingStaged
  <1>a. \A v \in Writers \ {w} : CommandSound(command[v])'
    <2>1. Working(w)
      BY <1>1, AtWork
    <2> QED
      BY <1>1, <1>3, <1>6, <2>1, ElsewhereSound
  <1>8. \A u \in Recorded : GoodReview(reviews[u], acceptedAs[u])
                              => GoodReview(reviews'[u], acceptedAs[u])
    BY <1>3, <1>5 DEF Recorded
  <1> QED
    BY <1>1, <1>7, <1>8, <1>a, RecordsStay

(* Reviews come in and are completed while anything is under way.          *)
LEMMA ReviewsJustified ==
    ASSUME TypeOK, GateInv, NEW t \in Tasks,
           \/ \E verdict \in {"passed", "changes_requested"} : RecordReview(t, verdict)
           \/ \E i \in 1..MaxReviews : CompleteReview(t, i)
    PROVE  GateInv'
  <1> DEFINE s == reviews[t]
  <1>1. s \in Seq(Review)
    BY DEF TypeOK
  <1>2. /\ UNCHANGED <<task, docs, acceptedAs, command>>
        /\ \A u \in Tasks \ {t} : reviews'[u] = reviews[u]
    BY DEF RecordReview, CompleteReview, TypeOK
  <1>3. /\ DOMAIN s \subseteq DOMAIN reviews'[t]
        /\ \A j \in DOMAIN s :
              s[j].assignment # "dispatched" => reviews'[t][j] = s[j]
        /\ \A j \in DOMAIN s : reviews'[t][j].status = s[j].status
    <2>1. CASE \E verdict \in {"passed", "changes_requested"} : RecordReview(t, verdict)
      <3>1. PICK verdict : RecordReview(t, verdict)
        BY <2>1
      <3>2. PICK r : reviews' = [reviews EXCEPT ![t] = Append(@, r)]
        BY <3>1 DEF RecordReview
      <3>3. reviews'[t] = Append(s, r)
        BY <3>2 DEF TypeOK
      <3>4. /\ DOMAIN s \subseteq DOMAIN Append(s, r)
            /\ \A j \in DOMAIN s : Append(s, r)[j] = s[j]
        BY <1>1
      <3> QED
        BY <3>3, <3>4
    <2>2. CASE \E i \in 1..MaxReviews : CompleteReview(t, i)
      <3>1. PICK i \in 1..MaxReviews : CompleteReview(t, i)
        BY <2>2
      <3> DEFINE r == [s[i] EXCEPT !.assignment = "completed"]
      <3>2. /\ i \in DOMAIN s /\ s[i] \in Review /\ s[i].assignment = "dispatched"
            /\ reviews' = [reviews EXCEPT ![t][i].assignment = "completed"]
        BY <1>1, <3>1 DEF CompleteReview
      <3>3. reviews'[t] = [s EXCEPT ![i] = r]
        BY <3>2 DEF TypeOK
      <3>4. r.status = s[i].status
        BY <3>2 DEF Review
      <3> HIDE DEF r
      <3>5. /\ DOMAIN reviews'[t] = DOMAIN s /\ reviews'[t][i] = r
            /\ \A j \in DOMAIN s \ {i} : reviews'[t][j] = s[j]
        BY <1>1, <3>2, <3>3
      <3> QED
        BY <3>2, <3>4, <3>5
    <2> QED
      BY <2>1, <2>2
  <1>4. \A v : GoodReview(s, v) => GoodReview(reviews'[t], v)
    BY <1>1, <1>3, GoodReviewStays
  <1> HIDE DEF s
  <1>5. \A u \in Tasks : \A v : GoodReview(reviews[u], v) => GoodReview(reviews'[u], v)
    BY <1>2, <1>4 DEF s
  <1>6. \A u \in Tasks, j \in 1..MaxReviews :
          j \in DOMAIN reviews[u] /\ reviews[u][j].status = "superseded"
          => j \in DOMAIN reviews'[u] /\ reviews'[u][j].status = "superseded"
    BY <1>2, <1>3 DEF s
  <1>7. ASSUME NEW w \in Writers
        PROVE  CommandSound(command[w])'
    <2>1. command[w].step # "idle" => command[w].task \in Tasks
      BY AtWork
    <2>2. command[w].step = "supersede" => command[w].index \in 1..MaxReviews
      BY CommandShape DEF TypeOK
    <2>3. CommandSound(command[w]) /\ command'[w] = command[w]
      BY <1>2 DEF GateInv
    <2>4. command[w].step = "supersede" =>
              /\ command[w].index \in DOMAIN reviews'[command[w].task]
              /\ reviews'[command[w].task][command[w].index].status = "superseded"
      BY <1>6, <2>1, <2>2, <2>3 DEF CommandSound
    <2> QED
      BY <1>2, <1>5, <2>1, <2>3, <2>4, CommandStays DEF Recorded
  <1>8. \A u \in Recorded : GoodReview(reviews[u], acceptedAs[u])
                              => GoodReview(reviews'[u], acceptedAs[u])
    BY <1>5 DEF Recorded
  <1> QED
    BY <1>2, <1>7, <1>8, RecordsStay

(* Steps that touch neither records, versions nor reviews.                 *)
LEMMA OthersJustified ==
    ASSUME OneCommandPerTask, TypeOK, GateInv,
           \/ \E w \in Writers, t \in Tasks : Collect(w, t)
           \/ \E w \in Writers : Notes(w) \/ Abort(w)
           \/ \E t \in Tasks : AskReview(t) \/ \E version \in Versions : Commit(t, version)
           \/ UNCHANGED vars
    PROVE  GateInv'
  <1>1. ASSUME NEW w \in Writers, Abort(w) \/ \E t \in Tasks : Collect(w, t)
        PROVE  GateInv'
    <2>1. UNCHANGED <<task, docs, reviews, acceptedAs>> /\ Only(w)
      BY <1>1, AsideSteps DEF Aside, Collect, Abort
    <2>2. command'[w].step \in {"idle", "collected"}
      <3>1. CASE \E t \in Tasks : Collect(w, t)
        <4>1. PICK t \in Tasks : Collect(w, t)
          BY <3>1
        <4>2. command'[w] = [step |-> "collected", task |-> t, version |-> deliverable[t]]
          BY <4>1, OwnCommand DEF Collect
        <4> QED
          BY <4>2
      <3>2. CASE Abort(w)
        <4>1. command'[w] = Idle
          BY <3>2, OwnCommand DEF Abort
        <4> QED
          BY <4>1 DEF Idle
      <3> QED
        BY <1>1, <3>1, <3>2
    <2>3. \A v \in Writers : CommandSound(command[v])'
      BY <2>1, <2>2, NothingStaged, UntouchedSound
    <2> QED
      BY <2>1, <2>3, RecordsStay
  <1>2. CASE \/ \E w \in Writers : Notes(w)
             \/ \E t \in Tasks : AskReview(t) \/ \E version \in Versions : Commit(t, version)
             \/ UNCHANGED vars
    <2>1. UNCHANGED <<task, reviews, acceptedAs, command>>
      BY <1>2 DEF Notes, WriteReport, WriteReview, AskReview, Commit, vars
    <2>2. \A t \in Tasks : docs'[t] \subseteq docs[t] \union {"report", "review"}
      <3>1. CASE \E w \in Writers : Notes(w)
        <4>1. PICK w \in Writers, u \in Tasks :
                 \/ docs' = [docs EXCEPT ![u] = docs[u] \union {"report"}]
                 \/ docs' = [docs EXCEPT ![u] = docs[u] \union {"review"}]
          BY <3>1 DEF Notes, WriteReport, WriteReview, Recorded
        <4>2. docs \in [Tasks -> SUBSET Docs]
          BY DEF TypeOK
        <4>3. ASSUME NEW t \in Tasks
              PROVE  \/ docs'[t] = docs[t]
                     \/ t = u /\ docs'[u] = docs[u] \union {"report"}
                     \/ t = u /\ docs'[u] = docs[u] \union {"review"}
          BY <4>1, <4>2
        <4>4. ASSUME NEW t \in Tasks
              PROVE  docs'[t] \subseteq docs[t] \union {"report", "review"}
          <5>1. CASE t = u
            BY <4>3, <5>1
          <5>2. CASE t # u
            BY <4>3, <5>2
          <5> QED
            BY <5>1, <5>2
        <4> QED
          BY <4>4
      <3>2. CASE UNCHANGED docs
        BY <3>2
      <3> QED
        BY <1>2, <3>1, <3>2 DEF AskReview, Commit, vars
    <2>3. ASSUME NEW w \in Writers
          PROVE  CommandSound(command[w])'
      <3>1. CommandSound(command[w])
        BY DEF GateInv
      <3>2. command[w].step = "supersede" =>
              /\ command[w].index \in DOMAIN reviews'[command[w].task]
              /\ reviews'[command[w].task][command[w].index].status = "superseded"
        BY <2>1, <3>1 DEF CommandSound
      <3> QED
        BY <2>1, <3>2, CommandStays DEF Recorded
    <2> QED
      BY <2>1, <2>2, <2>3, RecordsStay
  <1> QED
    BY <1>1, <1>2

(* All of it together: the gate, closures and projections.                 *)
LEMMA GateInvariance == Spec /\ []OneCommandPerTask => [](TypeOK /\ Fresh /\ GateInv)
  <1>1. Init => GateInv
    <2> SUFFICES ASSUME Init PROVE GateInv
      OBVIOUS
    <2>1. Recorded = {} /\ \A w \in Writers : command[w].step = "idle"
      BY DEF Init, Recorded, Idle
    <2> QED
      BY <2>1 DEF Init, GateInv, RecordsSound, DocsSound, CommandSound
  <1>2. OneCommandPerTask /\ TypeOK /\ Fresh /\ GateInv /\ [Next]_vars => GateInv'
    <2> SUFFICES ASSUME OneCommandPerTask, TypeOK, Fresh, GateInv, [Next]_vars PROVE GateInv'
      OBVIOUS
    <2>1. ASSUME NEW w \in Writers, Writer(w)
          PROVE  GateInv'
      <3>1. CASE Create(w) \/ CreateDirectory(w)
        BY <3>1, CreateJustified
      <3>2. CASE Transition(w)
        BY <3>2, MoveJustified, CloseJustified, OthersJustified DEF Transition
      <3>3. CASE Gate(w)
        BY <3>3, AcceptJustified, SupersedingJustified DEF Gate
      <3>4. CASE WriteRecord(w) \/ WriteDoc(w) \/ SupersedeAssignment(w)
        BY <3>4, WriteRecordJustified, WriteDocJustified, SupersededJustified
      <3>5. CASE Notes(w) \/ Abort(w)
        BY <3>5, OthersJustified
      <3> QED
        BY <2>1, <3>1, <3>2, <3>3, <3>4, <3>5 DEF Writer
    <2>2. CASE Environment
      BY <2>2, ReviewsJustified, OthersJustified DEF Environment
    <2>3. CASE UNCHANGED vars
      BY <2>3, OthersJustified
    <2> QED
      BY <2>1, <2>2, <2>3 DEF Next
  <1>3. OneCommandPerTask /\ TypeOK /\ Fresh /\ [Next]_vars => Fresh'
    BY FreshInvariant
  <1> QED
    BY <1>1, <1>2, <1>3, FreshInit, TypeCorrect, PTL DEF Spec

(* The acceptance gate, with one command per task: what is accepted is     *)
(* what a completed review passed, although the deliverable moves and      *)
(* commands stop anywhere.                                                 *)
THEOREM AcceptedByReviewCorrect == Spec /\ []OneCommandPerTask => []AcceptedByReview
  <1>1. TypeOK /\ GateInv => AcceptedByReview
    BY DEF GateInv, RecordsSound, Justified, Decided, GoodReview, AcceptedByReview, Accepted
  <1> QED
    BY <1>1, GateInvariance, PTL

(* Closing, with one command per task: merged and accepted closures stand  *)
(* on an acceptance, and a cancelled task claims no merge.                 *)
THEOREM ClosureJustifiedCorrect == Spec /\ []OneCommandPerTask => []ClosureJustified
  <1>1. TypeOK /\ GateInv => ClosureJustified
    <2> SUFFICES ASSUME TypeOK, GateInv, NEW t \in Recorded, task[t].state = "closed"
                 PROVE  \/ /\ task[t].closure = "merged"
                           /\ task[t].kind = "code" /\ task[t].authorized /\ task[t].merged
                           /\ acceptedAs[t] # NoVersion
                        \/ /\ task[t].closure = "accepted"
                           /\ task[t].kind # "code" /\ acceptedAs[t] # NoVersion
                        \/ task[t].closure = "cancelled" /\ ~task[t].merged
      BY DEF ClosureJustified
    <2>1. Justified(task[t], reviews[t], acceptedAs[t]) /\ task[t] \in Record
      BY DEF GateInv, RecordsSound, Recorded, TypeOK
    <2>2. task[t].closure \in {"merged", "accepted", "cancelled"} /\ task[t].merged \in BOOLEAN
      BY <2>1 DEF Justified, Record, Closures
    <2>3. CASE task[t].closure = "merged"
      BY <2>1, <2>3, TaskStoreAssumption DEF Justified, Decided
    <2>4. CASE task[t].closure = "accepted"
      BY <2>1, <2>4, TaskStoreAssumption DEF Justified, Decided
    <2>5. CASE task[t].closure = "cancelled"
      <3>1. task[t].merged # TRUE
        BY <2>1, <2>5 DEF Justified
      <3> QED
        BY <2>2, <2>5, <3>1
    <2> QED
      BY <2>2, <2>3, <2>4, <2>5
  <1> QED
    BY <1>1, GateInvariance, PTL

(* The projections, with one command per task: no markdown file claims     *)
(* more than its record, wherever a command stopped.                       *)
THEOREM ProjectionsFollowRecordCorrect == Spec /\ []OneCommandPerTask => []ProjectionsFollowRecord
  <1>1. TypeOK /\ GateInv => ProjectionsFollowRecord
    BY TaskStoreAssumption DEF GateInv, DocsSound, Claims, ProjectionsFollowRecord
  <1> QED
    BY <1>1, GateInvariance, PTL
-----------------------------------------------------------------------------
(* TaskStore implements Delivery.  Two more facts are needed: a version is *)
(* remembered of accepted tasks only, and only recorded tasks are reviewed.*)
Decisive == {"accepted", "closed"}

Unaccepted ==
    \A t \in Tasks :
        t \notin Recorded \/ task[t].state \notin Decisive => acceptedAs[t] = NoVersion

ReviewsRecorded ==
    \A t \in Tasks : t \notin Recorded => reviews[t] = <<>> /\ asked[t] = NoVersion

StoreInv == Unaccepted /\ ReviewsRecorded

(* Which lifecycle states a task can be accepted or closed from.           *)
LEMMA Table ==
    ASSUME NEW s \in STATES
    PROVE  /\ "accepted" \in TRANSITIONS[s] => s = "review"
           /\ s = "accepted" => TRANSITIONS[s] = {"closed"}
           /\ TRANSITIONS[s] # {} => s # "closed"
           /\ TRANSITIONS[s] \subseteq STATES
  BY DEF TRANSITIONS, STATES

(* What replaces a record, and what it makes of the accepted version.      *)
LEMMA RecordReplaced ==
    ASSUME TypeOK, Fresh, NEW w \in Writers, WriteRecord(w)
    PROVE  LET c == command[w] IN
           /\ UNCHANGED <<reviews, asked>>
           /\ acceptedAs' = IF c.record.state = "accepted"
                            THEN [acceptedAs EXCEPT ![c.task] = c.version] ELSE acceptedAs
           /\ c.task \in Recorded =>
                 /\ task[c.task].state \in STATES \ {"closed"}
                 /\ c.record.state \in TRANSITIONS[task[c.task].state]
                 /\ c.record.agent = task[c.task].agent
  <1> DEFINE c == command[w]
  <1>1. c.step = "record" /\ c.task \in Tasks
    BY RecordWritten
  <1>2. ASSUME c.task \in Recorded
        PROVE  Replaces(c) /\ task[c.task].state \in STATES
    BY <1>1, <1>2 DEF Fresh, CommandFresh, Recorded, TypeOK, Record
  <1> QED
    BY <1>2, Table DEF WriteRecord, Replaces

(* Both facts are kept.                                                    *)
LEMMA StoreInvariant ==
    ASSUME TypeOK, Fresh, StoreInv, [Next]_vars
    PROVE  StoreInv'
  <1>1. ASSUME NEW w \in Writers, WriteRecord(w)
        PROVE  StoreInv'
    <2> DEFINE c == command[w]
    <2>1. /\ c.task \in Tasks /\ Recorded' = Recorded \union {c.task}
          /\ task'[c.task] = c.record /\ \A u \in Tasks \ {c.task} : task'[u] = task[u]
      BY <1>1, RecordWritten
    <2>2. UNCHANGED <<reviews, asked>>
      BY <1>1, RecordReplaced
    <2>3. \A u \in Tasks \ {c.task} : acceptedAs'[u] = acceptedAs[u]
      BY <1>1, <2>1, RecordReplaced DEF TypeOK
    <2>4. ASSUME c.record.state \notin Decisive
          PROVE  acceptedAs'[c.task] = NoVersion
      <3>1. acceptedAs' = acceptedAs
        BY <1>1, <2>4, RecordReplaced DEF Decisive
      <3>2. c.task \in Recorded => task[c.task].state \notin Decisive
        BY <1>1, <2>4, RecordReplaced, Table DEF Decisive
      <3> QED
        BY <2>1, <3>1, <3>2 DEF StoreInv, Unaccepted
    <2> HIDE DEF c
    <2>5. Unaccepted'
      BY <2>1, <2>3, <2>4 DEF StoreInv, Unaccepted
    <2>6. ReviewsRecorded'
      BY <2>1, <2>2 DEF StoreInv, ReviewsRecorded
    <2> QED
      BY <2>5, <2>6 DEF StoreInv
  <1>2. ASSUME UNCHANGED <<task, acceptedAs>>,
               \A t \in Tasks \ Recorded : reviews'[t] = reviews[t] /\ asked'[t] = asked[t]
        PROVE  StoreInv'
    <2>1. Recorded' = Recorded
      BY <1>2 DEF Recorded
    <2> QED
      BY <1>2, <2>1 DEF StoreInv, Unaccepted, ReviewsRecorded
  <1>3. ASSUME UNCHANGED <<task, acceptedAs, reviews, asked>>
        PROVE  StoreInv'
    BY <1>2, <1>3
  <1>4. ASSUME NEW w \in Writers, Aside(w)
        PROVE  StoreInv'
    <2>1. UNCHANGED <<task, acceptedAs>>
      BY <1>4, AsideSteps
    <2>2. CASE (\E t \in Tasks : Collect(w, t)) \/ WriteDoc(w) \/ Abort(w)
      BY <1>3, <2>1, <2>2 DEF Collect, WriteDoc, Abort
    <2>3. CASE \E i \in 1..MaxReviews : AcceptSupersedes(w, i)
      <3>1. /\ command[w].task \in Recorded /\ asked' = asked
            /\ \A u \in Tasks \ {command[w].task} : reviews'[u] = reviews[u]
        BY <2>3 DEF AcceptSupersedes, TypeOK
      <3> QED
        BY <1>2, <2>1, <3>1
    <2>4. CASE SupersedeAssignment(w)
      <3> DEFINE t == command[w].task
      <3>1. command[w].step = "supersede" /\ asked' = asked
        BY <2>4 DEF SupersedeAssignment
      <3>2. \A u \in Tasks \ {t} : reviews'[u] = reviews[u]
        BY <2>4 DEF SupersedeAssignment, TypeOK
      <3>3. ASSUME t \in Tasks, reviews[t] = <<>>
            PROVE  reviews'[t] = reviews[t]
        <4>1. PICK r : reviews'[t] = [reviews[t] EXCEPT ![command[w].index] = r]
          BY <2>4, <3>3 DEF SupersedeAssignment, TypeOK
        <4> QED
          BY <3>3, <4>1
      <3> HIDE DEF t
      <3>4. \A u \in Tasks \ Recorded : reviews'[u] = reviews[u]
        BY <3>2, <3>3 DEF StoreInv, ReviewsRecorded
      <3> QED
        BY <1>2, <2>1, <3>1, <3>4
    <2> QED
      BY <1>4, <2>2, <2>3, <2>4 DEF Aside
  <1>5. ASSUME Outside
        PROVE  StoreInv'
    <2>1. UNCHANGED <<task, acceptedAs>>
      BY <1>5, OutsideSteps
    <2>2. CASE \E w \in Writers : Notes(w)
      BY <1>3, <2>1, <2>2 DEF Notes, WriteReport, WriteReview
    <2>3. CASE Environment
      <3>1. PICK t \in Tasks :
              \/ \E version \in Versions : Commit(t, version)
              \/ AskReview(t)
              \/ \E verdict \in {"passed", "changes_requested"} : RecordReview(t, verdict)
              \/ \E i \in 1..MaxReviews : CompleteReview(t, i)
        BY <2>3 DEF Environment
      <3>2. CASE \E version \in Versions : Commit(t, version)
        BY <1>3, <2>1, <3>2 DEF Commit
      <3>3. \A u \in Tasks \ {t} : reviews'[u] = reviews[u] /\ asked'[u] = asked[u]
        BY <3>1 DEF Commit, AskReview, RecordReview, CompleteReview, TypeOK
      <3>4. ASSUME t \in Recorded
            PROVE  StoreInv'
        BY <1>2, <2>1, <3>3, <3>4
      <3>5. CASE AskReview(t)
        BY <3>4, <3>5 DEF AskReview
      <3>6. CASE \E verdict \in {"passed", "changes_requested"} : RecordReview(t, verdict)
        BY <3>4, <3>6 DEF RecordReview, StoreInv, ReviewsRecorded
      <3>7. CASE \E i \in 1..MaxReviews : CompleteReview(t, i)
        <4>1. reviews[t] # <<>>
          BY <3>7 DEF CompleteReview
        <4> QED
          BY <3>4, <4>1 DEF StoreInv, ReviewsRecorded
      <3> QED
        BY <3>1, <3>2, <3>5, <3>6, <3>7
    <2> QED
      BY <1>5, <2>2, <2>3 DEF Outside
  <1>6. ASSUME NEW w \in Writers,
               \/ \E t \in Tasks, s \in STATES : Move(w, t, s)
               \/ \E t \in Tasks, e \in CloseEvidence : Close(w, t, e)
               \/ \E i \in 1..MaxReviews : Accept(w, i)
        PROVE  StoreInv'
    BY <1>3, <1>6 DEF Move, Close, Accept, Stage
  <1>7. ASSUME NEW w \in Writers, Create(w) \/ CreateDirectory(w)
        PROVE  StoreInv'
    BY <1>3, <1>7 DEF Create, CreateCheck, CreateDirectory
  <1>8. ASSUME UNCHANGED vars
        PROVE  StoreInv'
    BY <1>3, <1>8 DEF vars
  <1> QED
    BY <1>1, <1>4, <1>5, <1>6, <1>7, <1>8, NextCases

(* The first state has both.                                               *)
LEMMA StoreInit == Init => StoreInv
  BY DEF Init, StoreInv, Unaccepted, ReviewsRecorded

(* How the mapping reads: the unfinished tasks of Delivery are the active  *)
(* ones, and a version is approved by a good review.                       *)
LEMMA UnfinishedAreActive ==
    ASSUME TypeOK
    PROVE  Promise!Unfinished = ActiveTasks
  <1>1. ASSUME NEW t \in Tasks
        PROVE  t \in Promise!Unfinished <=> t \in ActiveTasks
    <2>1. Stages[t] = StageOf(t)
      BY DEF Stages
    <2>2. t \in Promise!Unfinished <=> StageOf(t) \in {"open", "accepted"}
      BY <2>1 DEF Promise!Unfinished
    <2>3. t \in Recorded => task[t].state \in STATES
      BY DEF Recorded, TypeOK, Record
    <2> QED
      BY <2>2, <2>3 DEF StageOf, ActiveTasks, ACTIVE, STATES
  <1>2. Promise!Unfinished \subseteq Tasks /\ ActiveTasks \subseteq Tasks
    BY DEF Promise!Unfinished, ActiveTasks, Recorded
  <1> QED
    BY <1>1, <1>2

Passing(x) == x.verdict = "passed" /\ x.status = "completed" /\ x.assignment = "completed"

LEMMA ApprovingReview ==
    ASSUME NEW x \in Review, NEW v
    PROVE  x = [subject |-> v, verdict |-> "passed",
                status |-> "completed", assignment |-> "completed"]
           <=> x.subject = v /\ Passing(x)
  BY DEF Review, Passing

LEMMA ApprovedIsReviewed ==
    ASSUME TypeOK, NEW t \in Tasks, NEW v \in Versions
    PROVE  v \in Approved(t) <=> GoodReview(reviews[t], v)
  <1>1. \A i \in DOMAIN reviews[t] : reviews[t][i] \in Review
    BY DEF TypeOK
  <1> QED
    BY <1>1, ApprovingReview DEF Approved, GoodReview, Passing

(* What a step leaves of the three views.                                  *)
LEMMA StagesKept ==
    ASSUME task' = task
    PROVE  Stages' = Stages /\ Owners' = Owners
  <1>1. Recorded' = Recorded
    BY DEF Recorded
  <1>2. \A t \in Tasks : StageOf(t)' = StageOf(t)
    BY <1>1 DEF StageOf
  <1> QED
    BY <1>1, <1>2 DEF Stages, Owners

LEMMA ApprovalsKept ==
    ASSUME reviews' = reviews
    PROVE  Approvals' = Approvals
  BY DEF Approvals, Approved

(* The views of one task, when a step writes its record.                   *)
LEMMA StageWritten ==
    ASSUME NEW t \in Tasks, NEW r \in Record,
           task'[t] = r, \A u \in Tasks \ {t} : task'[u] = task[u],
           Recorded' = Recorded \union {t}
    PROVE  /\ Stages' = [Stages EXCEPT ![t] = StageOf(t)']
           /\ Owners' = [Owners EXCEPT ![t] = r.agent]
           /\ StageOf(t)' = IF r.state = "accepted" THEN "accepted"
                            ELSE IF r.state # "closed" THEN "open"
                            ELSE IF r.closure = "cancelled" THEN "cancelled" ELSE "delivered"
  <1>1. \A u \in Tasks \ {t} : StageOf(u)' = StageOf(u)
    BY DEF StageOf
  <1>2. Stages' = [Stages EXCEPT ![t] = StageOf(t)']
    BY <1>1 DEF Stages
  <1>3. Owners' = [Owners EXCEPT ![t] = r.agent]
    BY DEF Owners
  <1>4. /\ t \in Recorded' /\ r.state \in STATES
    BY DEF Record
  <1> QED
    BY <1>2, <1>3, <1>4 DEF StageOf

(* The stutters and the single steps of Delivery.                          *)
LEMMA WriteRecordDelivers ==
    ASSUME TypeOK, Fresh, RoomInv, GateInv, StoreInv, NEW w \in Writers, WriteRecord(w)
    PROVE  [Promise!Next]_<<Stages, Owners, Approvals, acceptedAs>>
  <1> DEFINE c == command[w]
  <1>0. PICK t \in Tasks, r \in Record : t = c.task /\ r = c.record
    BY RecordWritten
  <1>1. /\ c.step = "record" /\ r.agent \in Agents
        /\ task'[t] = r /\ \A u \in Tasks \ {t} : task'[u] = task[u]
        /\ Recorded' = Recorded \union {t}
    BY <1>0, RecordWritten DEF Record
  <1>2. /\ acceptedAs' = IF r.state = "accepted"
                         THEN [acceptedAs EXCEPT ![t] = c.version] ELSE acceptedAs
        /\ t \in Recorded => /\ task[t].state \in STATES \ {"closed"}
                             /\ r.state \in TRANSITIONS[task[t].state]
                             /\ r.agent = task[t].agent
    BY <1>0, RecordReplaced
  <1>3. Approvals' = Approvals
    BY RecordReplaced, ApprovalsKept
  <1>4. Justified(r, reviews[t], AsOf(c)) /\ (t \notin Recorded => Blank(r))
    BY <1>0, <1>1 DEF GateInv, CommandSound
  <1>5. /\ Stages' = [Stages EXCEPT ![t] = StageOf(t)']
        /\ Owners' = [Owners EXCEPT ![t] = r.agent]
        /\ StageOf(t)' = IF r.state = "accepted" THEN "accepted"
                         ELSE IF r.state # "closed" THEN "open"
                         ELSE IF r.closure = "cancelled" THEN "cancelled" ELSE "delivered"
    BY <1>1, StageWritten
  <1>6. Stages[t] = StageOf(t) /\ Stages \in [Tasks -> {StageOf(u) : u \in Tasks}]
    BY <1>1 DEF Stages
  <1>7. t \in Recorded => Owners' = Owners
    BY <1>1, <1>2, <1>5 DEF Owners
  <1>8. CASE t \notin Recorded
    <2>1. r.state = "planned"
      BY <1>4, <1>8 DEF Blank
    <2>2. Stages' = [Stages EXCEPT ![t] = "open"] /\ acceptedAs' = acceptedAs
      BY <1>2, <1>5, <2>1
    <2>3. Stages[t] = "absent"
      BY <1>6, <1>8 DEF StageOf
    <2>4. Room(r.agent)
      BY <1>0, <1>1, <1>8 DEF RoomInv, Creating
    <2>5. Promise!Cardinality(Promise!Unfinished) < MaxActive
      BY <2>4, UnfinishedAreActive DEF Room, Cardinality, Promise!Cardinality
    <2>6. \A u \in Promise!Unfinished : Owners[u] # r.agent
      BY <2>4, UnfinishedAreActive DEF Room, AgentFree, Owners, ActiveTasks, Recorded
    <2>7. Owners' = [Owners EXCEPT ![t] = r.agent]
      BY <1>5
    <2>8. Promise!Admit(t, r.agent)
      BY <1>3, <2>2, <2>3, <2>5, <2>6, <2>7 DEF Promise!Admit
    <2> QED
      BY <1>1, <2>8 DEF Promise!Next
  <1>9. CASE t \in Recorded /\ r.state = "accepted"
    <2>1. task[t].state = "review"
      BY <1>2, <1>9, Table
    <2>2. Stages[t] = "open"
      BY <1>6, <1>9, <2>1 DEF StageOf
    <2>3. GoodReview(reviews[t], c.version) /\ c.version \in Versions
      BY <1>0, <1>4, <1>9 DEF Justified, Decided, AsOf
    <2>4. c.version \in Approvals[t]
      BY <1>1, <2>3, ApprovedIsReviewed DEF Approvals
    <2>5. Promise!Accept(t, c.version)
      BY <1>2, <1>3, <1>5, <1>7, <1>9, <2>2, <2>4 DEF Promise!Accept
    <2> QED
      BY <1>1, <2>3, <2>5 DEF Promise!Next
  <1>10. CASE t \in Recorded /\ r.state = "closed"
    <2>1. acceptedAs' = acceptedAs
      BY <1>2, <1>10
    <2>2. Stages[t] = IF task[t].state = "accepted" THEN "accepted" ELSE "open"
      BY <1>2, <1>6, <1>10 DEF StageOf
    <2>3. CASE r.closure = "cancelled"
      <3>1. Promise!Cancel(t)
        BY <1>3, <1>5, <1>7, <1>10, <2>1, <2>2, <2>3 DEF Promise!Cancel, Promise!Finish
      <3> QED
        BY <1>1, <3>1 DEF Promise!Next
    <2>4. CASE r.closure # "cancelled"
      <3>1. r.closure \in {"merged", "accepted"}
        BY <1>1, <1>4, <1>10, <2>4 DEF Justified, Record, Closures
      <3>2. acceptedAs[t] \in Versions
        BY <1>0, <1>4, <1>10, <3>1 DEF Justified, Decided, AsOf
      <3>3. task[t].state = "accepted"
        BY <1>1, <1>2, <1>10, <3>2, TaskStoreAssumption DEF StoreInv, Unaccepted, Decisive
      <3>4. Promise!Deliver(t)
        BY <1>3, <1>5, <1>7, <1>10, <2>1, <2>2, <2>4, <3>3 DEF Promise!Deliver, Promise!Finish
      <3> QED
        BY <1>1, <3>4 DEF Promise!Next
    <2> QED
      BY <2>3, <2>4
  <1>11. CASE t \in Recorded /\ r.state \notin Decisive
    <2>1. task[t].state \notin Decisive
      BY <1>2, <1>11, Table DEF Decisive
    <2>2. Stages[t] = "open" /\ StageOf(t)' = "open" /\ acceptedAs' = acceptedAs
      BY <1>2, <1>5, <1>6, <1>11, <2>1 DEF StageOf, Decisive
    <2>3. Stages' = Stages
      BY <1>5, <1>6, <2>2
    <2> QED
      BY <1>3, <1>7, <1>11, <2>2, <2>3
  <1> QED
    BY <1>8, <1>9, <1>10, <1>11 DEF Decisive

(* What becomes of the approvals when one review of a task is rewritten.   *)
LEMMA ReviewRewritten ==
    ASSUME TypeOK, NEW t \in Tasks, NEW i \in DOMAIN reviews[t], NEW r \in Review,
           r.subject = reviews[t][i].subject,
           reviews'[t] = [reviews[t] EXCEPT ![i] = r],
           \A u \in Tasks \ {t} : reviews'[u] = reviews[u]
    PROVE  LET x == reviews[t][i] IN
           /\ x \in Review /\ r.subject \in Versions
           /\ ~Passing(x) /\ Passing(r) =>
                 Approvals' = [Approvals EXCEPT ![t] = @ \union {r.subject}]
           /\ ~Passing(x) /\ ~Passing(r) => Approvals' = Approvals
           /\ ~Passing(r) => \/ Approvals' = Approvals
                             \/ Approvals' = [Approvals EXCEPT ![t] = @ \ {r.subject}]
  <1> DEFINE s == reviews[t]
             z == reviews'[t]
             old == Approved(t)
  <1>1. /\ i \in DOMAIN s /\ DOMAIN z = DOMAIN s /\ z[i] = r /\ s[i] \in Review
        /\ \A j \in DOMAIN s \ {i} : z[j] = s[j]
        /\ \A j \in DOMAIN s : s[j] \in Review
    BY DEF TypeOK
  <1>2. r.subject \in Versions
    BY DEF Review
  <1>3. \A v \in Versions :
          v \in Approved(t) <=> \E j \in DOMAIN s : s[j].subject = v /\ Passing(s[j])
    BY <1>1, ApprovingReview DEF Approved
  <1> DEFINE new == {v \in Versions : \E j \in DOMAIN s : z[j].subject = v /\ Passing(z[j])}
  <1>4. Approved(t)' = new
    <2>1. \A j \in DOMAIN s : z[j] \in Review
      BY <1>1
    <2>2. \A j \in DOMAIN s : \A v :
            z[j] = [subject |-> v, verdict |-> "passed",
                    status |-> "completed", assignment |-> "completed"]
            <=> z[j].subject = v /\ Passing(z[j])
      BY <2>1, ApprovingReview
    <2>3. Approved(t)' = {v \in Versions : \E j \in DOMAIN z :
                             z[j] = [subject |-> v, verdict |-> "passed",
                                     status |-> "completed", assignment |-> "completed"]}
      BY DEF Approved
    <2> HIDE DEF s, z
    <2> QED
      BY <1>1, <2>2, <2>3
  <1>5. old \subseteq Versions
    BY DEF Approved
  <1> HIDE DEF s, z
  <1>6. \A v \in Versions \ {r.subject} : v \in new <=> v \in old
    BY <1>1, <1>3 DEF s
  <1>7. Passing(r) => r.subject \in new
    BY <1>1, <1>2
  <1>8. ~Passing(reviews[t][i]) /\ ~Passing(r) => (r.subject \in new <=> r.subject \in old)
    BY <1>1, <1>2, <1>3 DEF s
  <1> HIDE DEF new
  <1>9. new \subseteq Versions
    BY DEF new
  <1>10. /\ Passing(r) => new = old \union {r.subject}
         /\ ~Passing(reviews[t][i]) /\ ~Passing(r) => new = old
         /\ new = old \/ new = old \union {r.subject} \/ new = old \ {r.subject}
    BY <1>2, <1>5, <1>6, <1>7, <1>8, <1>9
  <1>11. ~Passing(r) /\ r.subject \in new => r.subject \in old
    BY <1>1, <1>2, <1>3 DEF s, new
  <1>12. Approvals' = [Approvals EXCEPT ![t] = new]
    <2>1. \A u \in Tasks \ {t} : Approved(u)' = Approved(u)
      BY DEF Approved
    <2> QED
      BY <1>4, <2>1 DEF Approvals
  <1>13. Approvals[t] = old /\ Approvals = [Approvals EXCEPT ![t] = old]
    BY DEF Approvals
  <1>14. ~Passing(r) => new = old \/ new = old \ {r.subject}
    BY <1>10, <1>11
  <1> HIDE DEF old
  <1> QED
    BY <1>1, <1>2, <1>10, <1>12, <1>13, <1>14 DEF s

(* A review that is completed approves of its subject, if it passed and    *)
(* was not superseded meanwhile.                                           *)
LEMMA CompleteReviewDelivers ==
    ASSUME TypeOK, StoreInv, NEW t \in Tasks, NEW i, CompleteReview(t, i)
    PROVE  [Promise!Next]_<<Stages, Owners, Approvals, acceptedAs>>
  <1> DEFINE x == reviews[t][i]
             r == [x EXCEPT !.assignment = "completed"]
  <1>1. /\ i \in DOMAIN reviews[t] /\ x.assignment = "dispatched" /\ x \in Review
        /\ UNCHANGED <<task, acceptedAs>>
        /\ reviews' = [reviews EXCEPT ![t][i].assignment = "completed"]
    BY DEF CompleteReview, TypeOK
  <1>2. /\ reviews'[t] = [reviews[t] EXCEPT ![i] = r]
        /\ \A u \in Tasks \ {t} : reviews'[u] = reviews[u]
    BY <1>1 DEF TypeOK
  <1>3. r \in Review /\ r.subject = x.subject /\ ~Passing(x)
    BY <1>1 DEF Review, Passing
  <1> HIDE DEF r
  <1>4. Stages' = Stages /\ Owners' = Owners
    BY <1>1, StagesKept
  <1>5. Stages[t] # "absent"
    <2>1. reviews[t] # <<>>
      BY <1>1
    <2>2. t \in Recorded
      BY <2>1 DEF StoreInv, ReviewsRecorded
    <2> QED
      BY <2>2 DEF Stages, StageOf
  <1>6. /\ r.subject \in Versions
        /\ \/ Approvals' = Approvals
           \/ Approvals' = [Approvals EXCEPT ![t] = @ \union {r.subject}]
    BY <1>1, <1>2, <1>3, ReviewRewritten
  <1>7. CASE Approvals' = [Approvals EXCEPT ![t] = @ \union {r.subject}]
    <2>1. Promise!Approve(t, r.subject)
      BY <1>1, <1>4, <1>5, <1>7 DEF Promise!Approve
    <2> QED
      BY <1>6, <2>1 DEF Promise!Next
  <1> QED
    BY <1>1, <1>4, <1>6, <1>7

(* The gate supersedes a review only while the task is open.               *)
LEMMA SupersedingDelivers ==
    ASSUME TypeOK, NEW w \in Writers, NEW i, AcceptSupersedes(w, i)
    PROVE  [Promise!Next]_<<Stages, Owners, Approvals, acceptedAs>>
  <1>0. PICK t \in Tasks : t = command[w].task
    BY DEF AcceptSupersedes, Recorded
  <1> DEFINE x == reviews[t][i]
             r == [x EXCEPT !.status = "superseded"]
  <1>1. /\ i \in DOMAIN reviews[t] /\ x \in Review
        /\ t \in Recorded /\ "accepted" \in TRANSITIONS[task[t].state]
        /\ UNCHANGED <<task, acceptedAs>>
        /\ reviews' = [reviews EXCEPT ![t][i].status = "superseded"]
    BY <1>0 DEF AcceptSupersedes, ReviewUsable, LatestCompleted, Completed, TypeOK
  <1>2. /\ reviews'[t] = [reviews[t] EXCEPT ![i] = r]
        /\ \A u \in Tasks \ {t} : reviews'[u] = reviews[u]
    BY <1>1 DEF TypeOK
  <1>3. r \in Review /\ r.subject = x.subject /\ ~Passing(r)
    BY <1>1 DEF Review, Passing
  <1> HIDE DEF r
  <1>4. Stages' = Stages /\ Owners' = Owners
    BY <1>1, StagesKept
  <1>5. Stages[t] = "open"
    <2>1. task[t].state \in STATES
      BY <1>1 DEF Recorded, TypeOK, Record
    <2>2. task[t].state = "review"
      BY <1>1, <2>1, Table
    <2> QED
      BY <1>1, <2>2 DEF Stages, StageOf
  <1>6. /\ r.subject \in Versions
        /\ \/ Approvals' = Approvals
           \/ Approvals' = [Approvals EXCEPT ![t] = @ \ {r.subject}]
    BY <1>1, <1>2, <1>3, ReviewRewritten
  <1>7. CASE Approvals' = [Approvals EXCEPT ![t] = @ \ {r.subject}]
    <2>1. Promise!Withdraw(t, r.subject)
      BY <1>1, <1>4, <1>5, <1>7 DEF Promise!Withdraw
    <2> QED
      BY <1>6, <2>1 DEF Promise!Next
  <1> QED
    BY <1>1, <1>4, <1>6, <1>7

(* Marking the assignment afterwards withdraws nothing more.               *)
LEMMA SupersededDelivers ==
    ASSUME TypeOK, GateInv, NEW w \in Writers, SupersedeAssignment(w)
    PROVE  UNCHANGED <<Stages, Owners, Approvals, acceptedAs>>
  <1> DEFINE i == command[w].index
  <1>0. PICK t \in Tasks : t = command[w].task
    BY CommandShape DEF SupersedeAssignment, TypeOK
  <1> DEFINE x == reviews[t][i]
             r == [x EXCEPT !.assignment = "superseded"]
  <1>1. /\ i \in DOMAIN reviews[t] /\ x \in Review /\ x.status = "superseded"
        /\ UNCHANGED <<task, acceptedAs>>
        /\ reviews' = [reviews EXCEPT ![t][i].assignment = "superseded"]
    BY <1>0 DEF SupersedeAssignment, GateInv, CommandSound, TypeOK
  <1>2. /\ reviews'[t] = [reviews[t] EXCEPT ![i] = r]
        /\ \A u \in Tasks \ {t} : reviews'[u] = reviews[u]
    BY <1>1 DEF TypeOK
  <1>3. r \in Review /\ r.subject = x.subject /\ ~Passing(x) /\ ~Passing(r)
    BY <1>1 DEF Review, Passing
  <1> HIDE DEF r, i
  <1>4. Approvals' = Approvals
    BY <1>1, <1>2, <1>3, ReviewRewritten
  <1> QED
    BY <1>1, <1>4, StagesKept

(* A review that comes in is nobody's approval yet.                        *)
LEMMA RecordReviewDelivers ==
    ASSUME TypeOK, NEW t \in Tasks, NEW verdict, RecordReview(t, verdict)
    PROVE  UNCHANGED <<Stages, Owners, Approvals, acceptedAs>>
  <1> DEFINE s == reviews[t]
             r == [subject |-> asked[t], verdict |-> verdict,
                   status |-> "completed", assignment |-> "dispatched"]
  <1>1. /\ UNCHANGED <<task, acceptedAs>> /\ s \in Seq(Review)
        /\ reviews'[t] = Append(s, r)
        /\ \A u \in Tasks \ {t} : reviews'[u] = reviews[u]
    BY DEF RecordReview, TypeOK
  <1>2. \A v : r # [subject |-> v, verdict |-> "passed",
                    status |-> "completed", assignment |-> "completed"]
    <2> SUFFICES ASSUME NEW v,
                        r = [subject |-> v, verdict |-> "passed",
                             status |-> "completed", assignment |-> "completed"]
                 PROVE  FALSE
      OBVIOUS
    <2>1. r.assignment = "dispatched" /\ r.assignment = "completed"
      OBVIOUS
    <2> QED
      BY <2>1
  <1> HIDE DEF r
  <1>3. /\ DOMAIN Append(s, r) = DOMAIN s \union {Len(s) + 1}
        /\ Append(s, r)[Len(s) + 1] = r
        /\ \A j \in DOMAIN s : Append(s, r)[j] = s[j]
    BY <1>1
  <1>4. Approved(t)' = Approved(t)
    BY <1>1, <1>2, <1>3 DEF Approved
  <1>5. \A u \in Tasks : Approved(u)' = Approved(u)
    BY <1>1, <1>4 DEF Approved
  <1>6. Approvals' = Approvals
    BY <1>5 DEF Approvals
  <1> QED
    BY <1>1, <1>6, StagesKept

(* The store implements Delivery, for any number of tasks, agents, leader  *)
(* processes and reviews, while no two commands are about one task and no  *)
(* two create.                                                             *)
THEOREM DeliveryImplemented == Spec /\ []Undisturbed => ImplementsDelivery
  <1>1. Init => Promise!Init
    <2> SUFFICES ASSUME Init PROVE Promise!Init
      OBVIOUS
    <2>1. Recorded = {}
      BY DEF Init, Recorded
    <2>2. \A t \in Tasks : StageOf(t) = "absent" /\ Approved(t) = {}
      BY <2>1 DEF Init, StageOf, Approved
    <2>3. Stages = [t \in Tasks |-> "absent"]
      BY <2>2 DEF Stages
    <2>4. Owners = [t \in Tasks |-> NoTask] /\ Approvals = [t \in Tasks |-> {}]
      BY <2>1, <2>2 DEF Owners, Approvals
    <2> QED
      BY <2>3, <2>4 DEF Init, Promise!Init
  <1>2. /\ TypeOK /\ Fresh /\ RoomInv /\ GateInv /\ StoreInv
        /\ [Next]_vars
        => [Promise!Next]_<<Stages, Owners, Approvals, acceptedAs>>
    <2> SUFFICES ASSUME TypeOK, Fresh, RoomInv, GateInv, StoreInv, [Next]_vars
                 PROVE  [Promise!Next]_<<Stages, Owners, Approvals, acceptedAs>>
      OBVIOUS
    <2>1. ASSUME UNCHANGED <<task, reviews, acceptedAs>>
          PROVE  UNCHANGED <<Stages, Owners, Approvals, acceptedAs>>
      BY <2>1, StagesKept, ApprovalsKept
    <2>2. ASSUME NEW w \in Writers, WriteRecord(w)
          PROVE  [Promise!Next]_<<Stages, Owners, Approvals, acceptedAs>>
      BY <2>2, WriteRecordDelivers
    <2>3. ASSUME NEW w \in Writers, Create(w) \/ CreateDirectory(w)
          PROVE  UNCHANGED <<task, reviews, acceptedAs>>
      BY <2>3 DEF Create, CreateCheck, CreateDirectory
    <2>4. ASSUME NEW w \in Writers,
                 \/ \E t \in Tasks, s \in STATES : Move(w, t, s)
                 \/ \E t \in Tasks, e \in CloseEvidence : Close(w, t, e)
                 \/ \E i \in 1..MaxReviews : Accept(w, i)
          PROVE  UNCHANGED <<task, reviews, acceptedAs>>
      BY <2>4 DEF Move, Close, Accept, Stage
    <2>5. ASSUME NEW w \in Writers, Aside(w)
          PROVE  [Promise!Next]_<<Stages, Owners, Approvals, acceptedAs>>
      <3>1. CASE (\E t \in Tasks : Collect(w, t)) \/ WriteDoc(w) \/ Abort(w)
        BY <2>1, <3>1 DEF Collect, WriteDoc, Abort
      <3> QED
        BY <2>5, <3>1, SupersedingDelivers, SupersededDelivers DEF Aside
    <2>6. CASE \E w \in Writers : Notes(w)
      BY <2>1, <2>6 DEF Notes, WriteReport, WriteReview
    <2>7. CASE Environment
      <3>1. PICK t \in Tasks :
              \/ \E version \in Versions : Commit(t, version)
              \/ AskReview(t)
              \/ \E verdict \in {"passed", "changes_requested"} : RecordReview(t, verdict)
              \/ \E i \in 1..MaxReviews : CompleteReview(t, i)
        BY <2>7 DEF Environment
      <3>2. CASE AskReview(t) \/ \E version \in Versions : Commit(t, version)
        BY <2>1, <3>2 DEF AskReview, Commit
      <3> QED
        BY <3>1, <3>2, RecordReviewDelivers, CompleteReviewDelivers
    <2>8. CASE UNCHANGED vars
      BY <2>1, <2>8 DEF vars
    <2> QED
      BY <2>1, <2>2, <2>3, <2>4, <2>5, <2>6, <2>7, <2>8, NextCases DEF Outside
  <1>3. Undisturbed /\ TypeOK /\ Fresh /\ RoomInv /\ StoreInv /\ [Next]_vars
        => RoomInv' /\ StoreInv'
    BY RoomInvariant, StoreInvariant DEF Undisturbed
  <1>4. Undisturbed => OneCommandPerTask
    BY DEF Undisturbed
  <1> QED
    BY <1>1, <1>2, <1>3, <1>4, RoomInit, StoreInit, GateInvariance, PTL
       DEF Spec, ImplementsDelivery, Promise!Spec
=============================================================================
