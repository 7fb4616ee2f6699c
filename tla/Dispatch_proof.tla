---------------------------- MODULE Dispatch_proof ----------------------------
(* Theorems about Dispatch, for every value of its constants. *)
EXTENDS Dispatch, TLAPS

(* A command stays well-formed when one process's command is replaced.     *)
Fits(c) ==
    /\ c \in Commands
    /\ c.step \in {"append", "send", "wait", "scan", "read", "review"} => c.attempt \in Attempts
    /\ c.step = "append" => c.to \in Outcomes
    /\ c.step \in {"status", "review"} => c.to \in STATUSES

(* A process with no command is well-formed.                               *)
LEMMA IdleFits == Fits(Idle)
  BY DispatchAssumption DEF Fits, Idle, Commands, Steps

(* A command about to set a status, or to record a verdict, fits.          *)
LEMMA StatusFits ==
    ASSUME NEW step \in {"status", "review"}, NEW a \in Attempts, NEW s \in STATUSES
    PROVE  Fits([step |-> step, attempt |-> a, to |-> s, at |-> 0])
  <1> DEFINE c == [step |-> step, attempt |-> a, to |-> s, at |-> 0]
  <1>1. 0 \in 0..MaxReplies
    BY DispatchAssumption
  <1>2. step \in Steps /\ step # "append"
    BY DEF Steps
  <1>3. c \in Commands
    BY <1>1, <1>2 DEF Commands
  <1> QED
    BY <1>2, <1>3 DEF Fits

(* The type invariant says so of each command.                             *)
LEMMA FitsType ==
    ASSUME TypeOK
    PROVE  \A p \in Procs : Fits(command[p])
  BY DEF TypeOK, Fits

(* Replacing one command by a well-formed one keeps the types.             *)
LEMMA BecomeFits ==
    ASSUME TypeOK, NEW p \in Procs, NEW c, Fits(c), command' = [command EXCEPT ![p] = c]
    PROVE  /\ command' \in [Procs -> Commands]
           /\ \A q \in Procs : Fits(command'[q])
  BY FitsType DEF TypeOK, Fits

(* The last answer of a thread that has one.                               *)
LEMMA LastAnswer ==
    ASSUME NEW s \in Seq(Answers), Len(s) > 0
    PROVE  s[Len(s)] \in Answers
  OBVIOUS

(* The type invariant, for any number of processes and attempts.           *)
THEOREM TypeCorrect == Spec => []TypeOK
  <1>1. Init => TypeOK
    <2>1. <<>> \in Seq(Row) /\ <<>> \in Seq(Answers) /\ Len(<<>>) = 0
      OBVIOUS
    <2> SUFFICES ASSUME Init PROVE TypeOK
      OBVIOUS
    <2>2. \A p \in Procs : Fits(command[p])
      BY IdleFits DEF Init
    <2>3. command \in [Procs -> Commands]
      BY IdleFits DEF Init, Fits
    <2>4. /\ replies \in [Attempts -> Seq(Answers)]
          /\ \A a \in Attempts : Len(replies[a]) <= MaxReplies
      BY <2>1, DispatchAssumption DEF Init
    <2> QED
      BY <2>1, <2>2, <2>3, <2>4 DEF Init, TypeOK, STATUSES, Fits
  <1>2. TypeOK /\ [Next]_vars => TypeOK'
    <2> SUFFICES ASSUME TypeOK, [Next]_vars
                 PROVE  TypeOK'
      OBVIOUS
    <2>f. \A p \in Procs : Fits(command[p])
      BY FitsType
    <2>i. ASSUME NEW p \in Procs, Finish(p)
          PROVE  /\ command' \in [Procs -> Commands]
                 /\ \A q \in Procs : Fits(command'[q])
      BY <2>i, IdleFits, BecomeFits DEF Finish
    <2>b. ASSUME NEW p \in Procs, NEW step, NEW a, NEW to, NEW at, Become(p, step, a, to, at),
                 Fits([step |-> step, attempt |-> a, to |-> to, at |-> at])
          PROVE  /\ command' \in [Procs -> Commands]
                 /\ \A q \in Procs : Fits(command'[q])
      BY <2>b, BecomeFits DEF Become
    <2>1. ASSUME NEW p \in Procs, NEW a \in Attempts, BeginDispatch(p, a)
          PROVE  TypeOK'
      <3>1. Fits([step |-> "append", attempt |-> a, to |-> "pending", at |-> 0])
        BY DispatchAssumption DEF Fits, Commands, Steps, Outcomes
      <3> QED
        BY <2>1, <2>b, <3>1 DEF BeginDispatch, TypeOK, Fits
    <2>2. ASSUME NEW p \in Procs, AppendAttempt(p)
          PROVE  TypeOK'
      <3> DEFINE c == command[p]
      <3>1. c.attempt \in Attempts /\ c.to \in Outcomes /\ c.at \in 0..MaxReplies
        BY <2>2, <2>f DEF AppendAttempt, Fits, Commands
      <3>2. [attempt |-> c.attempt, state |-> c.to, at |-> c.at] \in Row
        BY <3>1 DEF Row
      <3>a. attemptLog \in Seq(Row)
        BY DEF TypeOK
      <3>b. attemptLog' = Append(attemptLog, [attempt |-> c.attempt, state |-> c.to, at |-> c.at])
        BY <2>2 DEF AppendAttempt
      <3>3. attemptLog' \in Seq(Row)
        BY <3>2, <3>a, <3>b
      <3>4. CASE c.to = "pending" /\ Become(p, "send", c.attempt, "", 0)
        <4>1. Fits([step |-> "send", attempt |-> c.attempt, to |-> "", at |-> 0])
          BY <3>1, DispatchAssumption DEF Fits, Commands, Steps
        <4> QED
          BY <2>2, <2>b, <3>3, <3>4, <4>1 DEF AppendAttempt, TypeOK, Fits
      <3>5. CASE Finish(p)
        BY <2>2, <2>i, <3>3, <3>5 DEF AppendAttempt, TypeOK, Fits
      <3>6. CASE /\ c.to \in {"delivered", "unknown", "reconciled_not_found"}
                 /\ Become(p, "status", c.attempt, StatusAfter(c.to), 0)
        <4>1. StatusAfter(c.to) \in STATUSES
          BY <3>6 DEF StatusAfter, STATUSES
        <4>2. Fits([step |-> "status", attempt |-> c.attempt, to |-> StatusAfter(c.to),
                    at |-> 0])
          BY <3>1, <4>1, StatusFits
        <4> QED
          BY <2>2, <2>b, <3>3, <3>6, <4>2 DEF AppendAttempt, TypeOK, Fits
      <3> QED
        BY <2>2, <3>4, <3>5, <3>6 DEF AppendAttempt
    <2>3. ASSUME NEW p \in Procs, Send(p)
          PROVE  TypeOK'
      <3> DEFINE a == command[p].attempt
      <3>1. a \in Attempts
        BY <2>3, <2>f DEF Send, Fits
      <3>2. Fits([step |-> "wait", attempt |-> a, to |-> "", at |-> 0])
        BY <3>1, DispatchAssumption DEF Fits, Commands, Steps
      <3> QED
        BY <2>3, <2>b, <3>1, <3>2 DEF Send, TypeOK, Fits
    <2>4. ASSUME NEW p \in Procs, Response(p)
          PROVE  TypeOK'
      <3> DEFINE a == command[p].attempt
      <3>1. a \in Attempts /\ Len(replies[a]) \in 0..MaxReplies
        BY <2>4, <2>f DEF Response, Fits, TypeOK
      <3>2. \A o \in Outcomes, n \in 0..MaxReplies :
              Fits([step |-> "append", attempt |-> a, to |-> o, at |-> n])
        BY <3>1 DEF Fits, Commands, Steps
      <3>3. {"delivered", "definitive_failure", "unknown"} \subseteq Outcomes /\ 0 \in 0..MaxReplies
        BY DispatchAssumption DEF Outcomes
      <3>4. inFlight' \subseteq Attempts
        BY <2>4 DEF Response, TypeOK
      <3>5. command' \in [Procs -> Commands] /\ \A q \in Procs : Fits(command'[q])
        BY <2>4, <2>b, <3>1, <3>2, <3>3 DEF Response
      <3> QED
        BY <2>4, <3>4, <3>5 DEF Response, TypeOK, Fits
    <2>5. ASSUME NEW p \in Procs, SetStatus(p)
          PROVE  TypeOK'
      <3>1. status' \in STATUSES
        BY <2>5, <2>f DEF SetStatus, Fits
      <3> QED
        BY <2>5, <2>i, <3>1 DEF SetStatus, TypeOK, Fits
    <2>6. ASSUME NEW p \in Procs, BeginReconcile(p)
          PROVE  TypeOK'
      <3>1. \A a \in Attempts : Fits([step |-> "scan", attempt |-> a, to |-> "", at |-> 0])
        BY DispatchAssumption DEF Fits, Commands, Steps
      <3>2. command' \in [Procs -> Commands] /\ \A q \in Procs : Fits(command'[q])
        BY <2>6, <2>b, <3>1 DEF BeginReconcile
      <3> QED
        BY <2>6, <3>2 DEF BeginReconcile, TypeOK, Fits
    <2>7. ASSUME NEW p \in Procs, Scan(p)
          PROVE  TypeOK'
      <3> DEFINE a == command[p].attempt
      <3>1. a \in Attempts /\ Len(replies[a]) \in 0..MaxReplies
        BY <2>7, <2>f DEF Scan, Fits, TypeOK
      <3>2. \A o \in Outcomes, n \in 0..MaxReplies :
              Fits([step |-> "append", attempt |-> a, to |-> o, at |-> n])
        BY <3>1 DEF Fits, Commands, Steps
      <3>3. {"delivered", "reconciled_not_found"} \subseteq Outcomes /\ 0 \in 0..MaxReplies
        BY DispatchAssumption DEF Outcomes
      <3>4. command' \in [Procs -> Commands] /\ \A q \in Procs : Fits(command'[q])
        BY <2>7, <2>b, <3>1, <3>2, <3>3 DEF Scan
      <3> QED
        BY <2>7, <3>4 DEF Scan, TypeOK, Fits
    <2>8. ASSUME NEW p \in Procs, BeginSync(p)
          PROVE  TypeOK'
      <3>1. PICK a \in Attempts, i \in DOMAIN attemptLog :
              Become(p, "read", a, "", attemptLog[i].at)
        BY <2>8 DEF BeginSync, LastRow, Rows
      <3>2. attemptLog \in Seq(Row)
        BY DEF TypeOK
      <3>3. attemptLog[i] \in Row
        BY <3>2
      <3>4. attemptLog[i].at \in 0..MaxReplies
        BY <3>3 DEF Row
      <3>5. Fits([step |-> "read", attempt |-> a, to |-> "", at |-> attemptLog[i].at])
        BY <3>4 DEF Fits, Commands, Steps
      <3>6. command' \in [Procs -> Commands] /\ \A q \in Procs : Fits(command'[q])
        BY <3>1, <2>b, <3>5
      <3> QED
        BY <2>8, <3>6 DEF BeginSync, TypeOK, Fits
    <2>9. ASSUME NEW p \in Procs, ReadThread(p)
          PROVE  TypeOK'
      <3> DEFINE a == command[p].attempt
                 answer == replies[a][Len(replies[a])]
                 to == IF answer = "verdict" THEN "completed" ELSE answer
      <3>1. a \in Attempts /\ command[p].at \in 0..MaxReplies
        BY <2>9, <2>f DEF ReadThread, Fits, Commands
      <3>2. answer \in Answers
        BY <2>9, <3>1, LastAnswer, DispatchAssumption DEF ReadThread, Answered, TypeOK
      <3>3. to \in STATUSES
        BY <3>2 DEF Answers, STATUSES
      <3>4. Fits([step |-> StepFor, attempt |-> a, to |-> to, at |-> 0])
        BY <3>1, <3>3, StatusFits DEF StepFor
      <3>5. command' \in [Procs -> Commands] /\ \A q \in Procs : Fits(command'[q])
        BY <2>9, <2>b, <3>4 DEF ReadThread
      <3> QED
        BY <2>9, <3>5 DEF ReadThread, TypeOK, Fits
    <2>10. ASSUME NEW p \in Procs, WriteReviewRecord(p)
           PROVE  TypeOK'
      <3> DEFINE c == command[p]
      <3>1. Fits([step |-> "status", attempt |-> c.attempt, to |-> c.to, at |-> 0])
        BY <2>10, <2>f, StatusFits DEF WriteReviewRecord, Fits
      <3>2. command' \in [Procs -> Commands] /\ \A q \in Procs : Fits(command'[q])
        BY <2>10, <2>b, <3>1 DEF WriteReviewRecord
      <3> QED
        BY <2>10, <3>2 DEF WriteReviewRecord, TypeOK, Fits
    <2>11. ASSUME NEW p \in Procs, Refused(p) \/ Crash(p) \/ BadResponse(p)
           PROVE  TypeOK'
      BY <2>11, <2>i DEF Refused, Crash, BadResponse, TypeOK, Fits
    <2>12. ASSUME NEW a \in Attempts, Land(a) \/ Lose(a)
           PROVE  TypeOK'
      BY <2>12 DEF Land, Lose, TypeOK
    <2>13. ASSUME NEW a \in Attempts, NEW answer \in Answers, Reply(a, answer)
           PROVE  TypeOK'
      <3>1. Append(replies[a], answer) \in Seq(Answers)
            /\ Len(Append(replies[a], answer)) = Len(replies[a]) + 1
        BY DEF TypeOK
      <3>2. Len(replies[a]) \in Nat
        BY DEF TypeOK
      <3>3. Len(Append(replies[a], answer)) <= MaxReplies
        BY <2>13, <3>1, <3>2, DispatchAssumption DEF Reply
      <3> QED
        BY <2>13, <3>1, <3>3 DEF Reply, TypeOK
    <2>14. CASE TaskMoves \/ Supersede
      BY <2>14 DEF TaskMoves, Supersede, TypeOK, STATUSES
    <2>15. CASE UNCHANGED vars
      BY <2>15 DEF vars, TypeOK
    <2> QED
      BY <2>1, <2>2, <2>3, <2>4, <2>5, <2>6, <2>7, <2>8, <2>9, <2>10, <2>11, <2>12, <2>13,
         <2>14, <2>15 DEF Next, Alive, Run, Begin, Step, Environment
  <1> QED
    BY <1>1, <1>2, PTL DEF Spec
-----------------------------------------------------------------------------
(* A step replaces the command of its own process and of no other.          *)
OthersKeep(p) == \A q \in Procs \ {p} : command'[q] = command[q]

Became(p) ==
    \A step, a, to, at :
        Become(p, step, a, to, at) =>
            /\ command'[p].step = step /\ command'[p].attempt = a
            /\ command'[p].to = to /\ command'[p].at = at
            /\ OthersKeep(p)
Finished(p) ==
    Finish(p) => command'[p].step = "idle" /\ command'[p].to = "" /\ OthersKeep(p)

(* What Become and Finish do to the command of p, and to no other.         *)
LEMMA OwnCommand ==
    ASSUME TypeOK, NEW p \in Procs
    PROVE  Became(p) /\ Finished(p)
  <1>1. command \in [Procs -> Commands]
    BY DEF TypeOK
  <1>2. Idle.step = "idle" /\ Idle.to = ""
    BY DEF Idle
  <1>3. Became(p)
    BY <1>1 DEF Become, Became, OthersKeep
  <1>4. Finished(p)
    BY <1>1, <1>2 DEF Finish, Finished, OthersKeep
  <1> QED
    BY <1>3, <1>4

(* What each step leaves its own process about to do.                       *)
LEMMA OwnStep ==
    ASSUME TypeOK, NEW p \in Procs
    PROVE  /\ (\E a \in Attempts : BeginDispatch(p, a)) =>
                 /\ OthersKeep(p)
                 /\ command'[p].step = "append" /\ command'[p].to = "pending"
           /\ AppendAttempt(p) =>
                 /\ OthersKeep(p)
                 /\ command'[p].step \in {"idle", "send", "status"}
                 /\ command'[p].step \in {"send", "status"} => command'[p].attempt = command[p].attempt
           /\ Send(p) =>
                 /\ OthersKeep(p)
                 /\ command'[p].step = "wait" /\ command'[p].attempt = command[p].attempt
           /\ Response(p) =>
                 /\ OthersKeep(p)
                 /\ command'[p].step = "append" /\ command'[p].attempt = command[p].attempt
                 /\ command'[p].to \in {"delivered", "definitive_failure", "unknown"}
                 /\ command'[p].to = "delivered" => command[p].attempt \in channel
           /\ (SetStatus(p) \/ BadResponse(p) \/ Refused(p) \/ Crash(p)) =>
                 /\ OthersKeep(p)
                 /\ command'[p].step = "idle"
           /\ BeginReconcile(p) =>
                 /\ OthersKeep(p)
                 /\ command'[p].step = "scan"
                 /\ Newest(command'[p].attempt, InState({"unknown"}))
           /\ Scan(p) =>
                 /\ OthersKeep(p)
                 /\ command'[p].step = "append" /\ command'[p].attempt = command[p].attempt
                 /\ command'[p].to \in {"delivered", "reconciled_not_found"}
                 /\ command'[p].to = "delivered" => command[p].attempt \in channel
           /\ BeginSync(p) =>
                 /\ OthersKeep(p)
                 /\ command'[p].step = "read"
                 /\ Newest(command'[p].attempt, InState({"delivered"}))
           /\ ReadThread(p) =>
                 /\ OthersKeep(p)
                 /\ command'[p].step \in {"status", "review"} /\ command'[p].attempt = command[p].attempt
           /\ WriteReviewRecord(p) =>
                 /\ OthersKeep(p)
                 /\ command'[p].step = "status" /\ command'[p].attempt = command[p].attempt
                 /\ command'[p].to = command[p].to
  <1>c. Became(p) /\ Finished(p)
    BY OwnCommand
  <1>1. ASSUME \E a \in Attempts : BeginDispatch(p, a)
        PROVE  /\ OthersKeep(p)
               /\ command'[p].step = "append" /\ command'[p].to = "pending"
    BY <1>1, <1>c DEF BeginDispatch, Became, Finished
  <1>2. ASSUME AppendAttempt(p)
        PROVE  /\ OthersKeep(p)
               /\ command'[p].step \in {"idle", "send", "status"}
               /\ command'[p].step \in {"send", "status"} => command'[p].attempt = command[p].attempt
    BY <1>2, <1>c DEF AppendAttempt, Became, Finished
  <1>3. ASSUME Send(p)
        PROVE  /\ OthersKeep(p)
               /\ command'[p].step = "wait" /\ command'[p].attempt = command[p].attempt
    BY <1>3, <1>c DEF Send, Became, Finished
  <1>4. ASSUME Response(p)
        PROVE  /\ OthersKeep(p)
               /\ command'[p].step = "append" /\ command'[p].attempt = command[p].attempt
               /\ command'[p].to \in {"delivered", "definitive_failure", "unknown"}
               /\ command'[p].to = "delivered" => command[p].attempt \in channel
    <2> DEFINE a == command[p].attempt
    <2>1. CASE a \in channel /\ Become(p, "append", a, "delivered", Len(replies[a]))
      BY <2>1, <1>c DEF Became
    <2>2. CASE Become(p, "append", a, "definitive_failure", 0)
      BY <2>2, <1>c DEF Became
    <2>3. CASE Become(p, "append", a, "unknown", 0)
      BY <2>3, <1>c DEF Became
    <2> QED
      BY <1>4, <2>1, <2>2, <2>3 DEF Response
  <1>5. ASSUME SetStatus(p) \/ BadResponse(p) \/ Refused(p) \/ Crash(p)
        PROVE  /\ OthersKeep(p)
               /\ command'[p].step = "idle"
    BY <1>5, <1>c DEF SetStatus, BadResponse, Refused, Crash, Became, Finished
  <1>6. ASSUME BeginReconcile(p)
        PROVE  /\ OthersKeep(p)
               /\ command'[p].step = "scan"
               /\ Newest(command'[p].attempt, InState({"unknown"}))
    BY <1>6, <1>c DEF BeginReconcile, Became, Finished
  <1>7. ASSUME Scan(p)
        PROVE  /\ OthersKeep(p)
               /\ command'[p].step = "append" /\ command'[p].attempt = command[p].attempt
               /\ command'[p].to \in {"delivered", "reconciled_not_found"}
               /\ command'[p].to = "delivered" => command[p].attempt \in channel
    <2> DEFINE a == command[p].attempt
    <2>1. CASE a \in channel /\ Become(p, "append", a, "delivered", Len(replies[a]))
      BY <2>1, <1>c DEF Became
    <2>2. CASE Become(p, "append", a, "reconciled_not_found", 0)
      BY <2>2, <1>c DEF Became
    <2> QED
      BY <1>7, <2>1, <2>2 DEF Scan, Found
  <1>8. ASSUME BeginSync(p)
        PROVE  /\ OthersKeep(p)
               /\ command'[p].step = "read"
               /\ Newest(command'[p].attempt, InState({"delivered"}))
    BY <1>8, <1>c DEF BeginSync, Became, Finished
  <1>9. ASSUME ReadThread(p)
        PROVE  /\ OthersKeep(p)
               /\ command'[p].step \in {"status", "review"} /\ command'[p].attempt = command[p].attempt
    BY <1>9, <1>c DEF ReadThread, StepFor, Became, Finished
  <1>10. ASSUME WriteReviewRecord(p)
        PROVE  /\ OthersKeep(p)
               /\ command'[p].step = "status" /\ command'[p].attempt = command[p].attempt
               /\ command'[p].to = command[p].to
    BY <1>10, <1>c DEF WriteReviewRecord, Became, Finished
  <1> QED
    BY <1>1, <1>2, <1>3, <1>4, <1>5, <1>6, <1>7, <1>8, <1>9, <1>10

(* At first nothing is logged and nobody is busy.                          *)
LEMMA InitIsIdle ==
    ASSUME Init
    PROVE  DOMAIN attemptLog = {} /\ \A p \in Procs : command[p].step = "idle"
  <1>1. DOMAIN <<>> = {}
    OBVIOUS
  <1>2. Idle.step = "idle"
    BY DEF Idle
  <1> QED
    BY <1>1, <1>2 DEF Init

(* Rows are only added: an attempt in the log stays there, with its rows.   *)
LEMMA LogGrows ==
    ASSUME TypeOK, [Next]_vars
    PROVE  /\ Logged \subseteq Logged'
           /\ \A i \in DOMAIN attemptLog :
                 i \in DOMAIN attemptLog' /\ attemptLog'[i] = attemptLog[i]
  <1> DEFINE row(p) == [attempt |-> command[p].attempt, state |-> command[p].to,
                        at |-> command[p].at]
  <1>1. attemptLog' = attemptLog \/ \E p \in Procs : attemptLog' = Append(attemptLog, row(p))
    BY DEF Next, Alive, Run, Begin, Step, Environment, vars, BeginDispatch, AppendAttempt, Send,
           Response, BadResponse, SetStatus, BeginReconcile, Scan, BeginSync, ReadThread,
           WriteReviewRecord, Refused, Crash, Land, Lose, Reply, TaskMoves, Supersede
  <1>2. attemptLog \in Seq(Row)
    BY DEF TypeOK
  <1>3. \A i \in DOMAIN attemptLog : i \in DOMAIN attemptLog' /\ attemptLog'[i] = attemptLog[i]
    <2>1. CASE attemptLog' = attemptLog
      BY <2>1
    <2>2. ASSUME NEW r, attemptLog' = Append(attemptLog, r)
          PROVE  \A i \in DOMAIN attemptLog : i \in DOMAIN attemptLog' /\ attemptLog'[i] = attemptLog[i]
      BY <1>2, <2>2
    <2> QED
      BY <1>1, <2>1, <2>2
  <1> QED
    BY <1>3 DEF Logged, Rows

(* Write-ahead: a command that sends, or waits for the answer, has logged   *)
(* its attempt, so every message has a row, whichever commands die.         *)
SendersLogged ==
    \A p \in Procs : command[p].step \in {"send", "wait"} => command[p].attempt \in Logged

(* dispatch_assignment appends the pending row before it sends: no message *)
(* without a row in the attempt log.                                       *)
THEOREM WriteAheadCorrect == Spec => []WriteAhead
  <1> DEFINE IInv == WriteAhead /\ SendersLogged
  <1>1. Init => IInv
    BY InitIsIdle DEF Init, WriteAhead, SendersLogged
  <1>2. TypeOK /\ IInv /\ [Next]_vars => IInv'
    <2> SUFFICES ASSUME TypeOK, IInv, [Next]_vars
                 PROVE  IInv'
      OBVIOUS
    <2>g. Logged \subseteq Logged'
      BY LogGrows
    <2>1. ASSUME NEW p \in Procs, AppendAttempt(p)
          PROVE  IInv'
      <3>1. command[p].attempt \in Logged'
        <4> DEFINE r == [attempt |-> command[p].attempt, state |-> command[p].to,
                         at |-> command[p].at]
        <4>1. attemptLog' = Append(attemptLog, r) /\ attemptLog \in Seq(Row)
          BY <2>1 DEF AppendAttempt, TypeOK
        <4>2. r.attempt = command[p].attempt
          OBVIOUS
        <4> HIDE DEF r
        <4>3. /\ Len(attemptLog) + 1 \in DOMAIN attemptLog'
              /\ attemptLog'[Len(attemptLog) + 1] = r
          BY <4>1
        <4>4. command[p].attempt \in Attempts
          BY <2>1 DEF AppendAttempt, TypeOK
        <4> QED
          BY <4>2, <4>3, <4>4 DEF Logged, Rows
      <3>2. /\ command'[p].attempt = command[p].attempt \/ command'[p].step = "idle"
            /\ OthersKeep(p)
        BY <2>1, OwnStep
      <3> QED
        BY <2>1, <2>g, <3>1, <3>2 DEF AppendAttempt, WriteAhead, SendersLogged, OthersKeep
    <2>2. ASSUME NEW p \in Procs, Send(p)
          PROVE  IInv'
      BY <2>2, <2>g DEF Send, Become, TypeOK, WriteAhead, SendersLogged, OthersKeep
    <2>3. ASSUME NEW p \in Procs,
                 \/ \E a \in Attempts : BeginDispatch(p, a)
                 \/ BeginReconcile(p) \/ BeginSync(p) \/ Response(p) \/ BadResponse(p)
                 \/ SetStatus(p) \/ Scan(p) \/ ReadThread(p) \/ WriteReviewRecord(p)
                 \/ Refused(p) \/ Crash(p)
          PROVE  IInv'
      <3>1. inFlight' \subseteq inFlight /\ channel' = channel
        BY <2>3 DEF BeginDispatch, BeginReconcile, BeginSync, Response, BadResponse, SetStatus,
                    Scan, ReadThread, WriteReviewRecord, Refused, Crash
      <3>2. /\ command'[p].step \notin {"send", "wait"}
            /\ OthersKeep(p)
        BY <2>3, OwnStep
      <3> QED
        BY <2>g, <3>1, <3>2 DEF WriteAhead, SendersLogged, OthersKeep
    <2>4. CASE Environment \/ UNCHANGED vars
      <3>1. inFlight' \union channel' \subseteq inFlight \union channel
        BY <2>4 DEF Environment, Land, Lose, Reply, TaskMoves, Supersede, vars
      <3>2. command' = command
        BY <2>4 DEF Environment, Land, Lose, Reply, TaskMoves, Supersede, vars
      <3> QED
        BY <2>g, <3>1, <3>2 DEF WriteAhead, SendersLogged, OthersKeep
    <2> QED
      BY <2>1, <2>2, <2>3, <2>4 DEF Next, Alive, Run, Begin, Step
  <1> QED
    BY <1>1, <1>2, TypeCorrect, PTL DEF Spec

(* A row "delivered" is only written by a command that has seen the message *)
(* in the channel, where it stays.                                          *)
ClaimsAreReal ==
    \A p \in Procs : command[p].step = "append" /\ command[p].to = "delivered" =>
        command[p].attempt \in channel

(* Every row "delivered", of dispatch or of reconciliation, names a        *)
(* message in the channel.                                                 *)
THEOREM DeliveredIsRealCorrect == Spec => []DeliveredIsReal
  <1> DEFINE IInv == DeliveredIsReal /\ ClaimsAreReal
  <1>1. Init => IInv
    BY InitIsIdle DEF DeliveredIsReal, ClaimsAreReal
  <1>2. TypeOK /\ IInv /\ [Next]_vars => IInv'
    <2> SUFFICES ASSUME TypeOK, IInv, [Next]_vars
                 PROVE  IInv'
      OBVIOUS
    <2>1. ASSUME NEW p \in Procs, AppendAttempt(p)
          PROVE  IInv'
      <3> DEFINE r == [attempt |-> command[p].attempt, state |-> command[p].to,
                       at |-> command[p].at]
      <3>1. attemptLog' = Append(attemptLog, r) /\ attemptLog \in Seq(Row) /\ channel' = channel
        BY <2>1 DEF AppendAttempt, TypeOK
      <3>2. r.state = "delivered" => r.attempt \in channel
        BY <2>1 DEF AppendAttempt, ClaimsAreReal
      <3>3. DeliveredIsReal'
        <4> HIDE DEF r
        <4>1. \A i \in DOMAIN attemptLog' :
                 \/ i \in DOMAIN attemptLog /\ attemptLog'[i] = attemptLog[i]
                 \/ attemptLog'[i] = r
          BY <3>1
        <4> QED
          BY <3>1, <3>2, <4>1 DEF DeliveredIsReal
      <3>4. /\ command'[p].step # "append"
            /\ OthersKeep(p)
        BY <2>1, OwnStep
      <3> QED
        BY <3>1, <3>3, <3>4 DEF ClaimsAreReal, OthersKeep
    <2>2. ASSUME NEW p \in Procs, Response(p) \/ Scan(p)
          PROVE  IInv'
      <3>1. attemptLog' = attemptLog /\ channel' = channel
        BY <2>2 DEF Response, Scan
      <3>2. /\ command'[p].to = "delivered" => command'[p].attempt \in channel
            /\ OthersKeep(p)
        BY <2>2, OwnStep
      <3> QED
        BY <3>1, <3>2 DEF DeliveredIsReal, ClaimsAreReal, OthersKeep
    <2>3. ASSUME NEW p \in Procs,
                 \/ \E a \in Attempts : BeginDispatch(p, a)
                 \/ BeginReconcile(p) \/ BeginSync(p) \/ BadResponse(p) \/ Send(p)
                 \/ SetStatus(p) \/ ReadThread(p) \/ WriteReviewRecord(p)
                 \/ Refused(p) \/ Crash(p)
          PROVE  IInv'
      <3>1. attemptLog' = attemptLog /\ channel' = channel
        BY <2>3 DEF BeginDispatch, BeginReconcile, BeginSync, BadResponse, SetStatus, Send,
                    ReadThread, WriteReviewRecord, Refused, Crash
      <3>2. /\ command'[p].step = "append" => command'[p].to # "delivered"
            /\ OthersKeep(p)
        BY <2>3, OwnStep
      <3> QED
        BY <3>1, <3>2 DEF DeliveredIsReal, ClaimsAreReal, OthersKeep
    <2>4. CASE Environment \/ UNCHANGED vars
      <3>1. attemptLog' = attemptLog /\ command' = command /\ channel \subseteq channel'
        BY <2>4 DEF Environment, Land, Lose, Reply, TaskMoves, Supersede, vars
      <3> QED
        BY <3>1 DEF DeliveredIsReal, ClaimsAreReal, OthersKeep
    <2> QED
      BY <2>1, <2>2, <2>3, <2>4 DEF Next, Alive, Run, Begin, Step
  <1> QED
    BY <1>1, <1>2, TypeCorrect, PTL DEF Spec

-----------------------------------------------------------------------------
(* One row changes the state of one attempt, to that of the row.            *)
LEMMA AppendProjection ==
    ASSUME attemptLog \in Seq(Row), NEW r, attemptLog' = Append(attemptLog, r), NEW S,
           NEW b \in InState(S)'
    PROVE  b \in InState(S) \/ (b = r.attempt /\ r.state \in S)
  <1> DEFINE n == Len(attemptLog) + 1
  <1>1. PICK i \in LastRow(b)' : attemptLog'[i].state \in S
    BY DEF InState
  <1>2. /\ n \in DOMAIN attemptLog' /\ attemptLog'[n] = r
        /\ \A k \in DOMAIN attemptLog : k \in DOMAIN attemptLog' /\ attemptLog'[k] = attemptLog[k]
        /\ \A k \in DOMAIN attemptLog' : k \in DOMAIN attemptLog \/ k = n
        /\ \A k \in DOMAIN attemptLog : ~(n <= k)
    OBVIOUS
  <1> HIDE DEF n
  <1>3. /\ i \in DOMAIN attemptLog' /\ attemptLog'[i].attempt = b
        /\ \A j \in DOMAIN attemptLog' : attemptLog'[j].attempt = b => j <= i
    BY <1>1 DEF LastRow, Rows
  <1>4. CASE i = n
    BY <1>1, <1>2, <1>3, <1>4
  <1>5. CASE i # n
    <2>1. i \in DOMAIN attemptLog /\ attemptLog'[i] = attemptLog[i]
      BY <1>2, <1>3, <1>5
    <2>2. i \in LastRow(b)
      BY <1>2, <1>3, <2>1 DEF LastRow, Rows
    <2>3. b \in Attempts
      BY DEF InState
    <2> QED
      BY <1>1, <2>1, <2>2, <2>3 DEF InState
  <1> QED
    BY <1>4, <1>5

(* What a dispatch knows of the open attempts, as long as no other one is  *)
(* under way: none is open until it writes its pending row, and then none  *)
(* but its own.  Scans and syncs of other processes only settle attempts.  *)
Unsettled == InState({"pending", "unknown"})
OwnUnsettled ==
    \A p \in Procs :
        /\ command[p].step = "append" /\ command[p].to = "pending" => Unsettled = {}
        /\ Dispatching(p) => Unsettled \subseteq {command[p].attempt}

(* No send while an attempt is open: as long as no two dispatches overlap,  *)
(* at most one attempt is pending or unknown, with any number of processes  *)
(* that reconcile, sync and crash meanwhile.                                *)
THEOREM OneUnsettledCorrect == Spec /\ []OneDispatch => []OneUnsettled
  <1> DEFINE IInv == OneUnsettled /\ OwnUnsettled
  <1>1. Init => IInv
    <2> SUFFICES ASSUME Init PROVE IInv
      OBVIOUS
    <2>1. Unsettled = {}
      BY InitIsIdle DEF Unsettled, InState, LastRow, Rows
    <2> QED
      BY <2>1 DEF OneUnsettled, OwnUnsettled, Unsettled
  <1>2. OneDispatch /\ TypeOK /\ IInv /\ [Next]_vars => IInv'
    <2> SUFFICES ASSUME OneDispatch, TypeOK, IInv, [Next]_vars
                 PROVE  IInv'
      OBVIOUS
    <2>1. ASSUME NEW p \in Procs, OthersKeep(p), Unsettled' \subseteq Unsettled,
                 /\ command'[p].step = "append" /\ command'[p].to = "pending" => Unsettled' = {}
                 /\ Dispatching(p)' => Unsettled' \subseteq {command'[p].attempt}
          PROVE  IInv'
      <3>1. OneUnsettled'
        BY <2>1 DEF OneUnsettled, Unsettled
      <3>2. ASSUME NEW q \in Procs \ {p}
            PROVE  /\ command'[q].step = "append" /\ command'[q].to = "pending" => Unsettled' = {}
                   /\ Dispatching(q)' => Unsettled' \subseteq {command'[q].attempt}
        <4>1. command'[q] = command[q]
          BY <2>1 DEF OthersKeep
        <4>2. Dispatching(q)' = Dispatching(q)
          BY <4>1 DEF Dispatching
        <4> QED
          BY <2>1, <4>1, <4>2 DEF OwnUnsettled
      <3>3. OwnUnsettled'
        BY <2>1, <3>2 DEF OwnUnsettled
      <3> QED
        BY <3>1, <3>3
    <2>2. ASSUME attemptLog' = attemptLog PROVE Unsettled' = Unsettled
      BY <2>2 DEF Unsettled, InState, LastRow, Rows
    <2>3. ASSUME NEW p \in Procs, AppendAttempt(p)
          PROVE  IInv'
      <3> DEFINE c == command[p]
                 r == [attempt |-> c.attempt, state |-> c.to, at |-> c.at]
      <3>1. attemptLog' = Append(attemptLog, r) /\ attemptLog \in Seq(Row) /\ c.step = "append"
        BY <2>3 DEF AppendAttempt, TypeOK
      <3>2. \A b \in Unsettled' :
              b \in Unsettled \/ (b = c.attempt /\ c.to \in {"pending", "unknown"})
        BY <3>1, AppendProjection DEF Unsettled
      <3>3. /\ OthersKeep(p) /\ command'[p].step \in {"idle", "send", "status"}
            /\ command'[p].step \in {"send", "status"} => command'[p].attempt = c.attempt
            /\ command'[p].step = "send" => c.to = "pending"
        <4>1. command'[p].step = "send" => c.to = "pending"
          <5>1. Became(p) /\ Finished(p)
            BY OwnCommand
          <5>2. Finish(p) => command'[p].step = "idle"
            BY <5>1 DEF Finished
          <5>3. \A a, to : Become(p, "status", a, to, 0) => command'[p].step = "status"
            BY <5>1 DEF Became
          <5> QED
            BY <2>3, <5>2, <5>3 DEF AppendAttempt
        <4> QED
          BY <2>3, <4>1, OwnStep
      <3>4. CASE c.to \notin {"pending", "unknown"}
        <4>1. ~Dispatching(p)'
          BY <3>3, <3>4 DEF Dispatching
        <4>2. Unsettled' \subseteq Unsettled
          BY <3>2, <3>4
        <4> QED
          BY <2>1, <3>3, <4>1, <4>2 DEF Dispatching
      <3>5. CASE c.to \in {"pending", "unknown"}
        <4>1. Dispatching(p)
          BY <3>1, <3>5 DEF Dispatching
        <4>2. Unsettled' \subseteq {c.attempt}
          BY <3>2, <4>1 DEF OwnUnsettled
        <4>3. \A q \in Procs \ {p} : ~Dispatching(q)'
          BY <3>3, <4>1 DEF OneDispatch, OthersKeep, Dispatching
        <4>4. command'[p].step # "append" /\ (Dispatching(p)' => command'[p].attempt = c.attempt)
          BY <3>3 DEF Dispatching
        <4>5. OwnUnsettled'
          <5>1. ASSUME NEW q \in Procs
                PROVE  /\ ~(command'[q].step = "append" /\ command'[q].to = "pending")
                       /\ Dispatching(q)' => q = p
            BY <4>3, <4>4 DEF Dispatching
          <5> QED
            BY <4>2, <4>4, <5>1 DEF OwnUnsettled
        <4>6. OneUnsettled'
          BY <4>2 DEF OneUnsettled, Unsettled
        <4> QED
          BY <4>5, <4>6
      <3> QED
        BY <3>4, <3>5
    <2>4. ASSUME NEW p \in Procs, \E a \in Attempts : BeginDispatch(p, a)
          PROVE  IInv'
      <3>1. Unsettled = {} /\ attemptLog' = attemptLog
        BY <2>4 DEF BeginDispatch, DispatchReady, Unsettled
      <3>2. OthersKeep(p)
        BY <2>4, OwnStep
      <3> QED
        BY <2>1, <2>2, <3>1, <3>2
    <2>5. ASSUME NEW p \in Procs, Send(p) \/ Response(p)
          PROVE  IInv'
      <3>1. attemptLog' = attemptLog /\ command[p].step \in {"send", "wait"}
        BY <2>5 DEF Send, Response
      <3>2. Unsettled \subseteq {command[p].attempt}
        BY <3>1 DEF OwnUnsettled, Dispatching
      <3>3. /\ OthersKeep(p) /\ command'[p].attempt = command[p].attempt
            /\ command'[p].step = "append" => command'[p].to # "pending"
        BY <2>5, OwnStep
      <3> QED
        BY <2>1, <2>2, <3>1, <3>2, <3>3
    <2>6. ASSUME NEW p \in Procs,
                 \/ BeginReconcile(p) \/ Scan(p)
                 \/ BadResponse(p) \/ SetStatus(p) \/ BeginSync(p) \/ ReadThread(p)
                 \/ WriteReviewRecord(p) \/ Refused(p) \/ Crash(p)
          PROVE  IInv'
      <3>1. attemptLog' = attemptLog
        BY <2>6 DEF BeginReconcile, Scan, BadResponse, SetStatus, BeginSync, ReadThread,
                    WriteReviewRecord, Refused, Crash
      <3>2. /\ OthersKeep(p) /\ command'[p].step \in {"idle", "scan", "append", "read", "status", "review"}
            /\ command'[p].step = "append" => command'[p].to \in {"delivered", "reconciled_not_found"}
        BY <2>6, OwnStep
      <3> QED
        BY <2>1, <2>2, <3>1, <3>2 DEF Dispatching
    <2>7. CASE Environment \/ UNCHANGED vars
      <3>1. attemptLog' = attemptLog /\ command' = command
        BY <2>7 DEF Environment, Land, Lose, Reply, TaskMoves, Supersede, vars
      <3>2. \A q \in Procs : Dispatching(q)' = Dispatching(q)
        BY <3>1 DEF Dispatching
      <3> QED
        BY <2>2, <3>1, <3>2 DEF OwnUnsettled, OneUnsettled, Unsettled
    <2> QED
      BY <2>3, <2>4, <2>5, <2>6, <2>7 DEF Next, Alive, Run, Begin, Step
  <1> QED
    BY <1>1, <1>2, TypeCorrect, PTL DEF Spec
-----------------------------------------------------------------------------
(* Provenance.  What stands in the log and in the threads stays there, so  *)
(* a command that was entitled to write a status still is when it does.    *)
HasDelivered == \E i \in DOMAIN attemptLog : attemptLog[i].state = "delivered"
HasAnswer ==
    \E i \in DOMAIN attemptLog : /\ attemptLog[i].state = "delivered"
                                 /\ Len(replies[attemptLog[i].attempt]) > attemptLog[i].at
Entitled(p) ==
    /\ command[p].step \in {"status", "review"} =>
          /\ command[p].to \notin {"superseded", "cancelled"}
          /\ command[p].to = "dispatched" => HasDelivered
          /\ command[p].to \in {"acknowledged", "completed"} => HasAnswer
    /\ command[p].step = "status" /\ command[p].to = "completed" /\ phase = "review" => review
    /\ command[p].step = "read" =>
          \E i \in DOMAIN attemptLog : /\ attemptLog[i].state = "delivered"
                                       /\ attemptLog[i].attempt = command[p].attempt
                                       /\ attemptLog[i].at = command[p].at

(* Rows, answers and the Review Record are never taken back.               *)
LEMMA EvidenceGrows ==
    ASSUME TypeOK, [Next]_vars
    PROVE  /\ HasDelivered => HasDelivered'
           /\ HasAnswer => HasAnswer'
           /\ phase' = phase
           /\ review => review'
           /\ \A p \in Procs : Entitled(p) /\ command'[p] = command[p] => Entitled(p)'
  <1>1. \A i \in DOMAIN attemptLog : i \in DOMAIN attemptLog' /\ attemptLog'[i] = attemptLog[i]
    BY LogGrows
  <1>2. \A a \in Attempts : Len(replies[a]) \in Nat /\ Len(replies'[a]) \in Nat
                            /\ Len(replies[a]) <= Len(replies'[a])
    <2>1. \A a \in Attempts : replies[a] \in Seq(Answers)
      BY DEF TypeOK
    <2>2. CASE replies' = replies
      BY <2>1, <2>2
    <2>3. ASSUME NEW b \in Attempts, NEW x \in Answers, Reply(b, x)
          PROVE  \A a \in Attempts : Len(replies[a]) \in Nat /\ Len(replies'[a]) \in Nat
                                     /\ Len(replies[a]) <= Len(replies'[a])
      <3>1. replies \in [Attempts -> Seq(Answers)]
        BY DEF TypeOK
      <3>2. \A a \in Attempts : replies'[a] = IF a = b THEN Append(replies[b], x) ELSE replies[a]
        BY <2>3, <3>1 DEF Reply
      <3>3. \A s \in Seq(Answers) : Len(s) \in Nat /\ Len(Append(s, x)) = Len(s) + 1
        OBVIOUS
      <3> SUFFICES ASSUME NEW a \in Attempts
                   PROVE  /\ Len(replies[a]) \in Nat /\ Len(replies'[a]) \in Nat
                          /\ Len(replies[a]) <= Len(replies'[a])
        OBVIOUS
      <3>4. replies[a] \in Seq(Answers) /\ Len(replies[a]) \in Nat
        BY <2>1, <3>3
      <3>5. CASE a = b
        <4> DEFINE s == replies[a]
        <4>1. replies'[a] = Append(s, x) /\ s \in Seq(Answers)
          BY <3>2, <3>4, <3>5
        <4> HIDE DEF s
        <4>2. Len(replies'[a]) = Len(s) + 1 /\ Len(s) \in Nat
          BY <3>3, <4>1
        <4> QED
          BY <4>2 DEF s
      <3>6. CASE a # b
        BY <3>2, <3>4, <3>6
      <3> QED
        BY <3>5, <3>6
    <2>4. replies' = replies \/ \E b \in Attempts, x \in Answers : Reply(b, x)
      BY DEF Next, Alive, Run, Begin, Step, Environment, vars, BeginDispatch, AppendAttempt, Send,
             Response, BadResponse, SetStatus, BeginReconcile, Scan, BeginSync, ReadThread,
             WriteReviewRecord, Refused, Crash, Land, Lose, TaskMoves, Supersede
    <2> QED
      BY <2>2, <2>3, <2>4
  <1>3. \A i \in DOMAIN attemptLog : attemptLog[i].attempt \in Attempts /\ attemptLog[i].at \in Nat
    <2>1. \A i \in DOMAIN attemptLog : attemptLog[i] \in Row
      BY DEF TypeOK
    <2> QED
      BY <2>1, DispatchAssumption DEF Row
  <1>4. HasDelivered => HasDelivered'
    BY <1>1 DEF HasDelivered
  <1>5. ASSUME HasAnswer
        PROVE  HasAnswer'
    <2>1. PICK i \in DOMAIN attemptLog :
             /\ attemptLog[i].state = "delivered"
             /\ Len(replies[attemptLog[i].attempt]) > attemptLog[i].at
      BY <1>5 DEF HasAnswer
    <2>2. /\ i \in DOMAIN attemptLog' /\ attemptLog'[i] = attemptLog[i]
          /\ attemptLog[i].attempt \in Attempts /\ attemptLog[i].at \in Nat
      BY <1>1, <1>3
    <2>3. Len(replies'[attemptLog[i].attempt]) > attemptLog[i].at
      BY <1>2, <2>1, <2>2
    <2> QED
      BY <2>1, <2>2, <2>3 DEF HasAnswer
  <1>6. phase' = phase /\ (review' = review \/ review' = TRUE)
    BY DEF Next, Alive, Run, Begin, Step, Environment, vars, BeginDispatch, AppendAttempt, Send,
           Response, BadResponse, SetStatus, BeginReconcile, Scan, BeginSync, ReadThread,
           WriteReviewRecord, Refused, Crash, Land, Lose, Reply, TaskMoves, Supersede
  <1>7. ASSUME NEW p \in Procs, Entitled(p), command'[p] = command[p]
        PROVE  Entitled(p)'
    <2>1. ASSUME command[p].step = "read"
          PROVE  \E i \in DOMAIN attemptLog' : /\ attemptLog'[i].state = "delivered"
                                               /\ attemptLog'[i].attempt = command[p].attempt
                                               /\ attemptLog'[i].at = command[p].at
      BY <1>1, <1>7, <2>1 DEF Entitled
    <2> QED
      BY <1>4, <1>5, <1>6, <1>7, <2>1 DEF Entitled
  <1> QED
    BY <1>4, <1>5, <1>6, <1>7

(* Provenance: no assignment is past "prepared" without a delivered         *)
(* attempt, acknowledged or completed without an answer that came after the *)
(* attempt was resolved, or a completed review without its Review Record,   *)
(* however many processes act on old copies and die.                        *)
THEOREM ResultHasProvenanceCorrect == Spec => []ResultHasProvenance
  <1> DEFINE Granted ==
               /\ status \in {"dispatched", "acknowledged", "completed", "superseded"} => HasDelivered
               /\ status \in {"acknowledged", "completed", "superseded"} => HasAnswer
               /\ phase = "review" /\ status \in {"completed", "superseded"} => review
             IInv == Granted /\ \A p \in Procs : Entitled(p)
  <1>1. Init => IInv
    BY InitIsIdle DEF Init, Entitled
  <1>2. TypeOK /\ IInv /\ [Next]_vars => IInv'
    <2> SUFFICES ASSUME TypeOK, IInv, [Next]_vars
                 PROVE  IInv'
      OBVIOUS
    <2>g. /\ HasDelivered => HasDelivered'
          /\ HasAnswer => HasAnswer'
          /\ phase' = phase
          /\ review => review'
          /\ \A p \in Procs : command'[p] = command[p] => Entitled(p)'
      BY EvidenceGrows
    <2>k. status' = status => Granted'
      BY <2>g
    <2>o. ASSUME NEW p \in Procs, OthersKeep(p), Entitled(p)'
          PROVE  \A q \in Procs : Entitled(q)'
      BY <2>g, <2>o DEF OthersKeep
    <2>1. ASSUME NEW p \in Procs, AppendAttempt(p)
          PROVE  IInv'
      <3> DEFINE c == command[p]
                 r == [attempt |-> c.attempt, state |-> c.to, at |-> c.at]
      <3>1. /\ attemptLog' = Append(attemptLog, r) /\ attemptLog \in Seq(Row)
            /\ status' = status /\ c.to \in Outcomes
        BY <2>1 DEF AppendAttempt, TypeOK
      <3>2. c.to = "delivered" => HasDelivered'
        <4>1. r.state = c.to
          OBVIOUS
        <4> HIDE DEF r, c
        <4>2. Len(attemptLog) + 1 \in DOMAIN attemptLog' /\ attemptLog'[Len(attemptLog) + 1] = r
          BY <3>1
        <4> QED
          BY <4>1, <4>2 DEF HasDelivered
      <3>3. Became(p) /\ Finished(p)
        BY OwnCommand
      <3>4. /\ OthersKeep(p) /\ command'[p].step \in {"idle", "send", "status"}
            /\ command'[p].step = "status" =>
                  /\ c.to \in {"delivered", "unknown", "reconciled_not_found"}
                  /\ command'[p].to = StatusAfter(c.to)
        <4>1. CASE c.to = "pending" /\ Become(p, "send", c.attempt, "", 0)
          BY <3>3, <4>1 DEF Became
        <4>2. CASE Finish(p)
          BY <3>3, <4>2 DEF Finished
        <4>3. CASE /\ c.to \in {"delivered", "unknown", "reconciled_not_found"}
                   /\ Become(p, "status", c.attempt, StatusAfter(c.to), 0)
          BY <3>3, <4>3 DEF Became
        <4> QED
          BY <2>1, <4>1, <4>2, <4>3 DEF AppendAttempt
      <3>5. command'[p].step = "status" =>
               /\ command'[p].to \in {"dispatched", "needs_reconciliation", "prepared"}
               /\ command'[p].to = "dispatched" => c.to = "delivered"
        BY <3>4 DEF StatusAfter
      <3>6. Entitled(p)'
        BY <3>2, <3>4, <3>5 DEF Entitled
      <3> QED
        BY <2>k, <2>o, <3>1, <3>4, <3>6
    <2>2. ASSUME NEW p \in Procs, SetStatus(p)
          PROVE  IInv'
      <3>1. /\ command[p].step = "status" /\ status' = command[p].to
            /\ OthersKeep(p) /\ command'[p].step = "idle"
        BY <2>2, OwnStep DEF SetStatus
      <3>2. Entitled(p)' /\ Entitled(p)
        BY <3>1 DEF Entitled
      <3>3. HasAnswer => HasDelivered
        BY DEF HasAnswer, HasDelivered
      <3>4. status' \notin {"superseded", "cancelled"}
        BY <3>1, <3>2 DEF Entitled
      <3>5. /\ status' = "dispatched" => HasDelivered
            /\ status' \in {"acknowledged", "completed"} => HasAnswer
        BY <3>1, <3>2 DEF Entitled
      <3>6. status' = "completed" /\ phase = "review" => review
        BY <3>1, <3>2 DEF Entitled
      <3>7. Granted'
        BY <2>g, <3>3, <3>4, <3>5, <3>6
      <3> QED
        BY <2>o, <3>1, <3>2, <3>7
    <2>3. ASSUME NEW p \in Procs, BeginSync(p)
          PROVE  IInv'
      <3>1. status' = status /\ attemptLog' = attemptLog /\ Became(p)
        BY <2>3, OwnCommand DEF BeginSync
      <3>2. PICK a \in Attempts : \E i \in LastRow(a) :
               /\ Newest(a, InState({"delivered"}))
               /\ Become(p, "read", a, "", attemptLog[i].at)
        BY <2>3 DEF BeginSync
      <3>3. PICK i \in LastRow(a) : /\ Newest(a, InState({"delivered"}))
                                    /\ Become(p, "read", a, "", attemptLog[i].at)
        BY <3>2
      <3>4. PICK j \in LastRow(a) : attemptLog[j].state = "delivered"
        BY <3>3 DEF Newest, InState
      <3>5. i = j /\ i \in DOMAIN attemptLog /\ attemptLog[i].attempt = a
        <4>1. i \in Rows(a) /\ j \in Rows(a) /\ i <= j /\ j <= i
          BY DEF LastRow
        <4>2. i \in Nat /\ j \in Nat
          BY <4>1 DEF Rows, TypeOK
        <4> QED
          BY <4>1, <4>2 DEF Rows
      <3>6. /\ command'[p].step = "read" /\ command'[p].attempt = a
            /\ command'[p].at = attemptLog[i].at /\ OthersKeep(p)
        BY <3>1, <3>3 DEF Became
      <3>7. Entitled(p)'
        BY <3>1, <3>4, <3>5, <3>6 DEF Entitled
      <3> QED
        BY <2>k, <2>o, <3>1, <3>6, <3>7
    <2>4. ASSUME NEW p \in Procs, ReadThread(p)
          PROVE  IInv'
      <3> DEFINE a == command[p].attempt
                 answer == replies[a][Len(replies[a])]
                 to == IF answer = "verdict" THEN "completed" ELSE answer
      <3>1. /\ command[p].step = "read" /\ Len(replies[a]) > command[p].at
            /\ Become(p, StepFor, a, to, 0) /\ status' = status /\ Became(p)
            /\ UNCHANGED <<attemptLog, replies>>
        BY <2>4, OwnCommand DEF ReadThread, Answered
      <3>2. a \in Attempts /\ replies[a] \in Seq(Answers) /\ command[p].at \in Nat
        <4>1. command[p] \in Commands
          BY DEF TypeOK
        <4>2. command[p].at \in Nat
          <5>1. command[p].at \in 0..MaxReplies
            BY <4>1 DEF Commands
          <5> QED
            BY <5>1, DispatchAssumption
        <4>3. a \in Attempts
          BY <3>1 DEF TypeOK
        <4> HIDE DEF a
        <4>4. replies[a] \in Seq(Answers)
          BY <4>3 DEF TypeOK
        <4> QED
          BY <4>2, <4>3, <4>4
      <3>3. answer \in Answers
        <4> HIDE DEF a
        <4> QED
          BY <3>1, <3>2
      <3>4. HasAnswer'
        BY <3>1 DEF HasAnswer, Entitled
      <3> HIDE DEF a, answer
      <3>5. to \in {"acknowledged", "completed"}
        BY <3>3 DEF Answers
      <3> HIDE DEF to
      <3>6. /\ command'[p].step = StepFor /\ command'[p].to = to /\ OthersKeep(p)
        BY <3>1 DEF Became
      <3>7. Entitled(p)'
        BY <2>g, <3>4, <3>5, <3>6 DEF Entitled, StepFor
      <3> QED
        BY <2>k, <2>o, <3>1, <3>6, <3>7
    <2>5. ASSUME NEW p \in Procs, WriteReviewRecord(p)
          PROVE  IInv'
      <3>1. /\ command[p].step = "review" /\ review' = TRUE /\ status' = status
            /\ command'[p].step = "status" /\ command'[p].to = command[p].to /\ OthersKeep(p)
        BY <2>5, OwnStep DEF WriteReviewRecord
      <3>2. Entitled(p)'
        BY <2>g, <3>1 DEF Entitled
      <3> QED
        BY <2>k, <2>o, <3>1, <3>2
    <2>6. ASSUME NEW p \in Procs,
                 \/ \E a \in Attempts : BeginDispatch(p, a)
                 \/ BeginReconcile(p) \/ Send(p) \/ Response(p) \/ BadResponse(p) \/ Scan(p)
                 \/ Refused(p) \/ Crash(p)
          PROVE  IInv'
      <3>1. status' = status
        BY <2>6 DEF BeginDispatch, BeginReconcile, Send, Response, BadResponse, Scan, Refused, Crash
      <3>2. OthersKeep(p) /\ command'[p].step \in {"append", "scan", "wait", "idle"}
        BY <2>6, OwnStep
      <3>3. Entitled(p)'
        BY <3>2 DEF Entitled
      <3> QED
        BY <2>k, <2>o, <3>1, <3>2, <3>3
    <2>7. CASE Environment \/ UNCHANGED vars
      <3>1. command' = command
        BY <2>7 DEF Environment, Land, Lose, Reply, TaskMoves, Supersede, vars
      <3>2. status' = status \/ (status = "completed" /\ status' = "superseded")
        BY <2>7 DEF Environment, Land, Lose, Reply, TaskMoves, Supersede, vars
      <3> QED
        BY <2>g, <2>k, <3>1, <3>2
    <2> QED
      BY <2>1, <2>2, <2>3, <2>4, <2>5, <2>6, <2>7 DEF Next, Alive, Run, Begin, Step
  <1>3. IInv => ResultHasProvenance
    BY DEF ResultHasProvenance, HasDelivered, HasAnswer
  <1> QED
    BY <1>1, <1>2, <1>3, TypeCorrect, PTL DEF Spec
=============================================================================
