---------------------------- MODULE Postbox_proof ----------------------------
(* Dispatch implements Postbox, for every value of the constants.          *)
EXTENDS Dispatch_proof

(* A process between BeginDispatch and the post of its message.            *)
Fresh(p) == command[p].step = "append" /\ command[p].to = "pending"
Preparing(p) == Fresh(p) \/ command[p].step = "send"

(* The strengthening.  A message is only posted by a process that logged   *)
(* its attempt and has not posted it; nobody else prepares that attempt.   *)
Known ==
    \A p \in Procs :
        \/ command[p].step \in {"send", "wait", "scan"}
        \/ command[p].step = "append" /\ ~Fresh(p)
        => command[p].attempt \in Logged
Unsent ==
    \A p \in Procs :
        /\ Fresh(p) => command[p].attempt \notin Logged
        /\ command[p].step = "send" => command[p].attempt \notin inFlight \union channel
Sole ==
    \A p, q \in Procs :
        Preparing(p) /\ Preparing(q) /\ command[p].attempt = command[q].attempt => p = q
Apart == inFlight \intersect channel = {}

Mailing == ClaimsAreReal /\ Known /\ Unsent /\ Sole /\ Apart

(* What a new row does to the two sets that the mapping reads off the log. *)
LEMMA RowAdded ==
    ASSUME NEW r, attemptLog \in Seq(Row), r.attempt \in Attempts,
           attemptLog' = Append(attemptLog, r)
    PROVE  /\ Logged' = Logged \union {r.attempt}
           /\ Confirmed' = IF r.state = "delivered" THEN Confirmed \union {r.attempt}
                           ELSE Confirmed
  <1> DEFINE n == Len(attemptLog) + 1
  <1>1. /\ DOMAIN attemptLog' = DOMAIN attemptLog \union {n}
        /\ n \notin DOMAIN attemptLog
        /\ attemptLog'[n] = r
        /\ \A i \in DOMAIN attemptLog : attemptLog'[i] = attemptLog[i]
    OBVIOUS
  <1> HIDE DEF n
  <1>2. \A a \in Attempts : Rows(a)' = IF a = r.attempt THEN Rows(a) \union {n} ELSE Rows(a)
    BY <1>1 DEF Rows
  <1>3. Logged' = Logged \union {r.attempt}
    BY <1>2 DEF Logged
  <1>4. ASSUME NEW a \in Attempts
        PROVE  a \in Confirmed' <=> a \in Confirmed \/ (a = r.attempt /\ r.state = "delivered")
    <2>1. \A i \in Rows(a) : i \in DOMAIN attemptLog
      BY DEF Rows
    <2>2. a \in Confirmed' <=> \E i \in Rows(a)' : attemptLog'[i].state = "delivered"
      BY DEF Confirmed
    <2>3. a \in Confirmed <=> \E i \in Rows(a) : attemptLog[i].state = "delivered"
      BY DEF Confirmed
    <2> QED
      BY <1>1, <1>2, <2>1, <2>2, <2>3
  <1>5. Confirmed \subseteq Attempts /\ Confirmed' \subseteq Attempts
    BY DEF Confirmed
  <1> QED
    BY <1>3, <1>4, <1>5

(* Steps of a command that prepares nothing new, posts nothing and logs    *)
(* nothing.                                                                *)
Quiet(p) ==
    \/ BeginReconcile(p) \/ BeginSync(p) \/ BadResponse(p) \/ SetStatus(p) \/ Scan(p)
    \/ ReadThread(p) \/ WriteReviewRecord(p) \/ Refused(p)

(* They leave the log and Discord alone, and their process is not sending. *)
LEMMA QuietSteps ==
    ASSUME TypeOK, NEW p \in Procs, Quiet(p)
    PROVE  /\ UNCHANGED <<attemptLog, inFlight, channel>>
           /\ OthersKeep(p)
           /\ command[p].step # "send" /\ ~Preparing(p)'
  <1>1. UNCHANGED <<attemptLog, inFlight, channel>>
    BY DEF Quiet, BeginReconcile, BeginSync, BadResponse, SetStatus, Scan, ReadThread,
           WriteReviewRecord, Refused
  <1>2. /\ OthersKeep(p)
        /\ \/ command'[p].step \in {"idle", "scan", "read", "status", "review"}
           \/ command'[p].step = "append" /\ command'[p].to \in {"delivered", "reconciled_not_found"}
    BY OwnStep DEF Quiet
  <1>3. Idle.step = "idle"
    BY DEF Idle
  <1>4. command[p].step # "send"
    BY <1>3 DEF Quiet, BeginReconcile, BeginSync, BadResponse, SetStatus, Scan, ReadThread,
                WriteReviewRecord, Refused
  <1> QED
    BY <1>1, <1>2, <1>4 DEF Preparing, Fresh

(* Everything that can happen, grouped as the two proofs below need it.    *)
LEMMA NextCases ==
    ASSUME [Next]_vars
    PROVE  \/ \E p \in Procs : \/ \E a \in Attempts : BeginDispatch(p, a)
                               \/ AppendAttempt(p) \/ Send(p) \/ Response(p)
                               \/ Quiet(p) \/ Crash(p)
           \/ \E a \in Attempts : Land(a) \/ Lose(a)
           \/ UNCHANGED <<attemptLog, inFlight, channel, command>>
  <1>1. ASSUME NEW p \in Procs, Run(p)
        PROVE  \/ \E a \in Attempts : BeginDispatch(p, a)
               \/ AppendAttempt(p) \/ Send(p) \/ Response(p) \/ Quiet(p)
    BY <1>1 DEF Run, Begin, Step, Quiet
  <1>2. ASSUME Environment
        PROVE  \/ \E a \in Attempts : Land(a) \/ Lose(a)
               \/ UNCHANGED <<attemptLog, inFlight, channel, command>>
    BY <1>2 DEF Environment, Reply, TaskMoves, Supersede
  <1>3. UNCHANGED vars => UNCHANGED <<attemptLog, inFlight, channel, command>>
    BY DEF vars
  <1> QED
    BY <1>1, <1>2, <1>3 DEF Next, Alive
(* Mailing is an invariant: fresh attempts are drawn unlogged and by one   *)
(* process, and whoever dies or is answered stops preparing.               *)
LEMMA MailingCorrect == Spec => []Mailing
  <1>1. Init => Mailing
    BY InitIsIdle DEF Init, Mailing, ClaimsAreReal, Known, Unsent, Sole, Apart, Preparing, Fresh
  <1>2. TypeOK /\ WriteAhead /\ Mailing /\ [Next]_vars => Mailing'
    <2> SUFFICES ASSUME TypeOK, WriteAhead, Mailing, [Next]_vars
                 PROVE  Mailing'
      OBVIOUS
    <2> USE DEF Preparing, Fresh
    <2>g. Logged \subseteq Logged'
      BY LogGrows
    <2>l. attemptLog' = attemptLog => Logged' = Logged
      BY DEF Logged, Rows
    <2>1. ASSUME NEW p \in Procs, NEW a \in Attempts, BeginDispatch(p, a)
          PROVE  Mailing'
      <3>1. /\ UNCHANGED <<attemptLog, inFlight, channel>>
            /\ a \notin Logged /\ \A q \in Procs : command[q].attempt # a
        BY <2>1 DEF BeginDispatch
      <3>2. /\ command'[p].step = "append" /\ command'[p].to = "pending"
            /\ command'[p].attempt = a /\ OthersKeep(p)
        BY <2>1, OwnCommand DEF BeginDispatch, Became
      <3> QED
        BY <2>l, <3>1, <3>2
           DEF Mailing, ClaimsAreReal, Known, Unsent, Sole, Apart, OthersKeep
    <2>2. ASSUME NEW p \in Procs, AppendAttempt(p)
          PROVE  Mailing'
      <3> DEFINE a == command[p].attempt
                 r == [attempt |-> a, state |-> command[p].to, at |-> command[p].at]
      <3>1. /\ command[p].step = "append" /\ a \in Attempts /\ attemptLog \in Seq(Row)
            /\ attemptLog' = Append(attemptLog, r) /\ UNCHANGED <<inFlight, channel>>
        BY <2>2 DEF AppendAttempt, TypeOK
      <3>2. Logged' = Logged \union {a}
        <4>1. r.attempt = a
          OBVIOUS
        <4> HIDE DEF r
        <4> QED
          BY <3>1, <4>1, RowAdded
      <3>3. /\ OthersKeep(p) /\ command'[p].step \in {"idle", "send", "status"}
            /\ command'[p].step \in {"send", "status"} => command'[p].attempt = a
        BY <2>2, OwnStep
      <3>4. command'[p].step = "send" => Fresh(p)
        <4>1. Became(p) /\ Finished(p)
          BY OwnCommand
        <4>2. Finish(p) => command'[p].step = "idle"
          BY <4>1 DEF Finished
        <4>3. ASSUME NEW to PROVE Become(p, "status", a, to, 0) => command'[p].step = "status"
          BY <4>1 DEF Became
        <4>4. /\ command[p].step = "append"
              /\ command[p].to = "pending" \/ Finish(p) \/ \E to : Become(p, "status", a, to, 0)
          BY <2>2 DEF AppendAttempt
        <4> QED
          BY <4>2, <4>3, <4>4
      <3>5. Fresh(p) => a \notin inFlight \union channel
        BY DEF Mailing, Unsent, WriteAhead
      <3>6. \A q \in Procs \ {p} : Fresh(q) => command[q].attempt \notin Logged'
        <4> SUFFICES ASSUME NEW q \in Procs \ {p}, Fresh(q), command[q].attempt = a
                     PROVE  FALSE
          BY <3>2 DEF Mailing, Unsent
        <4>1. CASE Fresh(p)
          BY <4>1 DEF Mailing, Sole
        <4>2. CASE ~Fresh(p)
          BY <3>1, <4>2 DEF Mailing, Known, Unsent
        <4> QED
          BY <4>1, <4>2
      <3> HIDE DEF a
      <3>7. ClaimsAreReal' /\ Apart'
        BY <3>1, <3>3 DEF Mailing, ClaimsAreReal, Apart, OthersKeep
      <3>8. Known'
        BY <2>g, <3>2, <3>3 DEF Mailing, Known, OthersKeep
      <3>9. Unsent'
        BY <3>1, <3>3, <3>4, <3>5, <3>6 DEF Mailing, Unsent, OthersKeep
      <3>10. Sole'
        BY <3>3, <3>4 DEF Mailing, Sole, OthersKeep, a
      <3> QED
        BY <3>7, <3>8, <3>9, <3>10 DEF Mailing
    <2>3. ASSUME NEW p \in Procs, Send(p)
          PROVE  Mailing'
      <3>1. /\ command[p].step = "send" /\ UNCHANGED <<attemptLog, channel>>
            /\ inFlight' = inFlight \union {command[p].attempt}
        BY <2>3 DEF Send
      <3>2. /\ OthersKeep(p)
            /\ command'[p].step = "wait" /\ command'[p].attempt = command[p].attempt
        BY <2>3, OwnStep
      <3> QED
        BY <2>l, <3>1, <3>2 DEF Mailing, ClaimsAreReal, Known, Unsent, Sole, Apart, OthersKeep
    <2>4. ASSUME NEW p \in Procs, Response(p)
          PROVE  Mailing'
      <3>1. /\ command[p].step = "wait" /\ UNCHANGED <<attemptLog, channel>>
            /\ inFlight' \subseteq inFlight
        BY <2>4 DEF Response
      <3>2. /\ OthersKeep(p)
            /\ command'[p].step = "append" /\ command'[p].attempt = command[p].attempt
            /\ command'[p].to \in {"delivered", "definitive_failure", "unknown"}
            /\ command'[p].to = "delivered" => command[p].attempt \in channel
        BY <2>4, OwnStep
      <3> QED
        BY <2>l, <3>1, <3>2 DEF Mailing, ClaimsAreReal, Known, Unsent, Sole, Apart, OthersKeep
    <2>5. ASSUME NEW p \in Procs, Quiet(p) \/ Crash(p)
          PROVE  Mailing'
      <3>1. UNCHANGED <<attemptLog, inFlight, channel>> /\ OthersKeep(p) /\ ~Preparing(p)'
        BY <2>5, QuietSteps, OwnStep DEF Crash
      <3>2. command'[p].step \in {"wait", "scan", "append"} =>
               \/ command'[p].step = "append" /\ Scan(p)
               \/ command'[p].step = "scan" /\ BeginReconcile(p)
        BY <2>5, OwnStep DEF Quiet
      <3>3. ASSUME Scan(p)
            PROVE  /\ command[p].step = "scan" /\ command'[p].attempt = command[p].attempt
                   /\ command'[p].to = "delivered" => command[p].attempt \in channel
        BY <3>3, OwnStep DEF Scan
      <3>4. BeginReconcile(p) => command'[p].attempt \in Logged
        BY OwnStep DEF Newest, InState, LastRow, Logged
      <3>5. ClaimsAreReal'
        BY <3>1, <3>2, <3>3 DEF Mailing, ClaimsAreReal, OthersKeep
      <3>6. Known'
        BY <2>l, <3>1, <3>2, <3>3, <3>4 DEF Mailing, Known, OthersKeep
      <3>7. Unsent' /\ Sole' /\ Apart'
        BY <2>l, <3>1 DEF Mailing, Unsent, Sole, Apart, OthersKeep
      <3> QED
        BY <3>5, <3>6, <3>7 DEF Mailing
    <2>6. ASSUME NEW a \in Attempts, Land(a) \/ Lose(a)
          PROVE  Mailing'
      BY <2>6, <2>l DEF Land, Lose, Mailing, ClaimsAreReal, Known, Unsent, Sole, Apart
    <2>7. CASE UNCHANGED <<attemptLog, inFlight, channel, command>>
      BY <2>7, <2>l DEF Mailing, ClaimsAreReal, Known, Unsent, Sole, Apart
    <2> QED
      BY <2>1, <2>2, <2>3, <2>4, <2>5, <2>6, <2>7, NextCases
  <1> QED
    BY <1>1, <1>2, TypeCorrect, WriteAheadCorrect, PTL DEF Spec
-----------------------------------------------------------------------------

(* Fate is a function of the marks.                                        *)
LEMMA FateKept ==
    ASSUME NEW a, a \in Logged' <=> a \in Logged,
           a \in channel' <=> a \in channel,
           a \in inFlight' <=> a \in inFlight,
           a \in Sending' <=> a \in Sending
    PROVE  Fate(a)' = Fate(a)
  BY DEF Fate

(* A change of one message's fate is a Move of Postbox.                    *)
LEMMA OneMoves ==
    ASSUME NEW a \in Attempts, NEW from, NEW to,
           Fate(a) \in from, Fate(a)' = to,
           \A b \in Attempts \ {a} : Fate(b)' = Fate(b),
           Confirmed' = Confirmed
    PROVE  Box!Move(a, from, to)
  <1>1. Fates[a] \in from
    BY DEF Fates
  <1>2. Fates' = [Fates EXCEPT ![a] = to]
    BY DEF Fates
  <1> QED
    BY <1>1, <1>2 DEF Box!Move

(* The processes that have still to send, when one process steps.          *)
LEMMA SendersKept ==
    ASSUME NEW p \in Procs, OthersKeep(p)
    PROVE  /\ command[p].step # "send" /\ command'[p].step # "send" => Sending' = Sending
           /\ \A b \in Attempts :
                 b # command[p].attempt /\ b # command'[p].attempt
                    => (b \in Sending' <=> b \in Sending)
  <1>1. \A b : b \in Sending <=> \E q \in Procs : command[q].step = "send" /\ command[q].attempt = b
    BY DEF Sending
  <1>2. \A b : b \in Sending' <=> \E q \in Procs : command'[q].step = "send" /\ command'[q].attempt = b
    BY DEF Sending
  <1>3. \A q \in Procs : q # p => command'[q] = command[q]
    BY DEF OthersKeep
  <1>4. ASSUME command[p].step # "send", command'[p].step # "send"
        PROVE  Sending' = Sending
    <2>1. \A q \in Procs : command'[q].step = "send" => command'[q] = command[q]
      BY <1>3, <1>4
    <2>2. \A q \in Procs : command[q].step = "send" => command'[q] = command[q]
      BY <1>3, <1>4
    <2>3. \A b : b \in Sending' <=> b \in Sending
      BY <1>1, <1>2, <2>1, <2>2
    <2>4. Sending' \subseteq Sending /\ Sending \subseteq Sending'
      BY <2>3
    <2> HIDE <2>3
    <2> QED
      BY <2>4
  <1>5. ASSUME NEW b \in Attempts, b # command[p].attempt, b # command'[p].attempt
        PROVE  b \in Sending' <=> b \in Sending
    BY <1>1, <1>2, <1>3, <1>5
  <1> QED
    BY <1>4, <1>5

(* Nothing of what the mapping looks at moves.                             *)
LEMMA NothingMoves ==
    ASSUME UNCHANGED <<attemptLog, inFlight, channel>>, Sending' = Sending
    PROVE  UNCHANGED <<Fates, Confirmed>>
  <1>1. Logged' = Logged /\ Confirmed' = Confirmed
    BY DEF Logged, Confirmed, Rows
  <1>2. \A a \in Attempts : Fate(a)' = Fate(a)
    BY <1>1, FateKept
  <1> QED
    BY <1>1, <1>2 DEF Fates

(* Dispatch implements Postbox: however many processes dispatch, reconcile *)
(* and die, a message is announced in the log, posted at most once, and    *)
(* confirmed only after it arrived, for good.                              *)
THEOREM PostboxImplemented == Spec => ImplementsPostbox
  <1>1. Init => Box!Init
    <2> SUFFICES ASSUME Init PROVE Box!Init
      OBVIOUS
    <2>1. Logged = {} /\ Confirmed = {}
      BY InitIsIdle DEF Logged, Confirmed, Rows
    <2>2. Fates = [a \in Attempts |-> "unused"]
      BY <2>1 DEF Fates, Fate
    <2> QED
      BY <2>1, <2>2 DEF Box!Init
  <1>2. TypeOK /\ WriteAhead /\ Mailing /\ [Next]_vars
           => [Box!Next]_<<Fates, Confirmed>>
    <2> SUFFICES ASSUME TypeOK, WriteAhead, Mailing, [Next]_vars
                 PROVE  Box!Next \/ UNCHANGED <<Fates, Confirmed>>
      OBVIOUS
    <2> USE DEF Preparing, Fresh
    <2>l. attemptLog' = attemptLog => Logged' = Logged /\ Confirmed' = Confirmed
      BY DEF Logged, Confirmed, Rows
    <2>1. ASSUME NEW p \in Procs, NEW a \in Attempts, BeginDispatch(p, a)
          PROVE  UNCHANGED <<Fates, Confirmed>>
      <3>1. UNCHANGED <<attemptLog, inFlight, channel>> /\ command[p].step # "send"
        <4>1. Idle.step # "send"
          BY DEF Idle
        <4> QED
          BY <2>1, <4>1 DEF BeginDispatch
      <3>2. command'[p].step # "send" /\ OthersKeep(p)
        BY <2>1, OwnStep
      <3> QED
        BY <3>1, <3>2, SendersKept, NothingMoves
    <2>2. ASSUME NEW p \in Procs, AppendAttempt(p)
          PROVE  Box!Next \/ UNCHANGED <<Fates, Confirmed>>
      <3>0. PICK a \in Attempts : a = command[p].attempt
        BY <2>2 DEF AppendAttempt, TypeOK
      <3> DEFINE r == [attempt |-> a, state |-> command[p].to, at |-> command[p].at]
      <3>1. /\ command[p].step = "append" /\ a \in Attempts /\ attemptLog \in Seq(Row)
            /\ attemptLog' = Append(attemptLog, r) /\ UNCHANGED <<inFlight, channel>>
        BY <2>2, <3>0 DEF AppendAttempt, TypeOK
      <3>2. /\ Logged' = Logged \union {a}
            /\ Confirmed' = IF command[p].to = "delivered" THEN Confirmed \union {a} ELSE Confirmed
        <4>1. r.attempt = a /\ r.state = command[p].to
          OBVIOUS
        <4> HIDE DEF r
        <4> QED
          BY <3>1, <4>1, RowAdded
      <3>3. OthersKeep(p) /\ (command'[p].step \in {"send", "status"} => command'[p].attempt = a)
        BY <2>2, <3>0, OwnStep
      <3>4. CASE Fresh(p)
        <4>1. command'[p].step = "send" /\ command'[p].attempt = a
          BY <2>2, <3>3, <3>4, OwnCommand DEF AppendAttempt, Became
        <4>2. a \notin Logged /\ a \notin channel /\ a \notin inFlight /\ a \in Sending'
          BY <3>0, <3>4, <4>1 DEF Mailing, Unsent, WriteAhead, Sending
        <4>3. Fate(a) = "unused" /\ Fate(a)' = "announced"
          BY <3>1, <3>2, <4>2 DEF Fate
        <4>4. \A b \in Attempts \ {a} : Fate(b)' = Fate(b)
          BY <3>0, <3>1, <3>2, <3>3, <4>1, SendersKept, FateKept
        <4>5. Confirmed' = Confirmed
          BY <3>2, <3>4
        <4>6. Box!Announce(a)
          BY <3>1, <4>3, <4>4, <4>5, OneMoves DEF Box!Announce
        <4> QED
          BY <3>1, <4>6 DEF Box!Next
      <3>5. CASE ~Fresh(p)
        <4>1. a \in Logged /\ Logged' = Logged
          BY <3>0, <3>1, <3>2, <3>5 DEF Mailing, Known
        <4>2. command'[p].step # "send"
          <5>1. Became(p) /\ Finished(p)
            BY OwnCommand
          <5>2. Finish(p) => command'[p].step = "idle"
            BY <5>1 DEF Finished
          <5>3. ASSUME NEW to PROVE Become(p, "status", a, to, 0) => command'[p].step = "status"
            BY <5>1 DEF Became
          <5>4. Finish(p) \/ \E to : Become(p, "status", a, to, 0)
            BY <2>2, <3>0, <3>5 DEF AppendAttempt
          <5> QED
            BY <5>2, <5>3, <5>4
        <4>3. Sending' = Sending
          BY <3>1, <3>3, <4>2, SendersKept
        <4>4. Fates' = Fates
          <5>1. \A b \in Attempts : Fate(b)' = Fate(b)
            BY <3>1, <4>1, <4>3, FateKept
          <5> QED
            BY <5>1 DEF Fates
        <4>5. CASE command[p].to = "delivered"
          <5>1. a \in channel
            BY <3>0, <3>1, <4>5 DEF Mailing, ClaimsAreReal
          <5>2. Fates[a] = "arrived"
            BY <3>1, <4>1, <5>1 DEF Fates, Fate
          <5>3. Box!Confirm(a)
            BY <3>2, <4>4, <4>5, <5>2 DEF Box!Confirm
          <5> QED
            BY <3>1, <5>3 DEF Box!Next
        <4>6. CASE command[p].to # "delivered"
          BY <3>2, <4>4, <4>6
        <4> QED
          BY <4>5, <4>6
      <3> QED
        BY <3>4, <3>5
    <2>3. ASSUME NEW p \in Procs, Send(p)
          PROVE  Box!Next
      <3>0. PICK a \in Attempts : a = command[p].attempt
        BY <2>3 DEF Send, TypeOK
      <3>1. /\ command[p].step = "send" /\ UNCHANGED <<attemptLog, channel>>
            /\ inFlight' = inFlight \union {a}
        BY <2>3, <3>0 DEF Send
      <3>2. OthersKeep(p) /\ command'[p].step = "wait" /\ command'[p].attempt = a
        BY <2>3, <3>0, OwnStep
      <3>3. a \in Logged /\ a \notin inFlight \union channel /\ a \in Sending
        BY <3>0, <3>1 DEF Mailing, Known, Unsent, Sending
      <3>4. Fate(a) = "announced" /\ Fate(a)' = "posted"
        BY <2>l, <3>1, <3>3 DEF Fate
      <3>5. \A b \in Attempts \ {a} : Fate(b)' = Fate(b)
        BY <2>l, <3>0, <3>1, <3>2, SendersKept, FateKept
      <3>6. Box!Post(a)
        BY <2>l, <3>1, <3>4, <3>5, OneMoves DEF Box!Post
      <3> QED
        BY <3>1, <3>6 DEF Box!Next
    <2>4. ASSUME NEW a \in Attempts, a \in inFlight, inFlight' = inFlight \ {a},
                 channel' = channel, attemptLog' = attemptLog, Sending' = Sending
          PROVE  Box!Next
      <3>1. a \in Logged /\ a \notin channel /\ a \notin Sending
        BY <2>4 DEF Mailing, Unsent, Apart, WriteAhead, Sending
      <3>2. Fate(a) = "posted" /\ Fate(a)' = "gone"
        BY <2>l, <2>4, <3>1 DEF Fate
      <3>3. \A b \in Attempts \ {a} : Fate(b)' = Fate(b)
        BY <2>l, <2>4, FateKept
      <3>4. Box!Vanish(a)
        BY <2>l, <2>4, <3>2, <3>3, OneMoves DEF Box!Vanish
      <3> QED
        BY <3>4 DEF Box!Next
    <2>5. ASSUME NEW p \in Procs, Response(p)
          PROVE  Box!Next \/ UNCHANGED <<Fates, Confirmed>>
      <3>1. /\ command[p].step = "wait" /\ command[p].attempt \in Attempts
            /\ UNCHANGED <<attemptLog, channel>>
            /\ \/ inFlight' = inFlight
               \/ /\ command[p].attempt \in inFlight
                  /\ inFlight' = inFlight \ {command[p].attempt}
        BY <2>5 DEF Response, TypeOK
      <3>2. Sending' = Sending
        BY <2>5, <3>1, OwnStep, SendersKept
      <3> QED
        BY <2>4, <3>1, <3>2, NothingMoves
    <2>6. ASSUME NEW p \in Procs, Quiet(p)
          PROVE  UNCHANGED <<Fates, Confirmed>>
      BY <2>6, QuietSteps, SendersKept, NothingMoves
    <2>7. ASSUME NEW p \in Procs, Crash(p)
          PROVE  Box!Next \/ UNCHANGED <<Fates, Confirmed>>
      <3>1. UNCHANGED <<attemptLog, inFlight, channel>>
        BY <2>7 DEF Crash
      <3>2. OthersKeep(p) /\ command'[p].step = "idle"
        BY <2>7, OwnStep
      <3>3. CASE command[p].step # "send"
        BY <3>1, <3>2, <3>3, SendersKept, NothingMoves
      <3>4. CASE command[p].step = "send"
        <4>0. PICK a \in Attempts : a = command[p].attempt
          BY <3>4 DEF TypeOK
        <4>1. a \in Logged /\ a \notin inFlight \union channel /\ a \in Sending
          BY <3>4, <4>0 DEF Mailing, Known, Unsent, Sending
        <4>2. a \notin Sending'
          BY <3>2, <3>4, <4>0 DEF Mailing, Sole, Sending, OthersKeep
        <4>3. Fate(a) = "announced" /\ Fate(a)' = "gone"
          BY <2>l, <3>1, <4>1, <4>2 DEF Fate
        <4>4. Idle.attempt = NoAttempt /\ command'[p] = Idle
          BY <2>7 DEF Crash, Finish, Idle, TypeOK
        <4>5. \A b \in Attempts \ {a} : Fate(b)' = Fate(b)
          BY <2>l, <3>1, <3>2, <4>0, <4>4, SendersKept, FateKept, DispatchAssumption
        <4>6. Box!Vanish(a)
          BY <2>l, <3>1, <4>1, <4>3, <4>5, OneMoves DEF Box!Vanish
        <4> QED
          BY <4>1, <4>6 DEF Box!Next
      <3> QED
        BY <3>3, <3>4
    <2>8. ASSUME NEW a \in Attempts, Land(a)
          PROVE  Box!Next
      <3>1. /\ a \in inFlight /\ inFlight' = inFlight \ {a} /\ channel' = channel \union {a}
            /\ UNCHANGED <<attemptLog, command>>
        BY <2>8 DEF Land
      <3>2. Sending' = Sending
        BY <3>1 DEF Sending
      <3>3. a \in Logged /\ a \notin channel
        BY <3>1 DEF Mailing, Apart, WriteAhead
      <3>4. Fate(a) = "posted" /\ Fate(a)' = "arrived"
        BY <2>l, <3>1, <3>3 DEF Fate
      <3>5. \A b \in Attempts \ {a} : Fate(b)' = Fate(b)
        BY <2>l, <3>1, <3>2, FateKept
      <3>6. Box!Arrive(a)
        BY <2>l, <3>1, <3>4, <3>5, OneMoves DEF Box!Arrive
      <3> QED
        BY <3>6 DEF Box!Next
    <2>9. ASSUME NEW a \in Attempts, Lose(a)
          PROVE  Box!Next
      <3>1. Sending' = Sending
        BY <2>9 DEF Lose, Sending
      <3> QED
        BY <2>4, <2>9, <3>1 DEF Lose
    <2>10. CASE UNCHANGED <<attemptLog, inFlight, channel, command>>
      <3>1. Sending' = Sending
        BY <2>10 DEF Sending
      <3> QED
        BY <2>10, <3>1, NothingMoves
    <2> QED
      BY <2>1, <2>2, <2>3, <2>5, <2>6, <2>7, <2>8, <2>9, <2>10, NextCases
  <1> QED
    BY <1>1, <1>2, TypeCorrect, WriteAheadCorrect, MailingCorrect, PTL
       DEF Spec, ImplementsPostbox, Box!Spec
=============================================================================
