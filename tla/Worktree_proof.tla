--------------------------- MODULE Worktree_proof ---------------------------
(***************************************************************************)
(* Module Worktree, for any number of grants, tasks and processes: its     *)
(* types; and as long as no two commands overlap, that materialize and     *)
(* cleanup keep what they found, and that the registry is told the truth.  *)
(*                                                                         *)
(* CommandOK says what kind of command takes which step.  Progress, which  *)
(* another process may break at any moment, says what the loops over the   *)
(* grants have achieved so far, and that nothing a command found is gone   *)
(* nor among what it created.                                              *)
(***************************************************************************)
EXTENDS Worktree, TLAPS

Directory == Repository \union {Absent, Partial}

MaterializeSteps ==
    {"examine", "clone", "cloning", "origin", "fetch", "switch", "marker", "undo"}
CleanupSteps == {"verify", "clean", "detach", "delete"}

CommandOK(p) ==
    LET c == command[p] IN
    c # Idle =>
        /\ c.step \in MaterializeSteps => c.kind = "materialize"
        /\ c.step \in CleanupSteps => c.kind = "cleanup"
        /\ c.step = "remove" => c.kind = "retire"
        /\ c.kind # "retire" => c.task \in Tasks
        /\ c.kind = "cleanup" => c.task \in closed

(* A checkout is on a branch that it has.                                  *)
HeadOK(g) ==
    IsRepository(g) /\ checkout[g].head \in Tasks => checkout[g].head \in checkout[g].branches

Typed == TypeOK /\ \A p \in Procs : CommandOK(p)

Ready(g, t) == OnTask(g, t) /\ checkout[g].origin = "remote"
Cleaned(g, t) == OnTask(g, "detached") /\ t \notin checkout[g].branches

(* The grants that a materialize and a cleanup are done with.              *)
LoopSteps ==
    {"examine", "clone", "cloning", "origin", "fetch", "switch", "clean", "detach", "delete"}
Done(c) ==
    {g \in Grants : c.step \in {"marker", "register"} \/ (c.step \in LoopSteps /\ g < c.grant)}

Progress(p) ==
    LET c == command[p] IN
    c # Idle =>
        /\ c.kind # "retire" => \A g \in c.found : checkout[g] # Absent /\ g \notin c.created
        /\ c.kind = "materialize" => \A g \in Done(c) : Ready(g, c.task)
        /\ c.step \in {"clone", "cloning", "origin"} => c.grant \in c.created
        /\ c.step \in {"fetch", "switch"} => IsRepository(c.grant) /\ checkout[c.grant].origin = "remote"
        /\ c.kind = "cleanup" => \A g \in Done(c) : Cleaned(g, c.task)
        /\ c.step = "delete" => OnTask(c.grant, "detached")
        /\ c.kind = "retire" /\ c.step = "register" => Exist = {} /\ ~marker

(* The bodies of the two action properties, for one process and for a row. *)
Kept(p) ==
    command[p] # Idle /\ command[p].kind # "retire" /\ command'[p] # command[p] =>
        \A g \in command[p].found :
            /\ checkout'[g] # Absent
            /\ IsRepository(g) =>
                  /\ checkout'[g].kind = "repository"
                  /\ checkout[g].changes = "tracked" => checkout'[g].changes = "tracked"
                  /\ checkout[g].branches \ closed \subseteq checkout'[g].branches

Truthful ==
    row' # row =>
        CASE row'.status = "active"  ->
               \A g \in Grants : OnTask(g, row'.task) /\ checkout[g].origin = "remote"
          [] row'.status = "ready"   ->
               \E p \in Procs : /\ command[p] # Idle /\ command[p].kind = "cleanup"
                                /\ \A g \in Grants :
                                      /\ OnTask(g, "detached")
                                      /\ command[p].task \notin checkout[g].branches
          [] row'.status = "retired" -> ~marker /\ Exist = {}
-----------------------------------------------------------------------------
(* A process that is at a step has a full command.                         *)
LEMMA Busy ==
    ASSUME Typed, NEW p \in Procs, command[p].step # "idle" \/ command[p] # Idle
    PROVE  /\ command[p] # Idle /\ command[p] \in Command /\ command[p].step # "idle"
           /\ command[p].grant \in Grants /\ CommandOK(p)
  BY DEF Typed, TypeOK, Idle, Command, Steps

(* How a command changes: to a new one, ...                                *)
LEMMA Becomes ==
    ASSUME Typed, NEW p \in Procs, NEW d \in Command \union {Idle},
           command' = [command EXCEPT ![p] = d]
    PROVE  /\ command' \in [Procs -> Command \union {Idle}]
           /\ command'[p] = d
           /\ \A q \in Procs \ {p} : command'[q] = command[q]
  BY DEF Typed, TypeOK

(* ... to another step, ...                                                *)
LEMMA GoesTo ==
    ASSUME Typed, NEW p \in Procs, command[p] # Idle, NEW s \in Steps, Goto(p, s)
    PROVE  /\ command' \in [Procs -> Command \union {Idle}]
           /\ command'[p] \in Command /\ command'[p].step = s
           /\ command'[p].kind = command[p].kind
           /\ command'[p].task = command[p].task
           /\ command'[p].grant = command[p].grant
           /\ command'[p].created = command[p].created
           /\ command'[p].found = command[p].found
           /\ \A q \in Procs \ {p} : command'[q] = command[q]
  <1>1. command[p] \in Command
    BY DEF Typed, TypeOK
  <1>2. [command[p] EXCEPT !.step = s] \in Command
    BY <1>1 DEF Command
  <1>3. command' = [command EXCEPT ![p] = [command[p] EXCEPT !.step = s]]
    BY DEF Goto
  <1>4. /\ command' \in [Procs -> Command \union {Idle}]
        /\ command'[p] = [command[p] EXCEPT !.step = s]
        /\ \A q \in Procs \ {p} : command'[q] = command[q]
    BY <1>2, <1>3, Becomes
  <1> QED
    BY <1>1, <1>2, <1>4 DEF Command

(* ... to the next grant or what comes after the last, ...                 *)
LEMMA Advances ==
    ASSUME Typed, NEW p \in Procs, command[p] # Idle,
           NEW first \in Steps, NEW after \in Steps, NextGrant(p, first, after)
    PROVE  /\ command' \in [Procs -> Command \union {Idle}]
           /\ command'[p] \in Command
           /\ command'[p].kind = command[p].kind
           /\ command'[p].task = command[p].task
           /\ command'[p].created = command[p].created
           /\ command'[p].found = command[p].found
           /\ \/ /\ command[p].grant < NumGrants /\ command'[p].step = first
                 /\ command'[p].grant = command[p].grant + 1
              \/ /\ command[p].grant = NumGrants /\ command'[p].step = after
                 /\ command'[p].grant = 1
           /\ \A q \in Procs \ {p} : command'[q] = command[q]
  <1>1. command[p] \in Command /\ command[p].grant \in 1 .. NumGrants
    BY DEF Typed, TypeOK, Command, Grants
  <1>2. CASE command[p].grant < NumGrants
    <2>1. command[p].grant + 1 \in Grants
      BY <1>1, <1>2, WorktreeAssumption DEF Grants
    <2>2. PICK d \in Command : d = [command[p] EXCEPT !.grant = command[p].grant + 1, !.step = first]
      BY <1>1, <2>1 DEF Command
    <2>3. command' = [command EXCEPT ![p] = d]
      BY <1>2, <2>2 DEF NextGrant
    <2>4. /\ d.kind = command[p].kind /\ d.task = command[p].task
          /\ d.created = command[p].created /\ d.found = command[p].found
          /\ d.step = first /\ d.grant = command[p].grant + 1
      BY <1>1, <2>2 DEF Command
    <2> QED
      BY <1>2, <2>3, <2>4, Becomes
  <1>3. CASE ~(command[p].grant < NumGrants)
    <2>1. 1 \in Grants /\ command[p].grant = NumGrants
      BY <1>1, <1>3, WorktreeAssumption DEF Grants
    <2>2. PICK d \in Command : d = [command[p] EXCEPT !.grant = 1, !.step = after]
      BY <1>1, <2>1 DEF Command
    <2>3. command' = [command EXCEPT ![p] = d]
      BY <1>3, <2>2 DEF NextGrant
    <2>4. /\ d.kind = command[p].kind /\ d.task = command[p].task
          /\ d.created = command[p].created /\ d.found = command[p].found
          /\ d.step = after /\ d.grant = 1
      BY <1>1, <2>2 DEF Command
    <2> QED
      BY <2>1, <2>3, <2>4, Becomes
  <1> QED
    BY <1>2, <1>3

(* ... or to nothing.                                                      *)
LEMMA Ends ==
    ASSUME Typed, NEW p \in Procs, Finish(p)
    PROVE  /\ command' \in [Procs -> Command \union {Idle}]
           /\ command'[p] = Idle
           /\ \A q \in Procs \ {p} : command'[q] = command[q]
           /\ CommandOK(p)' /\ Progress(p)'
  <1>1. /\ command' \in [Procs -> Command \union {Idle}]
        /\ command'[p] = Idle
        /\ \A q \in Procs \ {p} : command'[q] = command[q]
    BY Becomes DEF Finish
  <1> QED
    BY <1>1 DEF CommandOK, Progress, Idle

(* A step of p keeps the types if it keeps those of what it writes.        *)
LEMMA StepTypes ==
    ASSUME Typed, NEW p \in Procs,
           command' \in [Procs -> Command \union {Idle}],
           \A q \in Procs \ {p} : command'[q] = command[q],
           CommandOK(p)', closed' = closed,
           checkout' \in [Grants -> Directory], \A g \in Grants : HeadOK(g)',
           marker' \in BOOLEAN, row' \in Row, row'.task # NoTask <=> row'.status = "active"
    PROVE  Typed'
  <1>1. TypeOK'
    BY DEF Typed, TypeOK, Directory, HeadOK
  <1>2. \A q \in Procs \ {p} : CommandOK(q)'
    BY DEF Typed, CommandOK
  <1> QED
    BY <1>1, <1>2 DEF Typed

(* The types of the directories are their parts.                           *)
LEMMA DirectoryTypes ==
    ASSUME Typed
    PROVE  checkout \in [Grants -> Directory] /\ \A g \in Grants : HeadOK(g)
  BY DEF Typed, TypeOK, Directory, HeadOK

(* A step that writes one directory.                                       *)
LEMMA Writes ==
    ASSUME Typed, NEW g \in Grants, NEW d \in Directory,
           d.kind = "repository" /\ d.head \in Tasks => d.head \in d.branches,
           checkout' = [checkout EXCEPT ![g] = d]
    PROVE  /\ checkout' \in [Grants -> Directory]
           /\ checkout'[g] = d
           /\ \A h \in Grants \ {g} : checkout'[h] = checkout[h]
           /\ \A h \in Grants : HeadOK(h)'
  <1>1. checkout \in [Grants -> Directory] /\ \A h \in Grants : HeadOK(h)
    BY DirectoryTypes
  <1>2. /\ checkout' \in [Grants -> Directory]
        /\ checkout'[g] = d
        /\ \A h \in Grants \ {g} : checkout'[h] = checkout[h]
    BY <1>1
  <1>3. \A h \in Grants : HeadOK(h)'
    BY <1>1, <1>2 DEF HeadOK, IsRepository
  <1> QED
    BY <1>2, <1>3

(* A directory that holds a repository is a repository.                    *)
LEMMA IsIt ==
    ASSUME Typed, NEW g \in Grants, IsRepository(g)
    PROVE  checkout[g] \in Repository
  BY DirectoryTypes DEF Directory, IsRepository, Absent, Partial
-----------------------------------------------------------------------------
(* What every step of p must be shown to do.                               *)
Good(p) == Typed' /\ (Progress(p) => Progress(p)' /\ Kept(p))

(* A new command has found what is there and created nothing.              *)
LEMMA BeginGood ==
    ASSUME Typed, NEW p \in Procs,
           \/ \E t \in Tasks : BeginMaterialize(p, t) \/ BeginCleanup(p, t)
           \/ BeginRetire(p)
    PROVE  Good(p)
  <1>1. PICK kind \in {"materialize", "cleanup", "retire"},
             step \in {"examine", "verify", "remove"}, t \in Tasks \union {NoTask} :
           /\ Begin(p, kind, step, t)
           /\ step = "examine" <=> kind = "materialize"
           /\ step = "verify" <=> kind = "cleanup"
           /\ kind # "retire" => t \in Tasks
           /\ kind = "cleanup" => t \in closed
    BY DEF BeginMaterialize, BeginCleanup, BeginRetire
  <1>2. PICK d \in Command :
           d = [kind |-> kind, step |-> step, task |-> t, grant |-> 1,
                created |-> {}, found |-> Exist]
    <2>1. 1 \in Grants /\ Exist \in SUBSET Grants
      BY WorktreeAssumption DEF Grants, Exist
    <2>2. [kind |-> kind, step |-> step, task |-> t, grant |-> 1,
           created |-> {}, found |-> Exist] \in Command
      BY <2>1 DEF Command, Steps
    <2> QED
      BY <2>2
  <1>3. /\ d.kind = kind /\ d.step = step /\ d.task = t /\ d.grant = 1
        /\ d.created = {} /\ d.found = Exist
    BY <1>2
  <1>4. command[p] = Idle /\ UNCHANGED <<checkout, marker, row, closed>>
    BY <1>1 DEF Begin
  <1>5. /\ command' \in [Procs -> Command \union {Idle}]
        /\ command'[p] = d
        /\ \A q \in Procs \ {p} : command'[q] = command[q]
    BY <1>1, <1>2, Becomes DEF Begin
  <1>6. CommandOK(p)'
    BY <1>1, <1>3, <1>4, <1>5 DEF CommandOK, MaterializeSteps, CleanupSteps
  <1>7. Typed'
    <2>1. checkout' \in [Grants -> Directory] /\ \A g \in Grants : HeadOK(g)'
      BY <1>4, DirectoryTypes DEF HeadOK, IsRepository
    <2> QED
      BY <1>4, <1>5, <1>6, <2>1, StepTypes DEF Typed, TypeOK
  <1>8. Progress(p)'
    <2>1. \A g \in Exist : checkout'[g] # Absent
      BY <1>4 DEF Exist
    <2>2. Done(d) = {}
      BY <1>1, <1>3 DEF Done, Grants, LoopSteps
    <2> QED
      BY <1>1, <1>3, <1>5, <2>1, <2>2 DEF Progress
  <1>9. Kept(p)
    BY <1>4 DEF Kept
  <1> QED
    BY <1>7, <1>8, <1>9 DEF Good

(* A step that leaves the directories alone keeps what was found.          *)
LEMMA SameDirectories ==
    ASSUME Typed, NEW p \in Procs, checkout' = checkout,
           command' \in [Procs -> Command \union {Idle}],
           \A q \in Procs \ {p} : command'[q] = command[q],
           CommandOK(p)', closed' = closed, marker' \in BOOLEAN, row' \in Row,
           row'.task # NoTask <=> row'.status = "active",
           Progress(p) => Progress(p)'
    PROVE  Good(p)
  <1>1. checkout' \in [Grants -> Directory] /\ \A g \in Grants : HeadOK(g)'
    BY DirectoryTypes DEF HeadOK, IsRepository
  <1>2. Typed'
    BY <1>1, StepTypes
  <1>3. Progress(p) => Kept(p)
    BY DEF Progress, Kept, IsRepository
  <1> QED
    BY <1>2, <1>3 DEF Good

(* Commands that end.                                                      *)
LEMMA EndGood ==
    ASSUME Typed, NEW p \in Procs,
           RegisterActive(p) \/ RegisterReady(p) \/ RegisterRetired(p) \/ Abort(p)
    PROVE  Good(p)
  <1>1. Finish(p) /\ UNCHANGED <<checkout, marker, closed>>
    BY DEF RegisterActive, RegisterReady, RegisterRetired, Abort
  <1>2. row' \in Row /\ (row'.task # NoTask <=> row'.status = "active")
    <2>1. CASE RegisterActive(p)
      <3>1. command[p].task \in Tasks
        BY <2>1, Busy DEF RegisterActive, CommandOK
      <3> QED
        BY <2>1, <3>1, WorktreeAssumption DEF RegisterActive, Row
    <2>2. CASE RegisterReady(p) \/ RegisterRetired(p)
      BY <2>2 DEF RegisterReady, ClearedRow, RegisterRetired, Row
    <2>3. CASE Abort(p)
      BY <2>3 DEF Abort, Typed, TypeOK
    <2> QED
      BY <2>1, <2>2, <2>3
  <1> QED
    BY <1>1, <1>2, Ends, SameDirectories DEF Typed, TypeOK

(* The checks of a materialize: a directory to create, or a clone of the   *)
(* delivery remote.                                                        *)
LEMMA ExamineGood ==
    ASSUME Typed, NEW p \in Procs, Examine(p)
    PROVE  Good(p)
  <1> DEFINE c == command[p]
  <1>1. /\ c.step = "examine" /\ c # Idle /\ c \in Command /\ c.grant \in Grants
        /\ CommandOK(p)
    BY Busy DEF Examine
  <1>2. PICK new \in SUBSET Grants : new = Created(c)
    BY <1>1 DEF Created, Command
  <1>3. PICK step \in {"clone", "fetch"} :
           step = IF checkout[c.grant] = Absent THEN "clone" ELSE "fetch"
    OBVIOUS
  <1>4. PICK d \in Command : d = [c EXCEPT !.created = new, !.step = step]
    BY <1>1 DEF Command, Steps
  <1>5. /\ d.kind = c.kind /\ d.task = c.task /\ d.grant = c.grant /\ d.found = c.found
        /\ d.created = new /\ d.step = step
    BY <1>1, <1>4 DEF Command
  <1>6. command' = [command EXCEPT ![p] = d]
    BY <1>2, <1>3, <1>4 DEF Examine
  <1>7. /\ command' \in [Procs -> Command \union {Idle}]
        /\ command'[p] = d
        /\ \A q \in Procs \ {p} : command'[q] = command[q]
    BY <1>6, Becomes
  <1>8. UNCHANGED <<checkout, marker, row, closed>>
    BY DEF Examine
  <1>9. CommandOK(p)' /\ c.kind = "materialize"
    BY <1>1, <1>5, <1>7, <1>8 DEF CommandOK, MaterializeSteps, CleanupSteps, Idle
  <1>10. ASSUME Progress(p) PROVE Progress(p)'
    <2>1. \A g \in c.found : checkout[g] # Absent /\ g \notin c.created
      BY <1>1, <1>9, <1>10 DEF Progress
    <2>2. \A g \in d.found : checkout'[g] # Absent /\ g \notin d.created
      BY <1>2, <1>5, <1>8, <2>1 DEF Created
    <2>3. \A g \in Done(d) : Ready(g, d.task)'
      BY <1>1, <1>5, <1>8, <1>9, <1>10 DEF Progress, Done, LoopSteps, Ready, OnTask, IsRepository
    <2>4. d.step = "clone" => d.grant \in d.created
      BY <1>2, <1>3, <1>5 DEF Created
    <2>5. d.step = "fetch" => (IsRepository(d.grant) /\ checkout[d.grant].origin = "remote")'
      BY <1>3, <1>5, <1>8 DEF Examine, Reusable, IsRepository
    <2> QED
      BY <1>5, <1>7, <1>9, <2>2, <2>3, <2>4, <2>5 DEF Progress
  <1> QED
    BY <1>7, <1>8, <1>9, <1>10, SameDirectories DEF Typed, TypeOK

(* After the fetch, a checkout on the task's branch is done with, another  *)
(* one is switched.                                                        *)
LEMMA FetchGood ==
    ASSUME Typed, NEW p \in Procs, Fetch(p)
    PROVE  Good(p)
  <1> DEFINE c == command[p]
  <1>1. /\ c.step = "fetch" /\ c # Idle /\ c \in Command /\ c.grant \in 1 .. NumGrants
        /\ c.kind = "materialize" /\ c.task \in Tasks
    BY Busy DEF Fetch, CommandOK, MaterializeSteps, Grants
  <1>2. UNCHANGED <<checkout, marker, row, closed>>
    BY DEF Fetch
  <1>3. CASE OnTask(c.grant, c.task)
    <2>1. NextGrant(p, "examine", "marker")
      BY <1>3 DEF Fetch
    <2>2. /\ command' \in [Procs -> Command \union {Idle}]
          /\ command'[p] \in Command
          /\ command'[p].kind = c.kind /\ command'[p].task = c.task
          /\ command'[p].created = c.created /\ command'[p].found = c.found
          /\ \/ /\ c.grant < NumGrants /\ command'[p].step = "examine"
                /\ command'[p].grant = c.grant + 1
             \/ /\ c.grant = NumGrants /\ command'[p].step = "marker"
                /\ command'[p].grant = 1
          /\ \A q \in Procs \ {p} : command'[q] = command[q]
      BY <1>1, <2>1, Advances DEF Steps
    <2>3. CommandOK(p)'
      BY <1>1, <1>2, <2>2 DEF CommandOK, MaterializeSteps, CleanupSteps
    <2>4. ASSUME Progress(p) PROVE Progress(p)'
      <3>1. Done(command[p])' = Done(c) \union {c.grant}
        BY <1>1, <2>2, WorktreeAssumption DEF Done, LoopSteps, Grants
      <3>2. \A g \in Done(c) \union {c.grant} : Ready(g, c.task)
        BY <1>1, <1>3, <2>4 DEF Progress, Ready
      <3> QED
        BY <1>1, <1>2, <2>2, <2>4, <3>1, <3>2 DEF Progress, Ready, OnTask, IsRepository
    <2> QED
      BY <1>2, <2>2, <2>3, <2>4, SameDirectories DEF Typed, TypeOK
  <1>4. CASE ~OnTask(c.grant, c.task)
    <2>1. Goto(p, "switch")
      BY <1>4 DEF Fetch
    <2>2. /\ command' \in [Procs -> Command \union {Idle}]
          /\ command'[p] \in Command /\ command'[p].step = "switch"
          /\ command'[p].kind = c.kind /\ command'[p].task = c.task
          /\ command'[p].grant = c.grant
          /\ command'[p].created = c.created /\ command'[p].found = c.found
          /\ \A q \in Procs \ {p} : command'[q] = command[q]
      BY <1>1, <2>1, GoesTo DEF Steps
    <2>3. CommandOK(p)'
      BY <1>1, <1>2, <2>2 DEF CommandOK, MaterializeSteps, CleanupSteps
    <2>4. ASSUME Progress(p) PROVE Progress(p)'
      BY <1>1, <1>2, <2>2, <2>4 DEF Progress, Done, LoopSteps, Ready, OnTask, IsRepository
    <2> QED
      BY <1>2, <2>2, <2>3, <2>4, SameDirectories DEF Typed, TypeOK
  <1> QED
    BY <1>3, <1>4

(* The marker is written when every grant is ready.                        *)
LEMMA WriteMarkerGood ==
    ASSUME Typed, NEW p \in Procs, WriteMarker(p)
    PROVE  Good(p)
  <1> DEFINE c == command[p]
  <1>1. c.step = "marker" /\ c # Idle /\ c.kind = "materialize" /\ CommandOK(p)
    BY Busy DEF WriteMarker, CommandOK, MaterializeSteps
  <1>2. /\ command' \in [Procs -> Command \union {Idle}]
        /\ command'[p] \in Command /\ command'[p].step = "register"
        /\ command'[p].kind = c.kind /\ command'[p].task = c.task
        /\ command'[p].created = c.created /\ command'[p].found = c.found
        /\ \A q \in Procs \ {p} : command'[q] = command[q]
    BY <1>1, GoesTo DEF WriteMarker, Steps
  <1>3. UNCHANGED <<checkout, row, closed>> /\ marker' = TRUE
    BY DEF WriteMarker
  <1>4. CommandOK(p)'
    BY <1>1, <1>2, <1>3 DEF CommandOK, MaterializeSteps, CleanupSteps
  <1>5. ASSUME Progress(p) PROVE Progress(p)'
    BY <1>1, <1>2, <1>3, <1>5 DEF Progress, Done, LoopSteps, Ready, OnTask, IsRepository
  <1> QED
    BY <1>2, <1>3, <1>4, <1>5, SameDirectories DEF Typed, TypeOK

(* A failure leads to the undo, which has nothing of what was found.       *)
LEMMA MaterializeFailsGood ==
    ASSUME Typed, NEW p \in Procs, MaterializeFails(p)
    PROVE  Good(p)
  <1> DEFINE c == command[p]
  <1>1. c # Idle /\ c.kind = "materialize" /\ CommandOK(p)
    BY Busy DEF MaterializeFails, CommandOK, MaterializeSteps
  <1>2. /\ command' \in [Procs -> Command \union {Idle}]
        /\ command'[p] \in Command /\ command'[p].step = "undo"
        /\ command'[p].kind = c.kind /\ command'[p].task = c.task
        /\ command'[p].created = c.created /\ command'[p].found = c.found
        /\ \A q \in Procs \ {p} : command'[q] = command[q]
    BY <1>1, GoesTo DEF MaterializeFails, Steps
  <1>3. UNCHANGED <<checkout, marker, row, closed>>
    BY DEF MaterializeFails
  <1>4. CommandOK(p)'
    BY <1>1, <1>2, <1>3 DEF CommandOK, MaterializeSteps, CleanupSteps
  <1>5. ASSUME Progress(p) PROVE Progress(p)'
    BY <1>1, <1>2, <1>3, <1>5 DEF Progress, Done, LoopSteps
  <1> QED
    BY <1>2, <1>3, <1>4, <1>5, SameDirectories DEF Typed, TypeOK

(* The verification of a cleanup.                                          *)
LEMMA VerifyGood ==
    ASSUME Typed, NEW p \in Procs, Verify(p)
    PROVE  Good(p)
  <1> DEFINE c == command[p]
  <1>1. /\ c.step = "verify" /\ c # Idle /\ c \in Command /\ c.grant \in 1 .. NumGrants
        /\ c.kind = "cleanup" /\ CommandOK(p)
    BY Busy DEF Verify, CommandOK, CleanupSteps, Grants
  <1>2. UNCHANGED <<checkout, marker, row, closed>>
    BY DEF Verify
  <1>3. /\ command' \in [Procs -> Command \union {Idle}]
        /\ command'[p] \in Command
        /\ command'[p].kind = c.kind /\ command'[p].task = c.task
        /\ command'[p].created = c.created /\ command'[p].found = c.found
        /\ \/ command'[p].step = "verify"
           \/ command'[p].step = "clean" /\ command'[p].grant = 1
        /\ \A q \in Procs \ {p} : command'[q] = command[q]
    <2>1. NextGrant(p, "verify", "clean") /\ "verify" \in Steps /\ "clean" \in Steps
      BY DEF Verify, Steps
    <2> QED
      BY <1>1, <2>1, Advances
  <1>4. CommandOK(p)'
    BY <1>1, <1>2, <1>3 DEF CommandOK, MaterializeSteps, CleanupSteps
  <1>5. ASSUME Progress(p) PROVE Progress(p)'
    <2>1. Done(command[p])' = {}
      BY <1>3 DEF Done, LoopSteps, Grants
    <2> QED
      BY <1>1, <1>2, <1>3, <1>5, <2>1 DEF Progress
  <1> QED
    BY <1>2, <1>3, <1>4, <1>5, SameDirectories DEF Typed, TypeOK
-----------------------------------------------------------------------------
(* A step that writes the directory g keeps what was found if d has all of *)
(* it.                                                                     *)
LEMMA WriteGood ==
    ASSUME Typed, NEW p \in Procs, NEW g \in Grants, NEW d \in Directory,
           d.kind = "repository" /\ d.head \in Tasks => d.head \in d.branches,
           checkout' = [checkout EXCEPT ![g] = d],
           command' \in [Procs -> Command \union {Idle}],
           \A q \in Procs \ {p} : command'[q] = command[q],
           CommandOK(p)', UNCHANGED <<marker, row, closed>>,
           Progress(p) => Progress(p)',
           Progress(p) /\ g \in command[p].found =>
               /\ d # Absent
               /\ IsRepository(g) =>
                     /\ d.kind = "repository"
                     /\ checkout[g].changes = "tracked" => d.changes = "tracked"
                     /\ checkout[g].branches \ closed \subseteq d.branches
    PROVE  Good(p)
  <1>1. /\ checkout' \in [Grants -> Directory]
        /\ checkout'[g] = d
        /\ \A h \in Grants \ {g} : checkout'[h] = checkout[h]
        /\ \A h \in Grants : HeadOK(h)'
    BY Writes
  <1>2. Typed'
    BY <1>1, StepTypes DEF Typed, TypeOK
  <1>3. ASSUME Progress(p), command[p] # Idle, command[p].kind # "retire",
               NEW h \in command[p].found
        PROVE  /\ checkout'[h] # Absent
               /\ IsRepository(h) =>
                     /\ checkout'[h].kind = "repository"
                     /\ checkout[h].changes = "tracked" => checkout'[h].changes = "tracked"
                     /\ checkout[h].branches \ closed \subseteq checkout'[h].branches
    <2>1. CASE h = g
      BY <1>1, <1>3, <2>1
    <2>2. CASE h # g
      <3>1. command[p] \in Command
        BY <1>3, Busy
      <3>2. h \in Grants
        BY <1>3, <3>1 DEF Command
      <3> QED
        BY <1>1, <1>3, <2>2, <3>2 DEF Progress, IsRepository
    <2> QED
      BY <2>1, <2>2
  <1>4. Progress(p) => Kept(p)
    BY <1>3 DEF Kept
  <1> QED
    BY <1>2, <1>4 DEF Good

(* What a step of the loop over the grants starts from.                    *)
LEMMA AtGrant ==
    ASSUME Typed, NEW p \in Procs,
           command[p].step \in LoopSteps \union {"verify"}
    PROVE  /\ command[p] # Idle /\ command[p] \in Command
           /\ command[p].grant \in Grants /\ command[p].grant \in 1 .. NumGrants
           /\ command[p].task \in Tasks
           /\ command[p].step \in {"clean", "detach", "delete", "verify"} =>
                 command[p].kind = "cleanup" /\ command[p].task \in closed
           /\ command[p].step \notin {"clean", "detach", "delete", "verify"} =>
                 command[p].kind = "materialize"
  <1>1. command[p] # Idle /\ command[p] \in Command /\ command[p].grant \in Grants /\ CommandOK(p)
    BY Busy DEF LoopSteps
  <1> QED
    BY <1>1 DEF CommandOK, LoopSteps, MaterializeSteps, CleanupSteps, Grants

(* The directory of a new clone is created by this command, so it is not   *)
(* one that it found.                                                      *)
LEMMA CloneGood ==
    ASSUME Typed, NEW p \in Procs, Clone(p) \/ FinishClone(p) \/ SetOrigin(p)
    PROVE  Good(p)
  <1> DEFINE c == command[p]
  <1>1. /\ c.step \in {"clone", "cloning", "origin"}
        /\ c # Idle /\ c \in Command /\ c.grant \in 1 .. NumGrants /\ c.grant \in Grants
        /\ c.kind = "materialize" /\ c.task \in Tasks
    BY AtGrant DEF Clone, FinishClone, SetOrigin, LoopSteps
  <1>2. PICK d \in Directory :
           /\ d.kind = "repository" /\ d.head \in Tasks => d.head \in d.branches
           /\ checkout' = [checkout EXCEPT ![c.grant] = d]
           /\ c.step = "origin" => d.kind = "repository" /\ d.origin = "remote"
    <2>1. CASE Clone(p)
      BY <2>1 DEF Clone, Directory, Partial
    <2>2. CASE FinishClone(p)
      <3>1. Cloned \in Directory /\ Cloned.head \notin Tasks
        BY WorktreeAssumption DEF Cloned, Directory, Repository
      <3> QED
        BY <2>2, <3>1 DEF FinishClone
    <2>3. CASE SetOrigin(p)
      <3>1. checkout[c.grant] \in Repository /\ HeadOK(c.grant) /\ IsRepository(c.grant)
        BY <1>1, <2>3, IsIt, DirectoryTypes DEF SetOrigin
      <3>2. PICK d \in Repository : d = [checkout[c.grant] EXCEPT !.origin = "remote"]
        BY <3>1 DEF Repository
      <3>3. /\ d.head = checkout[c.grant].head /\ d.branches = checkout[c.grant].branches
            /\ d.origin = "remote" /\ d.kind = "repository"
        BY <3>1, <3>2 DEF Repository
      <3>4. checkout' = [checkout EXCEPT ![c.grant] = d]
        BY <2>3, <3>2 DEF SetOrigin
      <3> QED
        BY <3>1, <3>3, <3>4 DEF Directory, HeadOK
    <2> QED
      BY <2>1, <2>2, <2>3
  <1>3. PICK step \in {"cloning", "origin", "fetch"} :
           /\ Goto(p, step)
           /\ step = "fetch" <=> c.step = "origin"
    BY DEF Clone, FinishClone, SetOrigin
  <1>4. /\ command' \in [Procs -> Command \union {Idle}]
        /\ command'[p] \in Command /\ command'[p].step = step
        /\ command'[p].kind = c.kind /\ command'[p].task = c.task
        /\ command'[p].grant = c.grant
        /\ command'[p].created = c.created /\ command'[p].found = c.found
        /\ \A q \in Procs \ {p} : command'[q] = command[q]
    BY <1>1, <1>3, GoesTo DEF Steps
  <1>5. UNCHANGED <<marker, row, closed>>
    BY DEF Clone, FinishClone, SetOrigin
  <1>6. CommandOK(p)'
    BY <1>1, <1>3, <1>4, <1>5 DEF CommandOK, MaterializeSteps, CleanupSteps
  <1>7. ASSUME Progress(p)
        PROVE  /\ c.grant \in c.created /\ c.grant \notin c.found
               /\ Progress(p)'
    <2>1. c.grant \in c.created /\ c.grant \notin c.found
      BY <1>1, <1>7 DEF Progress
    <2>2. /\ checkout'[c.grant] = d
          /\ \A h \in Grants \ {c.grant} : checkout'[h] = checkout[h]
      BY <1>1, <1>2, Writes
    <2>3. \A g \in c.found : checkout'[g] # Absent /\ g \notin c.created
      <3>1. c.found \subseteq Grants
        BY <1>1 DEF Command
      <3> QED
        BY <1>1, <1>7, <2>1, <2>2, <3>1 DEF Progress
    <2>4. Done(command[p])' = Done(c) /\ c.grant \notin Done(c) /\ Done(c) \subseteq Grants
      BY <1>1, <1>3, <1>4 DEF Done, LoopSteps, Grants
    <2>5. \A g \in Done(c) : Ready(g, c.task)'
      BY <1>1, <1>4, <1>7, <2>2, <2>4 DEF Progress, Ready, OnTask, IsRepository
    <2>6. step = "fetch" => (IsRepository(c.grant) /\ checkout[c.grant].origin = "remote")'
      BY <1>2, <1>3, <1>4, <2>2 DEF IsRepository
    <2> QED
      BY <1>1, <1>3, <1>4, <2>1, <2>3, <2>4, <2>5, <2>6 DEF Progress, Ready
  <1> QED
    BY <1>1, <1>2, <1>4, <1>5, <1>6, <1>7, WriteGood

(* A switch leaves a checkout of the delivery remote on the task's branch. *)
LEMMA SwitchGood ==
    ASSUME Typed, NEW p \in Procs, Switch(p)
    PROVE  Good(p)
  <1> DEFINE c == command[p]
  <1>1. /\ c.step = "switch"
        /\ c # Idle /\ c \in Command /\ c.grant \in 1 .. NumGrants /\ c.grant \in Grants
        /\ c.kind = "materialize" /\ c.task \in Tasks
    BY AtGrant DEF Switch, LoopSteps
  <1>2. checkout[c.grant] \in Repository /\ IsRepository(c.grant)
    BY <1>1, IsIt DEF Switch
  <1>3. PICK d \in Repository :
           d = [checkout[c.grant] EXCEPT !.head = c.task,
                                         !.branches = checkout[c.grant].branches \union {c.task}]
    BY <1>1, <1>2 DEF Repository
  <1>4. /\ d.kind = "repository" /\ d.head = c.task
        /\ d.branches = checkout[c.grant].branches \union {c.task}
        /\ d.origin = checkout[c.grant].origin /\ d.changes = checkout[c.grant].changes
    BY <1>2, <1>3 DEF Repository
  <1>5. checkout' = [checkout EXCEPT ![c.grant] = d]
    BY <1>3 DEF Switch
  <1>6. d \in Directory /\ d # Absent
    BY <1>4 DEF Directory, Absent
  <1>7. /\ command' \in [Procs -> Command \union {Idle}]
        /\ command'[p] \in Command
        /\ command'[p].kind = c.kind /\ command'[p].task = c.task
        /\ command'[p].created = c.created /\ command'[p].found = c.found
        /\ \/ /\ c.grant < NumGrants /\ command'[p].step = "examine"
              /\ command'[p].grant = c.grant + 1
           \/ /\ c.grant = NumGrants /\ command'[p].step = "marker"
              /\ command'[p].grant = 1
        /\ \A q \in Procs \ {p} : command'[q] = command[q]
    <2>1. NextGrant(p, "examine", "marker") /\ "examine" \in Steps /\ "marker" \in Steps
      BY DEF Switch, Steps
    <2> QED
      BY <1>1, <2>1, Advances
  <1>8. UNCHANGED <<marker, row, closed>>
    BY DEF Switch
  <1>9. CommandOK(p)'
    BY <1>1, <1>7, <1>8 DEF CommandOK, MaterializeSteps, CleanupSteps
  <1>10. ASSUME Progress(p) PROVE Progress(p)'
    <2>1. /\ checkout'[c.grant] = d
          /\ \A h \in Grants \ {c.grant} : checkout'[h] = checkout[h]
      BY <1>1, <1>4, <1>5, <1>6, Writes
    <2>2. \A g \in c.found : checkout'[g] # Absent /\ g \notin c.created
      <3>1. c.found \subseteq Grants
        BY <1>1 DEF Command
      <3> QED
        BY <1>1, <1>6, <1>10, <2>1, <3>1 DEF Progress
    <2>3. Done(command[p])' = Done(c) \union {c.grant} /\ Done(c) \subseteq Grants
      BY <1>1, <1>7, WorktreeAssumption DEF Done, LoopSteps, Grants
    <2>4. d.origin = "remote"
      BY <1>1, <1>4, <1>10 DEF Progress
    <2>5. \A g \in Done(c) \union {c.grant} : Ready(g, command[p].task)'
      BY <1>1, <1>4, <1>7, <1>10, <2>1, <2>3, <2>4 DEF Progress, Ready, OnTask, IsRepository
    <2> QED
      BY <1>1, <1>7, <2>2, <2>3, <2>5 DEF Progress
  <1> QED
    BY <1>1, <1>4, <1>5, <1>6, <1>7, <1>8, <1>9, <1>10, WriteGood

(* Cleaning and detaching keep tracked edits and branches.                 *)
LEMMA CleanGood ==
    ASSUME Typed, NEW p \in Procs, Clean(p) \/ Detach(p)
    PROVE  Good(p)
  <1> DEFINE c == command[p]
  <1>1. /\ c.step \in {"clean", "detach"}
        /\ c # Idle /\ c \in Command /\ c.grant \in 1 .. NumGrants /\ c.grant \in Grants
        /\ c.kind = "cleanup" /\ c.task \in Tasks /\ c.task \in closed
    BY AtGrant DEF Clean, Detach, LoopSteps
  <1>2. checkout[c.grant] \in Repository /\ IsRepository(c.grant) /\ HeadOK(c.grant)
    BY <1>1, IsIt, DirectoryTypes DEF Clean, Detach
  <1>3. PICK d \in Repository :
           /\ checkout' = [checkout EXCEPT ![c.grant] = d]
           /\ d.branches = checkout[c.grant].branches
           /\ d.head \in Tasks => d.head = checkout[c.grant].head
           /\ checkout[c.grant].changes = "tracked" => d.changes = "tracked"
           /\ c.step = "detach" => d.head = "detached"
    <2>1. CASE Clean(p)
      <3>1. PICK new \in {"none", "untracked", "tracked"} :
               new = IF checkout[c.grant].changes = "tracked" THEN checkout[c.grant].changes
                     ELSE "none"
        OBVIOUS
      <3>2. PICK d \in Repository : d = [checkout[c.grant] EXCEPT !.changes = new]
        BY <1>2 DEF Repository
      <3>3. /\ d.branches = checkout[c.grant].branches /\ d.head = checkout[c.grant].head
            /\ d.changes = new
        BY <1>2, <3>2 DEF Repository
      <3>4. checkout' = [checkout EXCEPT ![c.grant] = d]
        BY <2>1, <3>1, <3>2 DEF Clean
      <3> QED
        BY <2>1, <3>1, <3>3, <3>4 DEF Clean
    <2>2. CASE Detach(p)
      <3>1. PICK d \in Repository : d = [checkout[c.grant] EXCEPT !.head = "detached"]
        BY <1>2 DEF Repository
      <3>2. /\ d.branches = checkout[c.grant].branches /\ d.head = "detached"
            /\ d.changes = checkout[c.grant].changes
        BY <1>2, <3>1 DEF Repository
      <3>3. checkout' = [checkout EXCEPT ![c.grant] = d]
        BY <2>2, <3>1 DEF Detach
      <3> QED
        BY <3>2, <3>3, WorktreeAssumption
    <2> QED
      BY <2>1, <2>2
  <1>4. d \in Directory /\ d # Absent /\ d.kind = "repository"
    BY <1>3 DEF Directory, Repository, Absent
  <1>5. PICK step \in {"detach", "delete"} :
           /\ Goto(p, step)
           /\ step = "delete" <=> c.step = "detach"
    BY DEF Clean, Detach
  <1>6. /\ command' \in [Procs -> Command \union {Idle}]
        /\ command'[p] \in Command /\ command'[p].step = step
        /\ command'[p].kind = c.kind /\ command'[p].task = c.task
        /\ command'[p].grant = c.grant
        /\ command'[p].created = c.created /\ command'[p].found = c.found
        /\ \A q \in Procs \ {p} : command'[q] = command[q]
    BY <1>1, <1>5, GoesTo DEF Steps
  <1>7. UNCHANGED <<marker, row, closed>>
    BY DEF Clean, Detach
  <1>8. CommandOK(p)'
    BY <1>1, <1>5, <1>6, <1>7 DEF CommandOK, MaterializeSteps, CleanupSteps
  <1>9. d.head \in Tasks => d.head \in d.branches
    BY <1>2, <1>3 DEF HeadOK
  <1>10. ASSUME Progress(p) PROVE Progress(p)'
    <2>1. /\ checkout'[c.grant] = d
          /\ \A h \in Grants \ {c.grant} : checkout'[h] = checkout[h]
      BY <1>1, <1>3, <1>4, <1>9, Writes
    <2>2. \A g \in c.found : checkout'[g] # Absent /\ g \notin c.created
      <3>1. c.found \subseteq Grants
        BY <1>1 DEF Command
      <3> QED
        BY <1>1, <1>4, <1>10, <2>1, <3>1 DEF Progress
    <2>3. Done(command[p])' = Done(c) /\ Done(c) \subseteq Grants /\ c.grant \notin Done(c)
      BY <1>1, <1>5, <1>6 DEF Done, LoopSteps, Grants
    <2>4. \A g \in Done(c) : Cleaned(g, command[p].task)'
      BY <1>1, <1>6, <1>10, <2>1, <2>3 DEF Progress, Cleaned, OnTask, IsRepository
    <2>5. step = "delete" => OnTask(command[p].grant, "detached")'
      BY <1>3, <1>4, <1>5, <1>6, <2>1 DEF OnTask, IsRepository
    <2> QED
      BY <1>1, <1>5, <1>6, <2>2, <2>3, <2>4, <2>5 DEF Progress
  <1> QED
    BY <1>1, <1>3, <1>4, <1>6, <1>7, <1>8, <1>9, <1>10, WriteGood

(* The branch that is deleted is that of a closed task.                    *)
LEMMA DeleteBranchGood ==
    ASSUME Typed, NEW p \in Procs, DeleteBranch(p)
    PROVE  Good(p)
  <1> DEFINE c == command[p]
  <1>1. /\ c.step = "delete"
        /\ c # Idle /\ c \in Command /\ c.grant \in 1 .. NumGrants /\ c.grant \in Grants
        /\ c.kind = "cleanup" /\ c.task \in Tasks /\ c.task \in closed
    BY AtGrant DEF DeleteBranch, LoopSteps
  <1>2. /\ checkout[c.grant] \in Repository /\ IsRepository(c.grant) /\ HeadOK(c.grant)
        /\ checkout[c.grant].head # c.task
    BY <1>1, IsIt, DirectoryTypes DEF DeleteBranch
  <1>3. PICK d \in Repository :
           d = [checkout[c.grant] EXCEPT !.branches = checkout[c.grant].branches \ {c.task}]
    BY <1>2 DEF Repository
  <1>4. /\ d.kind = "repository" /\ d.head = checkout[c.grant].head
        /\ d.branches = checkout[c.grant].branches \ {c.task}
        /\ d.changes = checkout[c.grant].changes
    BY <1>2, <1>3 DEF Repository
  <1>5. checkout' = [checkout EXCEPT ![c.grant] = d]
    BY <1>3 DEF DeleteBranch
  <1>6. d \in Directory /\ d # Absent /\ (d.head \in Tasks => d.head \in d.branches)
    BY <1>2, <1>4 DEF Directory, Absent, HeadOK
  <1>7. /\ command' \in [Procs -> Command \union {Idle}]
        /\ command'[p] \in Command
        /\ command'[p].kind = c.kind /\ command'[p].task = c.task
        /\ command'[p].created = c.created /\ command'[p].found = c.found
        /\ \/ /\ c.grant < NumGrants /\ command'[p].step = "clean"
              /\ command'[p].grant = c.grant + 1
           \/ /\ c.grant = NumGrants /\ command'[p].step = "register"
              /\ command'[p].grant = 1
        /\ \A q \in Procs \ {p} : command'[q] = command[q]
    <2>1. NextGrant(p, "clean", "register") /\ "clean" \in Steps /\ "register" \in Steps
      BY DEF DeleteBranch, Steps
    <2> QED
      BY <1>1, <2>1, Advances
  <1>8. UNCHANGED <<marker, row, closed>>
    BY DEF DeleteBranch
  <1>9. CommandOK(p)'
    BY <1>1, <1>7, <1>8 DEF CommandOK, MaterializeSteps, CleanupSteps
  <1>10. ASSUME Progress(p) PROVE Progress(p)'
    <2>1. /\ checkout'[c.grant] = d
          /\ \A h \in Grants \ {c.grant} : checkout'[h] = checkout[h]
      BY <1>1, <1>5, <1>6, Writes
    <2>2. \A g \in c.found : checkout'[g] # Absent /\ g \notin c.created
      <3>1. c.found \subseteq Grants
        BY <1>1 DEF Command
      <3> QED
        BY <1>1, <1>6, <1>10, <2>1, <3>1 DEF Progress
    <2>3. Done(command[p])' = Done(c) \union {c.grant} /\ Done(c) \subseteq Grants
      BY <1>1, <1>7, WorktreeAssumption DEF Done, LoopSteps, Grants
    <2>4. OnTask(c.grant, "detached")
      BY <1>1, <1>10 DEF Progress
    <2>5. \A g \in Done(c) \union {c.grant} : Cleaned(g, command[p].task)'
      BY <1>1, <1>4, <1>7, <1>10, <2>1, <2>3, <2>4 DEF Progress, Cleaned, OnTask, IsRepository
    <2> QED
      BY <1>1, <1>7, <2>2, <2>3, <2>5 DEF Progress
  <1> QED
    BY <1>1, <1>4, <1>5, <1>6, <1>7, <1>8, <1>9, <1>10, WriteGood
-----------------------------------------------------------------------------
(* Directories that are as they were, in part, or gone.                    *)
LEMMA Leaves ==
    ASSUME Typed, NEW kept \in SUBSET Grants, NEW part \in SUBSET Grants,
           checkout' = [g \in Grants |-> IF g \in kept THEN checkout[g]
                                         ELSE IF g \in part THEN Partial ELSE Absent]
    PROVE  /\ checkout' \in [Grants -> Directory]
           /\ \A g \in Grants : HeadOK(g)'
           /\ \A g \in kept : checkout'[g] = checkout[g]
  <1>1. checkout \in [Grants -> Directory] /\ \A g \in Grants : HeadOK(g)
    BY DirectoryTypes
  <1>2. \A g \in Grants : checkout'[g] = checkout[g] \/ checkout'[g] = Partial
                          \/ checkout'[g] = Absent
    OBVIOUS
  <1>3. checkout' \in [Grants -> Directory]
    BY <1>1, <1>2 DEF Directory
  <1>4. \A g \in Grants : HeadOK(g)'
    BY <1>1, <1>2 DEF HeadOK, IsRepository, Partial, Absent
  <1> QED
    BY <1>3, <1>4

(* The undo touches only what the command created.                         *)
LEMMA UndoGood ==
    ASSUME Typed, NEW p \in Procs, Undo(p)
    PROVE  Good(p)
  <1> DEFINE c == command[p]
  <1>1. c.step = "undo" /\ c # Idle /\ c \in Command /\ c.kind = "materialize"
    BY Busy DEF Undo, CommandOK, MaterializeSteps
  <1>2. c.created \in SUBSET Grants /\ c.found \in SUBSET Grants
    BY <1>1 DEF Command
  <1>3. PICK whole \in SUBSET (c.created \intersect Exist),
             part \in SUBSET (c.created \intersect Exist) :
           checkout' = [g \in Grants |->
                          IF g \notin c.created \/ g \in whole THEN checkout[g]
                          ELSE IF g \in part THEN Partial ELSE Absent]
    BY DEF Undo
  <1>4. PICK kept \in SUBSET Grants : kept = {g \in Grants : g \notin c.created \/ g \in whole}
    OBVIOUS
  <1>5. checkout' = [g \in Grants |-> IF g \in kept THEN checkout[g]
                                      ELSE IF g \in part THEN Partial ELSE Absent]
    BY <1>3, <1>4
  <1>6. /\ checkout' \in [Grants -> Directory]
        /\ \A g \in Grants : HeadOK(g)'
        /\ \A g \in kept : checkout'[g] = checkout[g]
    <2>1. part \in SUBSET Grants
      BY <1>2, <1>3
    <2> QED
      BY <1>5, <2>1, Leaves
  <1>7. Finish(p) /\ UNCHANGED <<marker, row, closed>>
    BY DEF Undo
  <1>8. /\ command' \in [Procs -> Command \union {Idle}]
        /\ \A q \in Procs \ {p} : command'[q] = command[q]
        /\ CommandOK(p)' /\ Progress(p)'
    BY <1>7, Ends
  <1>9. Typed'
    BY <1>6, <1>7, <1>8, StepTypes DEF Typed, TypeOK
  <1>10. ASSUME Progress(p) PROVE Kept(p)
    <2>1. \A g \in c.found : g \in kept /\ checkout[g] # Absent
      BY <1>1, <1>2, <1>4, <1>10 DEF Progress
    <2> QED
      BY <1>6, <2>1 DEF Kept, IsRepository
  <1> QED
    BY <1>8, <1>9, <1>10 DEF Good

(* Retirement removes everything before the row is written.                *)
LEMMA RemoveGood ==
    ASSUME Typed, NEW p \in Procs, RemoveTree(p) \/ RemoveFails(p)
    PROVE  Good(p)
  <1> DEFINE c == command[p]
  <1>1. c.step = "remove" /\ c # Idle /\ c.kind = "retire"
    BY Busy DEF RemoveTree, RemoveFails, CommandOK
  <1>2. UNCHANGED <<row, closed>>
    BY DEF RemoveTree, RemoveFails
  <1>3. Kept(p)
    BY <1>1 DEF Kept
  <1>4. CASE RemoveTree(p)
    <2>1. /\ command' \in [Procs -> Command \union {Idle}]
          /\ command'[p] \in Command /\ command'[p].step = "register"
          /\ command'[p].kind = "retire"
          /\ \A q \in Procs \ {p} : command'[q] = command[q]
      BY <1>1, <1>4, GoesTo DEF RemoveTree, Steps
    <2>2. CommandOK(p)'
      BY <2>1 DEF CommandOK, MaterializeSteps, CleanupSteps
    <2>3. checkout' = [g \in Grants |-> Absent] /\ marker' = FALSE
      BY <1>4 DEF RemoveTree
    <2>4. checkout' \in [Grants -> Directory] /\ \A g \in Grants : HeadOK(g)'
      BY <2>3 DEF Directory, HeadOK, IsRepository, Absent
    <2>5. Progress(p)'
      BY <2>1, <2>3 DEF Progress, Exist
    <2>6. Typed'
      BY <1>2, <2>1, <2>2, <2>3, <2>4, StepTypes DEF Typed, TypeOK
    <2> QED
      BY <1>3, <2>5, <2>6 DEF Good
  <1>5. CASE RemoveFails(p)
    <2>1. /\ command' \in [Procs -> Command \union {Idle}]
          /\ \A q \in Procs \ {p} : command'[q] = command[q]
          /\ CommandOK(p)' /\ Progress(p)'
      BY <1>5, Ends DEF RemoveFails
    <2>2. PICK whole \in SUBSET Exist, part \in SUBSET Exist :
             checkout' = [g \in Grants |-> IF g \in whole THEN checkout[g]
                                           ELSE IF g \in part THEN Partial ELSE Absent]
      BY <1>5 DEF RemoveFails
    <2>3. whole \in SUBSET Grants /\ part \in SUBSET Grants
      BY DEF Exist
    <2>4. checkout' \in [Grants -> Directory] /\ \A g \in Grants : HeadOK(g)'
      BY <2>2, <2>3, Leaves
    <2>5. marker' \in BOOLEAN
      BY <1>5 DEF RemoveFails, Typed, TypeOK
    <2>6. Typed'
      BY <1>2, <2>1, <2>4, <2>5, StepTypes DEF Typed, TypeOK
    <2> QED
      BY <1>3, <2>1, <2>6 DEF Good
  <1> QED
    BY <1>4, <1>5

(* So every step of a process is good.                                     *)
LEMMA ProcGood ==
    ASSUME Typed, NEW p \in Procs, Proc(p)
    PROVE  Good(p)
  <1>1. CASE Materialize(p)
    BY <1>1, BeginGood, ExamineGood, CloneGood, FetchGood, SwitchGood, WriteMarkerGood,
       EndGood, MaterializeFailsGood, UndoGood DEF Materialize
  <1>2. CASE Cleanup(p)
    BY <1>2, BeginGood, VerifyGood, CleanGood, DeleteBranchGood, EndGood DEF Cleanup
  <1>3. CASE Retire(p) \/ Abort(p)
    BY <1>3, BeginGood, RemoveGood, EndGood DEF Retire
  <1> QED
    BY <1>1, <1>2, <1>3 DEF Proc

(* People change neither commands nor what commands rely on.               *)
LEMMA PeopleKeep ==
    ASSUME Typed, People \/ UNCHANGED vars
    PROVE  /\ Typed' /\ command' = command /\ row' = row
           /\ \A p \in Procs : Progress(p) => Progress(p)'
  <1>1. CASE UNCHANGED vars
    <2>1. /\ checkout' = checkout /\ marker' = marker /\ row' = row /\ closed' = closed
          /\ command' = command
      BY <1>1 DEF vars
    <2>2. Typed'
      BY <2>1 DEF Typed, TypeOK, CommandOK, IsRepository
    <2>3. \A p \in Procs : Progress(p) => Progress(p)'
      BY <2>1 DEF Progress, Ready, Cleaned, OnTask, IsRepository, Exist, Done
    <2> QED
      BY <2>1, <2>2, <2>3
  <1>2. ASSUME NEW t \in Tasks, CloseTask(t)
        PROVE  /\ Typed' /\ command' = command /\ row' = row
               /\ \A p \in Procs : Progress(p) => Progress(p)'
    <2>1. /\ checkout' = checkout /\ marker' = marker /\ row' = row
          /\ closed' = closed \union {t} /\ command' = command
      BY <1>2 DEF CloseTask
    <2>2. TypeOK'
      BY <2>1 DEF Typed, TypeOK, IsRepository
    <2>3. \A p \in Procs : CommandOK(p)'
      BY <2>1 DEF Typed, CommandOK
    <2>4. \A p \in Procs : Progress(p) => Progress(p)'
      BY <2>1 DEF Progress, Ready, Cleaned, OnTask, IsRepository, Exist, Done
    <2> QED
      BY <2>1, <2>2, <2>3, <2>4 DEF Typed
  <1>3. ASSUME NEW g \in Grants, NEW changes \in {"none", "untracked", "tracked"},
               Work(g, changes)
        PROVE  /\ Typed' /\ command' = command /\ row' = row
               /\ \A p \in Procs : Progress(p) => Progress(p)'
    <2>1. checkout[g] \in Repository /\ IsRepository(g) /\ HeadOK(g)
      BY <1>3, IsIt, DirectoryTypes DEF Work
    <2>2. PICK d \in Repository : d = [checkout[g] EXCEPT !.changes = changes]
      BY <2>1 DEF Repository
    <2>3. /\ d.kind = "repository" /\ d.head = checkout[g].head
          /\ d.branches = checkout[g].branches /\ d.origin = checkout[g].origin
      BY <2>1, <2>2 DEF Repository
    <2>4. /\ checkout' = [checkout EXCEPT ![g] = d]
          /\ UNCHANGED <<marker, row, closed, command>>
      BY <1>3, <2>2 DEF Work
    <2>5. d \in Directory /\ d # Absent
      BY <2>3 DEF Directory, Absent
    <2>6. /\ checkout' \in [Grants -> Directory]
          /\ checkout'[g] = d
          /\ \A h \in Grants \ {g} : checkout'[h] = checkout[h]
          /\ \A h \in Grants : HeadOK(h)'
      BY <2>1, <2>3, <2>4, <2>5, Writes DEF HeadOK
    <2>7. Typed'
      <3>1. TypeOK'
        BY <2>4, <2>6 DEF Typed, TypeOK, Directory, HeadOK
      <3> QED
        BY <2>4, <3>1 DEF Typed, CommandOK
    <2>8. ASSUME NEW p \in Procs, Progress(p) PROVE Progress(p)'
      <3>1. CASE command[p] = Idle
        BY <2>4, <3>1 DEF Progress
      <3>2. CASE command[p] # Idle
        <4>1. /\ command[p] \in Command /\ command[p].grant \in Grants
              /\ command[p].found \subseteq Grants
          BY <3>2, Busy DEF Command
        <4>2. \A h \in Grants : checkout[h] # Absent <=> checkout'[h] # Absent
          BY <2>1, <2>5, <2>6 DEF IsRepository, Absent
        <4>3. Done(command[p])' = Done(command[p]) /\ Done(command[p]) \subseteq Grants
          BY <2>4 DEF Done
        <4>4. \A h \in Grants : /\ IsRepository(h)' <=> IsRepository(h)
                                /\ IsRepository(h) =>
                                      /\ checkout'[h].head = checkout[h].head
                                      /\ checkout'[h].origin = checkout[h].origin
                                      /\ checkout'[h].branches = checkout[h].branches
          BY <2>1, <2>3, <2>6 DEF IsRepository
        <4>5. Exist' = Exist
          BY <4>2 DEF Exist
        <4> QED
          BY <2>4, <2>8, <3>2, <4>1, <4>2, <4>3, <4>4, <4>5 DEF Progress, Ready, Cleaned, OnTask
      <3> QED
        BY <3>1, <3>2
    <2> QED
      BY <2>4, <2>7, <2>8
  <1> QED
    BY <1>1, <1>2, <1>3 DEF People
-----------------------------------------------------------------------------
(* The types hold at first and after every step, for any number of         *)
(* processes; then so does the type invariant.                             *)
LEMMA InitTyped == Init => Typed /\ \A p \in Procs : Progress(p)
  <1> SUFFICES ASSUME Init PROVE Typed /\ \A p \in Procs : Progress(p)
    OBVIOUS
  <1>1. checkout \in [Grants -> Repository \union {Absent, Partial}]
        /\ \A g \in Grants : ~IsRepository(g)
    BY DEF Init, IsRepository, Absent
  <1>2. row \in Row /\ row.task = NoTask /\ row.status = "none"
    BY DEF Init, NoRow, Row
  <1>3. command \in [Procs -> Command \union {Idle}] /\ \A p \in Procs : command[p] = Idle
    BY DEF Init
  <1>4. TypeOK
    BY <1>1, <1>2, <1>3 DEF Init, TypeOK
  <1> QED
    BY <1>3, <1>4 DEF Typed, CommandOK, Progress

(* The types are kept by every step.                                       *)
LEMMA NextTyped == Typed /\ [Next]_vars => Typed'
  BY ProcGood, PeopleKeep DEF Next, Good

(* Type correctness: directories, registry row and commands keep their     *)
(* types, a checkout is on a branch that it has, and only an active row    *)
(* names a task, whatever fails and however many commands run at once.     *)
THEOREM TypeCorrect == Spec => []TypeOK
  <1>1. Typed => TypeOK
    BY DEF Typed
  <1> QED
    BY <1>1, InitTyped, NextTyped, PTL DEF Spec
-----------------------------------------------------------------------------
(* Commands that do not overlap.                                           *)
IInv == Typed /\ \A p \in Procs : Progress(p)

(* A step of one process leaves the commands of the others alone, and is   *)
(* a step into, of or out of a command of its own.                         *)
LEMMA OwnCommand ==
    ASSUME Typed, NEW p \in Procs, Proc(p)
    PROVE  /\ \A q \in Procs \ {p} : command'[q] = command[q]
           /\ command[p] # Idle \/ command'[p] # Idle
  <1> USE DEF Typed, TypeOK
  <1>1. CASE command[p] = Idle
    <2>1. PICK kind, step, t : Begin(p, kind, step, t)
      <3>1. command[p].step = "idle"
        BY <1>1 DEF Idle
      <3> QED
        BY <1>1, <3>1 DEF Proc, Materialize, Cleanup, Retire, BeginMaterialize, BeginCleanup,
           BeginRetire, Examine, Clone, FinishClone, SetOrigin, Fetch, Switch, WriteMarker,
           RegisterActive, MaterializeFails, Undo, Verify, Clean, Detach, DeleteBranch,
           RegisterReady, RemoveTree, RemoveFails, RegisterRetired, Abort
    <2>2. PICK d : /\ d = [kind |-> kind, step |-> step, task |-> t, grant |-> 1,
                           created |-> {}, found |-> Exist]
                   /\ command' = [command EXCEPT ![p] = d]
      BY <2>1 DEF Begin
    <2>3. d # Idle
      BY <2>2 DEF Idle
    <2> QED
      BY <2>2, <2>3
  <1>2. CASE command[p] # Idle
    <2>1. CASE Examine(p)
      BY <1>2, <2>1 DEF Examine
    <2>2. CASE ~Examine(p)
      <3>1. \/ \E s : Goto(p, s)
            \/ \E first, after : NextGrant(p, first, after)
            \/ Finish(p)
        BY <1>2, <2>2 DEF Proc, Materialize, Cleanup, Retire, BeginMaterialize, BeginCleanup,
           BeginRetire, Begin, Clone, FinishClone, SetOrigin, Fetch, Switch, WriteMarker,
           RegisterActive, MaterializeFails, Undo, Verify, Clean, Detach, DeleteBranch,
           RegisterReady, RemoveTree, RemoveFails, RegisterRetired, Abort
      <3> QED
        BY <1>2, <3>1 DEF Goto, NextGrant, Finish
    <2> QED
      BY <2>1, <2>2
  <1> QED
    BY <1>1, <1>2

(* A row that is written is true.                                          *)
LEMMA WritesTruth ==
    ASSUME Typed, NEW p \in Procs, Progress(p), Proc(p)
    PROVE  Truthful
  <1> DEFINE c == command[p]
  <1>1. CASE RegisterActive(p)
    <2>1. c # Idle /\ c.kind = "materialize" /\ c.step = "register"
      BY <1>1, Busy DEF RegisterActive
    <2>2. \A g \in Grants : Ready(g, c.task)
      BY <2>1 DEF Progress, Done
    <2>3. row'.status = "active" /\ row'.task = c.task
      BY <1>1 DEF RegisterActive
    <2> QED
      BY <2>2, <2>3 DEF Truthful, Ready
  <1>2. CASE RegisterReady(p)
    <2>1. c # Idle /\ c.kind = "cleanup" /\ c.step = "register"
      BY <1>2, Busy DEF RegisterReady
    <2>2. \A g \in Grants : Cleaned(g, c.task)
      BY <2>1 DEF Progress, Done
    <2>3. row'.status = "ready"
      BY <1>2 DEF RegisterReady, ClearedRow
    <2> QED
      BY <2>1, <2>2, <2>3 DEF Truthful, Cleaned
  <1>3. CASE RegisterRetired(p)
    <2>1. c # Idle /\ c.kind = "retire" /\ c.step = "register"
      BY <1>3, Busy DEF RegisterRetired
    <2>2. Exist = {} /\ ~marker
      BY <2>1 DEF Progress
    <2>3. row'.status = "retired"
      BY <1>3 DEF RegisterRetired
    <2> QED
      BY <2>2, <2>3 DEF Truthful
  <1>4. CASE ~(RegisterActive(p) \/ RegisterReady(p) \/ RegisterRetired(p))
    <2>1. row' = row
      BY <1>4 DEF Proc, Materialize, Cleanup, Retire, BeginMaterialize, BeginCleanup,
         BeginRetire, Begin, Examine, Clone, FinishClone, SetOrigin, Fetch, Switch,
         WriteMarker, MaterializeFails, Undo, Verify, Clean, Detach, DeleteBranch,
         RemoveTree, RemoveFails, Abort
    <2> QED
      BY <2>1 DEF Truthful
  <1> QED
    BY <1>1, <1>2, <1>3, <1>4

(* What one step keeps, and what it may do: at most one process is in a    *)
(* command before it and after it, so that nobody else's progress is lost. *)
LEMMA NextKeeps ==
    ASSUME IInv, OneCommand, OneCommand', [Next]_vars
    PROVE  IInv' /\ (\A p \in Procs : Kept(p)) /\ Truthful
  <1>1. CASE People \/ UNCHANGED vars
    BY <1>1, PeopleKeep DEF IInv, Kept, Truthful
  <1>2. ASSUME NEW p \in Procs, Proc(p)
        PROVE  IInv' /\ (\A q \in Procs : Kept(q)) /\ Truthful
    <2>1. Typed' /\ Progress(p)' /\ Kept(p) /\ Truthful
      BY <1>2, ProcGood, WritesTruth DEF IInv, Good
    <2>2. \A q \in Procs \ {p} : command'[q] = command[q] /\ command'[q] = Idle
      BY <1>2, OwnCommand DEF IInv, OneCommand
    <2>3. \A q \in Procs \ {p} : Progress(q)' /\ Kept(q)
      BY <2>2 DEF Progress, Kept
    <2> QED
      BY <2>1, <2>3 DEF IInv
  <1> QED
    BY <1>1, <1>2 DEF Next

(* As long as no two commands overlap, materialize and cleanup keep every  *)
(* checkout that they found, its tracked edits and the branches of open    *)
(* tasks, whatever fails, for any number of grants.                        *)
THEOREM KeepsWhatItFoundCorrect == Spec /\ []OneCommand => KeepsWhatItFound
  <1>1. Init => IInv
    BY InitTyped DEF IInv
  <1>2. IInv /\ OneCommand /\ OneCommand' /\ [Next]_vars => IInv'
    BY NextKeeps
  <1>3. IInv /\ OneCommand /\ OneCommand' /\ [Next]_vars => [\A p \in Procs : Kept(p)]_vars
    BY NextKeeps
  <1>4. IInv /\ []OneCommand /\ [][Next]_vars => [][\A p \in Procs : Kept(p)]_vars
    BY <1>2, <1>3, PTL
  <1>5. [][\A p \in Procs : Kept(p)]_vars => KeepsWhatItFound
    BY DEF KeepsWhatItFound, Kept
  <1> QED
    BY <1>1, <1>4, <1>5, PTL DEF Spec

(* As long as no two commands overlap, what is written to the registry is  *)
(* true of every grant, although earlier commands may have died half way.  *)
THEOREM RegistryTruthfulCorrect == Spec /\ []OneCommand => RegistryTruthful
  <1>1. Init => IInv
    BY InitTyped DEF IInv
  <1>2. IInv /\ OneCommand /\ OneCommand' /\ [Next]_vars => IInv'
    BY NextKeeps
  <1>3. IInv /\ OneCommand /\ OneCommand' /\ [Next]_vars => [Truthful]_vars
    BY NextKeeps
  <1>4. IInv /\ []OneCommand /\ [][Next]_vars => [][Truthful]_vars
    BY <1>2, <1>3, PTL
  <1>5. [][Truthful]_vars => RegistryTruthful
    BY DEF RegistryTruthful, Truthful
  <1> QED
    BY <1>1, <1>4, <1>5, PTL DEF Spec
=============================================================================
