------------------------------ MODULE Deploy_proof ------------------------------
(***************************************************************************)
(* Module Deploy, for any number of revisions, snapshots and processes:    *)
(* its type invariant, that metadata.json claims only what succeeded, and  *)
(* that a deploy has its snapshot before it touches the cluster.  As long  *)
(* as no two commands apply at the same time: that Helm is only called     *)
(* under the isolation of the same revision, and that rollback leaves the  *)
(* catalog where the cluster is.                                           *)
(*                                                                         *)
(* The inductive invariant says how far each running deploy has come       *)
(* (Sound), that no two of them have one snapshot (Apart), and that        *)
(* metadata is only found in a snapshot that has its catalog (Filled).     *)
(***************************************************************************)
EXTENDS Deploy, TLAPS

Deploying(p) == command[p] # Idle /\ command[p].kind = "deploy"

(* What a running deploy has written so far, and what it has not.          *)
Sound(p) ==
    LET c == command[p] IN
    Deploying(p) =>
        /\ c.step # "catalog"
        /\ c.step \in {"copy", "plan", "metadata"} => metadata[c.snapshot] = {}
        /\ c.step \in {"copy", "plan", "metadata"} => c.phase # "workload"
        /\ c.step # "copy" => c.snapshot \in Existing
        /\ c.step \notin {"copy", "plan"} => plan[c.snapshot] = c.revision
        /\ c.step \in {"apply", "mark", "applied", "failed"} =>
              "created" \in metadata[c.snapshot]
        /\ "applied" \notin metadata[c.snapshot] /\ "failed" \notin metadata[c.snapshot]
        /\ c.step = "mark" => c.phase \in performed[c.snapshot]
        /\ c.step \in {"apply", "mark"} /\ c.phase = "workload" =>
              "isolation" \in metadata[c.snapshot]
        /\ c.step = "applied" => {"isolation", "workload"} \subseteq metadata[c.snapshot]

Apart ==
    \A p, q \in Procs :
        Deploying(p) /\ Deploying(q) /\ p # q => command[p].snapshot # command[q].snapshot

Filled == \A s \in Snapshots : metadata[s] # {} => s \in Existing

(* The conjuncts of the type invariant: files, and commands.               *)
FilesOK ==
    /\ catalog \in Revisions
    /\ saved \in [Snapshots -> Revisions \union {NoRevision}]
    /\ plan \in [Snapshots -> Revisions \union {NoRevision}]
    /\ metadata \in [Snapshots -> SUBSET Marks]
    /\ cluster \in [Phases -> Revisions \union {NoRevision, Mixed}]
    /\ performed \in [Snapshots -> SUBSET Phases]

RollbackOK(p) ==
    command[p] # Idle /\ command[p].kind = "rollback" =>
        /\ command[p].step \in {"apply", "catalog"}
        /\ command[p].phase # "secrets" /\ command[p].snapshot \in Existing

Honest(s) ==
    /\ metadata[s] \intersect Phases \subseteq performed[s]
    /\ "applied" \in metadata[s] =>
          "failed" \notin metadata[s] /\ {"isolation", "workload"} \subseteq metadata[s]

IInv == TypeOK /\ (\A p \in Procs : Sound(p)) /\ Apart /\ Filled /\ MetadataHonest
-----------------------------------------------------------------------------
(* The type invariant and MetadataHonest by their parts.                   *)
LEMMA TypeParts ==
    TypeOK <=> /\ FilesOK /\ command \in [Procs -> Command \union {Idle}]
               /\ \A p \in Procs : RollbackOK(p)
  BY DEF TypeOK, FilesOK, RollbackOK

(* The same of MetadataHonest, snapshot by snapshot.                       *)
LEMMA HonestParts == MetadataHonest <=> \A s \in Snapshots : Honest(s)
  BY DEF MetadataHonest, Honest

(* A process that is at a step has a full command.                         *)
LEMMA Busy ==
    ASSUME TypeOK, NEW p \in Procs, command[p].step # "idle" \/ command[p] # Idle
    PROVE  command[p] # Idle /\ command[p] \in Command /\ command[p].step # "idle"
  BY DEF TypeOK, Idle, Command, Steps

(* How the command of a process changes: to a new one, ...                 *)
LEMMA Becomes ==
    ASSUME TypeOK, NEW p \in Procs, NEW d \in Command \union {Idle},
           command' = [command EXCEPT ![p] = d]
    PROVE  /\ command' \in [Procs -> Command \union {Idle}]
           /\ command'[p] = d
           /\ \A q \in Procs \ {p} : command'[q] = command[q]
  BY DEF TypeOK

(* ... to another step of the same one, ...                                *)
LEMMA GoesTo ==
    ASSUME TypeOK, NEW p \in Procs, command[p] # Idle, NEW s \in Steps, Goto(p, s)
    PROVE  /\ command' \in [Procs -> Command \union {Idle}]
           /\ command'[p] \in Command /\ command'[p].step = s
           /\ command'[p].kind = command[p].kind
           /\ command'[p].phase = command[p].phase
           /\ command'[p].snapshot = command[p].snapshot
           /\ command'[p].revision = command[p].revision
           /\ \A q \in Procs \ {p} : command'[q] = command[q]
  <1>1. command[p] \in Command
    BY DEF TypeOK
  <1>2. [command[p] EXCEPT !.step = s] \in Command
    BY <1>1 DEF Command
  <1>3. command' = [command EXCEPT ![p] = [command[p] EXCEPT !.step = s]]
    BY DEF Goto
  <1>4. /\ command' \in [Procs -> Command \union {Idle}]
        /\ command'[p] = [command[p] EXCEPT !.step = s]
        /\ \A q \in Procs \ {p} : command'[q] = command[q]
    BY <1>2, <1>3, Becomes
  <1> QED
    BY <1>1, <1>2, <1>4 DEF Command

(* ... or to nothing.                                                      *)
LEMMA Ends ==
    ASSUME TypeOK, NEW p \in Procs, Finish(p)
    PROVE  /\ command' \in [Procs -> Command \union {Idle}]
           /\ command'[p] = Idle
           /\ \A q \in Procs \ {p} : command'[q] = command[q]
  BY Becomes DEF Finish
-----------------------------------------------------------------------------
(* A step that leaves the snapshots alone.                                 *)
LEMMA SnapshotsAlone ==
    ASSUME IInv, NEW p \in Procs,
           UNCHANGED <<saved, plan, metadata>>,
           performed' \in [Snapshots -> SUBSET Phases],
           \A s \in Snapshots : performed[s] \subseteq performed'[s],
           catalog' \in Revisions,
           cluster' \in [Phases -> Revisions \union {NoRevision, Mixed}],
           command' \in [Procs -> Command \union {Idle}],
           \A q \in Procs \ {p} : command'[q] = command[q],
           Deploying(p)' => Deploying(p) /\ command'[p].snapshot = command[p].snapshot,
           Sound(p)', RollbackOK(p)'
    PROVE  IInv'
  <1> USE DEF IInv
  <1>1. Existing' = Existing
    BY DEF Existing
  <1>2. FilesOK'
    BY TypeParts DEF FilesOK
  <1>3. \A q \in Procs : RollbackOK(q)'
    BY <1>1, TypeParts DEF RollbackOK
  <1>4. TypeOK'
    BY <1>2, <1>3, TypeParts DEF TypeOK, FilesOK, RollbackOK
  <1>5. ASSUME NEW q \in Procs, q # p
        PROVE  Sound(q)'
    <2>1. Sound(q) /\ command'[q] = command[q]
      BY <1>5
    <2>2. Deploying(q) => command[q].snapshot \in Snapshots
      BY DEF Deploying, TypeOK, Command
    <2> QED
      BY <1>1, <2>1, <2>2 DEF Sound, Deploying
  <1>6. Apart'
    BY DEF Apart, Deploying
  <1>7. Filled'
    BY <1>1 DEF Filled
  <1>8. MetadataHonest'
    BY DEF MetadataHonest
  <1> QED
    BY <1>4, <1>5, <1>6, <1>7, <1>8

(* A step of a deploy that writes in its own snapshot s.                   *)
LEMMA OwnSnapshot ==
    ASSUME IInv, NEW p \in Procs, NEW s \in Snapshots,
           \A q \in Procs \ {p} : Deploying(q) => command[q].snapshot # s,
           UNCHANGED <<catalog, cluster, performed>>,
           saved' \in [Snapshots -> Revisions \union {NoRevision}],
           plan' \in [Snapshots -> Revisions \union {NoRevision}],
           metadata' \in [Snapshots -> SUBSET Marks],
           Existing \subseteq Existing',
           \A r \in Snapshots \ {s} : plan'[r] = plan[r] /\ metadata'[r] = metadata[r],
           command' \in [Procs -> Command \union {Idle}],
           \A q \in Procs \ {p} : command'[q] = command[q],
           Deploying(p)' => command'[p].snapshot = s,
           Sound(p)', RollbackOK(p)', Honest(s)',
           metadata'[s] # {} => s \in Existing'
    PROVE  IInv'
  <1> USE DEF IInv
  <1>2. FilesOK'
    BY TypeParts DEF FilesOK
  <1>3. \A q \in Procs : RollbackOK(q)'
    BY TypeParts DEF RollbackOK
  <1>4. TypeOK'
    BY <1>2, <1>3 DEF TypeOK, FilesOK, RollbackOK
  <1>5. ASSUME NEW q \in Procs, q # p
        PROVE  Sound(q)'
    <2>1. Sound(q) /\ command'[q] = command[q]
      BY <1>5
    <2>2. Deploying(q) => command[q].snapshot \in Snapshots \ {s}
      BY <1>5 DEF Deploying, TypeOK, Command
    <2> QED
      BY <2>1, <2>2 DEF Sound, Deploying
  <1>6. Apart'
    BY DEF Apart, Deploying
  <1>7. Filled'
    BY DEF Filled
  <1>8. MetadataHonest'
    <2>1. \A r \in Snapshots \ {s} : Honest(r)'
      BY HonestParts DEF Honest
    <2>2. \A r \in Snapshots : Honest(r)'
      BY <2>1
    <2> QED
      BY <2>2 DEF MetadataHonest, Honest
  <1> QED
    BY <1>4, <1>5, <1>6, <1>7, <1>8
-----------------------------------------------------------------------------
(* A deploy begins with a snapshot of its own that has no catalog yet.     *)
LEMMA BeginDeployKeeps ==
    ASSUME IInv, NEW p \in Procs, NEW s \in Snapshots, NEW confirmed \in BOOLEAN,
           NEW withSecrets \in BOOLEAN, BeginDeploy(p, s, confirmed, withSecrets)
    PROVE  IInv'
  <1> USE DEF IInv
  <1> DEFINE d == [kind |-> "deploy", step |-> FirstStep,
                   phase |-> IF withSecrets THEN "secrets" ELSE "isolation",
                   snapshot |-> s, revision |-> catalog, confirmed |-> confirmed]
  <1>1. /\ d \in Command /\ d.step = "copy" /\ d.kind = "deploy" /\ d.snapshot = s
        /\ d.phase # "workload"
        /\ command' = [command EXCEPT ![p] = d]
        /\ s \notin Existing
    BY DEF BeginDeploy, FirstStep, Command, Steps, Phases, TypeOK
  <1> HIDE DEF d
  <1>2. /\ command' \in [Procs -> Command \union {Idle}]
        /\ command'[p] = d
        /\ \A q \in Procs \ {p} : command'[q] = command[q]
    BY <1>1, Becomes
  <1>3. metadata[s] = {}
    BY <1>1 DEF Filled
  <1>4. \A q \in Procs \ {p} : Deploying(q) => command[q].snapshot # s
    BY DEF BeginDeploy, Deploying
  <1>5. UNCHANGED <<catalog, saved, plan, metadata, cluster, performed>>
    BY DEF BeginDeploy
  <1>6. Sound(p)' /\ RollbackOK(p)'
    BY <1>1, <1>2, <1>3, <1>5 DEF Sound, RollbackOK
  <1>7. Honest(s)'
    BY <1>3, <1>5 DEF Honest
  <1> QED
    BY <1>1, <1>2, <1>3, <1>4, <1>5, <1>6, <1>7, OwnSnapshot DEF TypeOK, Existing

(* What a deploy that writes in its snapshot knows of it.                  *)
LEMMA Writing ==
    ASSUME IInv, NEW p \in Procs,
           command[p].step \in {"copy", "plan", "metadata", "mark", "applied", "failed"}
    PROVE  /\ command[p] # Idle /\ command[p] \in Command /\ Deploying(p)
           /\ command[p].snapshot \in Snapshots
           /\ \A q \in Procs \ {p} : Deploying(q) => command[q].snapshot # command[p].snapshot
  <1>1. command[p] # Idle /\ command[p] \in Command
    BY Busy DEF IInv
  <1>2. command[p].kind # "rollback"
    BY <1>1 DEF IInv, TypeOK
  <1> QED
    BY <1>1, <1>2 DEF IInv, Deploying, Command, Apart

(* The snapshot gets its catalog.yaml.                                     *)
LEMMA CopyCatalogKeeps ==
    ASSUME IInv, NEW p \in Procs, CopyCatalog(p)
    PROVE  IInv'
  <1> USE DEF IInv
  <1> DEFINE c == command[p]
  <1>0. PICK s \in Snapshots : s = command[p].snapshot
    BY Writing DEF CopyCatalog
  <1>1. /\ c.step = "copy" /\ c # Idle /\ Deploying(p) /\ s = c.snapshot
        /\ \A q \in Procs \ {p} : Deploying(q) => command[q].snapshot # s
    BY <1>0, Writing DEF CopyCatalog
  <1>2. /\ command' \in [Procs -> Command \union {Idle}]
        /\ command'[p].step = "plan" /\ command'[p].kind = c.kind
        /\ command'[p].phase = c.phase
        /\ command'[p].snapshot = s
        /\ \A q \in Procs \ {p} : command'[q] = command[q]
    BY <1>1, GoesTo DEF CopyCatalog, Steps
  <1>3. UNCHANGED <<catalog, plan, metadata, cluster, performed>>
    BY DEF CopyCatalog
  <1>4. /\ saved' \in [Snapshots -> Revisions \union {NoRevision}]
        /\ Existing' = Existing \union {s}
    BY <1>1, DeployAssumption DEF CopyCatalog, TypeOK, Existing
  <1>5. Sound(p)'
    BY <1>1, <1>2, <1>3, <1>4 DEF Sound, Deploying
  <1>5a. RollbackOK(p)' /\ Honest(s)'
    BY <1>1, <1>2, <1>3, <1>4, HonestParts DEF RollbackOK, Deploying, Honest
  <1> QED
    BY <1>1, <1>2, <1>3, <1>4, <1>5, <1>5a, OwnSnapshot DEF TypeOK

(* ... its plan ...                                                        *)
LEMMA WritePlanKeeps ==
    ASSUME IInv, NEW p \in Procs, WritePlan(p)
    PROVE  IInv'
  <1> USE DEF IInv
  <1> DEFINE c == command[p]
  <1>0. PICK s \in Snapshots : s = command[p].snapshot
    BY Writing DEF WritePlan
  <1>1. /\ c.step = "plan" /\ c # Idle /\ c \in Command /\ Deploying(p) /\ s = c.snapshot
        /\ \A q \in Procs \ {p} : Deploying(q) => command[q].snapshot # s
    BY <1>0, Writing DEF WritePlan
  <1>2. /\ command' \in [Procs -> Command \union {Idle}]
        /\ command'[p].step = "metadata" /\ command'[p].kind = c.kind
        /\ command'[p].phase = c.phase
        /\ command'[p].snapshot = s /\ command'[p].revision = c.revision
        /\ \A q \in Procs \ {p} : command'[q] = command[q]
    BY <1>1, GoesTo DEF WritePlan, Steps
  <1>3. UNCHANGED <<catalog, saved, metadata, cluster, performed>> /\ Existing' = Existing
    BY DEF WritePlan, Existing
  <1>4. /\ plan' \in [Snapshots -> Revisions \union {NoRevision}]
        /\ plan'[s] = c.revision
        /\ \A r \in Snapshots \ {s} : plan'[r] = plan[r]
    BY <1>1 DEF WritePlan, TypeOK, Command
  <1>5. Sound(p)'
    BY <1>1, <1>2, <1>3, <1>4 DEF Sound, Deploying
  <1>5a. RollbackOK(p)' /\ Honest(s)'
    BY <1>1, <1>2, <1>3, <1>4, HonestParts DEF RollbackOK, Deploying, Honest
  <1>6. metadata'[s] # {} => s \in Existing'
    BY <1>1, <1>3 DEF Filled
  <1> QED
    BY <1>1, <1>2, <1>3, <1>4, <1>5, <1>5a, <1>6, OwnSnapshot DEF TypeOK

(* ... and its metadata.                                                   *)
LEMMA WriteMetadataKeeps ==
    ASSUME IInv, NEW p \in Procs, WriteMetadata(p)
    PROVE  IInv'
  <1> USE DEF IInv
  <1> DEFINE c == command[p]
  <1>0. PICK s \in Snapshots : s = command[p].snapshot
    BY Writing DEF WriteMetadata
  <1>1. /\ c.step = "metadata" /\ c # Idle /\ c \in Command /\ Deploying(p) /\ s = c.snapshot
        /\ \A q \in Procs \ {p} : Deploying(q) => command[q].snapshot # s
    BY <1>0, Writing DEF WriteMetadata
  <1>2. /\ command' \in [Procs -> Command \union {Idle}]
        /\ \A q \in Procs \ {p} : command'[q] = command[q]
        /\ \/ command'[p] = Idle
           \/ /\ command'[p].step = "apply" /\ command'[p].kind = c.kind
              /\ command'[p].phase = c.phase
              /\ command'[p].snapshot = s /\ command'[p].revision = c.revision
    <2>1. CASE c.confirmed
      BY <1>1, <2>1, GoesTo DEF WriteMetadata, Steps
    <2>2. CASE ~c.confirmed
      BY <1>1, <2>2, Ends DEF WriteMetadata
    <2> QED
      BY <2>1, <2>2
  <1>3. UNCHANGED <<catalog, saved, plan, cluster, performed>> /\ Existing' = Existing
    BY DEF WriteMetadata, Existing
  <1>4. /\ metadata' \in [Snapshots -> SUBSET Marks]
        /\ metadata'[s] = {"created"}
        /\ \A r \in Snapshots \ {s} : metadata'[r] = metadata[r]
    BY <1>1 DEF WriteMetadata, TypeOK, Marks
  <1>5. s \in Existing /\ plan[s] = c.revision /\ c.phase # "workload"
    BY <1>1 DEF Sound
  <1>6. Sound(p)'
    BY <1>1, <1>2, <1>3, <1>4, <1>5 DEF Sound, Deploying
  <1>6a. RollbackOK(p)' /\ Honest(s)'
    BY <1>1, <1>2, <1>3, <1>4, <1>5 DEF RollbackOK, Deploying, Honest, Phases, Idle
  <1> QED
    BY <1>1, <1>2, <1>3, <1>4, <1>5, <1>6, <1>6a, OwnSnapshot DEF TypeOK, Deploying, Idle
-----------------------------------------------------------------------------
(* A phase that succeeded is the one that is marked next, or the way on    *)
(* for a rollback.                                                         *)
LEMMA ApplyKeeps ==
    ASSUME IInv, NEW p \in Procs, Apply(p)
    PROVE  IInv'
  <1> USE DEF IInv
  <1> DEFINE c == command[p]
             d == AfterPhase(command[p])
  <1>1. c.step = "apply" /\ c # Idle /\ c \in Command /\ c.step # "idle"
    BY Busy DEF Apply
  <1>2. /\ c.kind \in {"deploy", "rollback"} /\ c.phase \in Phases
        /\ c.snapshot \in Snapshots /\ c.revision \in Revisions
    BY <1>1 DEF Command
  <1>3. /\ d \in Command /\ d # Idle /\ d.snapshot = c.snapshot /\ d.kind = c.kind
        /\ d.revision = c.revision
        /\ c.kind = "deploy" => d.step = "mark" /\ d.phase = c.phase
        /\ c.kind = "rollback" => d.step \in {"apply", "catalog"} /\ d.phase = "workload"
    <2>1. CASE c.kind = "deploy"
      BY <1>1, <2>1 DEF AfterPhase, Command, Steps, Idle
    <2>2. CASE c.kind = "rollback" /\ c.phase = "isolation"
      BY <1>1, <2>2 DEF AfterPhase, Command, Steps, Phases, Idle
    <2>3. CASE c.kind = "rollback" /\ c.phase = "workload"
      BY <1>1, <2>3 DEF AfterPhase, Command, Steps, Idle
    <2> QED
      BY <1>1, <1>2, <2>1, <2>2, <2>3 DEF TypeOK, Phases
  <1>4. command' = [command EXCEPT ![p] = d]
    BY DEF Apply
  <1>5. PICK e \in Command : e = d
    BY <1>3
  <1> HIDE DEF d
  <1>6. /\ command' \in [Procs -> Command \union {Idle}]
        /\ command'[p] = e
        /\ \A q \in Procs \ {p} : command'[q] = command[q]
    BY <1>4, <1>5, Becomes
  <1>7. /\ UNCHANGED <<catalog, saved, plan, metadata>> /\ Existing' = Existing
        /\ cluster' \in [Phases -> Revisions \union {NoRevision, Mixed}]
    BY <1>2 DEF Apply, TypeOK, Existing
  <1>8. /\ performed' \in [Snapshots -> SUBSET Phases]
        /\ \A s \in Snapshots : performed[s] \subseteq performed'[s]
        /\ c.kind = "deploy" => c.phase \in performed'[c.snapshot]
    BY <1>2 DEF Apply, TypeOK
  <1>9. RollbackOK(p)'
    BY <1>1, <1>2, <1>3, <1>5, <1>6, <1>7 DEF RollbackOK, TypeOK, Idle
  <1>10. Sound(p)'
    <2>1. CASE c.kind = "rollback"
      BY <1>3, <1>5, <1>6, <2>1 DEF Sound, Deploying
    <2>2. CASE c.kind = "deploy"
      BY <1>1, <1>3, <1>5, <1>6, <1>7, <1>8, <2>2 DEF Sound, Deploying
    <2> QED
      BY <1>2, <2>1, <2>2
  <1>11. Deploying(p)' => Deploying(p) /\ command'[p].snapshot = command[p].snapshot
    BY <1>1, <1>3, <1>5, <1>6 DEF Deploying
  <1> QED
    BY <1>6, <1>7, <1>8, <1>9, <1>10, <1>11, SnapshotsAlone DEF TypeOK

(* A phase that fails, and a mark that cannot be written, end a rollback   *)
(* and send a deploy to its failure mark.                                  *)
LEMMA FailsKeep ==
    ASSUME IInv, NEW p \in Procs, ApplyFails(p) \/ MarkFails(p)
    PROVE  IInv'
  <1> USE DEF IInv
  <1> DEFINE c == command[p]
  <1>1. /\ c.step \in {"apply", "mark"} /\ c # Idle /\ c \in Command
        /\ c.kind \in {"deploy", "rollback"} /\ c.phase \in Phases
        /\ c.step = "mark" => c.kind = "deploy"
    BY Busy DEF ApplyFails, MarkFails, Command, TypeOK
  <1>2. /\ UNCHANGED <<catalog, saved, plan, metadata, performed>> /\ Existing' = Existing
    BY DEF ApplyFails, MarkFails, Existing
  <1>3. cluster' \in [Phases -> Revisions \union {NoRevision, Mixed}]
    <2>1. CASE ApplyFails(p)
      <3>1. PICK r \in {cluster[c.phase], Mixed, c.revision} :
               cluster' = [cluster EXCEPT ![c.phase] = r]
        BY <2>1 DEF ApplyFails
      <3>2. r \in Revisions \union {NoRevision, Mixed}
        BY <1>1 DEF TypeOK, Command
      <3> QED
        BY <3>1, <3>2 DEF TypeOK
    <2>2. CASE MarkFails(p)
      BY <2>2 DEF MarkFails, TypeOK
    <2> QED
      BY <2>1, <2>2
  <1>4. CASE c.kind = "deploy"
    <2>1. Goto(p, "failed")
      BY <1>4 DEF ApplyFails, MarkFails
    <2>2. /\ command' \in [Procs -> Command \union {Idle}]
          /\ command'[p].step = "failed" /\ command'[p].kind = c.kind
          /\ command'[p].snapshot = c.snapshot /\ command'[p].revision = c.revision
          /\ \A q \in Procs \ {p} : command'[q] = command[q]
      BY <1>1, <2>1, GoesTo DEF Steps
    <2>3. Sound(p)' /\ RollbackOK(p)'
      BY <1>1, <1>2, <1>4, <2>2 DEF Sound, RollbackOK, Deploying
    <2>4. Deploying(p)' => Deploying(p) /\ command'[p].snapshot = command[p].snapshot
      BY <1>1, <1>4, <2>2 DEF Deploying
    <2> QED
      BY <1>2, <1>3, <2>2, <2>3, <2>4, SnapshotsAlone DEF TypeOK
  <1>5. CASE c.kind = "rollback"
    <2>1. Finish(p)
      BY <1>1, <1>5 DEF ApplyFails, MarkFails
    <2>2. /\ command' \in [Procs -> Command \union {Idle}]
          /\ command'[p] = Idle
          /\ \A q \in Procs \ {p} : command'[q] = command[q]
      BY <2>1, Ends
    <2>3. Sound(p)' /\ RollbackOK(p)' /\ ~Deploying(p)'
      BY <2>2 DEF Sound, RollbackOK, Deploying, Idle
    <2> QED
      BY <1>2, <1>3, <2>2, <2>3, SnapshotsAlone DEF TypeOK
  <1> QED
    BY <1>1, <1>4, <1>5

(* A command that stops leaves everything as it is.                        *)
LEMMA AbortKeeps ==
    ASSUME IInv, NEW p \in Procs, Abort(p)
    PROVE  IInv'
  <1> USE DEF IInv
  <1>1. /\ command' \in [Procs -> Command \union {Idle}]
        /\ command'[p] = Idle
        /\ \A q \in Procs \ {p} : command'[q] = command[q]
    BY Ends DEF Abort
  <1>2. Sound(p)' /\ RollbackOK(p)' /\ ~Deploying(p)'
    BY <1>1 DEF Sound, RollbackOK, Deploying, Idle
  <1> QED
    BY <1>1, <1>2, SnapshotsAlone DEF Abort, TypeOK

(* Rollback takes the catalog of a snapshot that is there ...              *)
LEMMA BeginRollbackKeeps ==
    ASSUME IInv, NEW p \in Procs, NEW s \in Snapshots, BeginRollback(p, s)
    PROVE  IInv'
  <1> USE DEF IInv
  <1> DEFINE d == [kind |-> "rollback", step |-> RollbackStep, phase |-> RollbackPhase,
                   snapshot |-> s, revision |-> saved[s], confirmed |-> TRUE]
  <1>1. /\ d \in Command /\ d.step = "apply" /\ d.kind = "rollback" /\ d.snapshot = s
        /\ d.phase = "isolation"
        /\ command' = [command EXCEPT ![p] = d] /\ s \in Existing
    BY DEF BeginRollback, RollbackStep, RollbackPhase, Command, Steps, Phases, TypeOK,
           Existing
  <1>2. PICK e \in Command : e = d
    BY <1>1
  <1> HIDE DEF d
  <1>3. /\ command' \in [Procs -> Command \union {Idle}]
        /\ command'[p] = e
        /\ \A q \in Procs \ {p} : command'[q] = command[q]
    BY <1>1, <1>2, Becomes
  <1>4. UNCHANGED <<catalog, saved, plan, metadata, cluster, performed>>
        /\ Existing' = Existing
    BY DEF BeginRollback, Existing
  <1>5. Sound(p)' /\ RollbackOK(p)' /\ ~Deploying(p)'
    BY <1>1, <1>2, <1>3, <1>4 DEF Sound, RollbackOK, Deploying
  <1> QED
    BY <1>3, <1>4, <1>5, SnapshotsAlone DEF TypeOK

(* ... and ends by making it the active one.                               *)
LEMMA ReplaceCatalogKeeps ==
    ASSUME IInv, NEW p \in Procs, ReplaceCatalog(p)
    PROVE  IInv'
  <1> USE DEF IInv
  <1>1. /\ command[p].step = "catalog" /\ command[p] # Idle /\ command[p] \in Command
    BY Busy DEF ReplaceCatalog
  <1>2. command[p].kind = "rollback"
    BY <1>1 DEF Sound, Deploying, Command
  <1>3. catalog' \in Revisions
    BY <1>1, <1>2 DEF ReplaceCatalog, TypeOK, Existing
  <1>4. /\ command' \in [Procs -> Command \union {Idle}]
        /\ command'[p] = Idle
        /\ \A q \in Procs \ {p} : command'[q] = command[q]
    BY Ends DEF ReplaceCatalog
  <1>5. Sound(p)' /\ RollbackOK(p)' /\ ~Deploying(p)'
    BY <1>4 DEF Sound, RollbackOK, Deploying, Idle
  <1> QED
    BY <1>3, <1>4, <1>5, SnapshotsAlone DEF ReplaceCatalog, TypeOK

(* Nothing in the invariant depends on the active catalog.                 *)
LEMMA EditKeeps ==
    ASSUME IInv, (\E r \in Revisions : Edit(r)) \/ UNCHANGED vars
    PROVE  IInv'
  <1> USE DEF IInv
  <1>1. /\ UNCHANGED <<saved, plan, metadata, cluster, command, performed>>
        /\ catalog' \in Revisions /\ Existing' = Existing
    BY DEF Edit, vars, TypeOK, Existing
  <1>2. TypeOK'
    BY <1>1 DEF TypeOK
  <1>3. \A p \in Procs : Sound(p)'
    BY <1>1 DEF Sound, Deploying
  <1>4. Apart' /\ Filled' /\ MetadataHonest'
    BY <1>1 DEF Apart, Deploying, Filled, MetadataHonest
  <1> QED
    BY <1>2, <1>3, <1>4
-----------------------------------------------------------------------------
(* A mark claims the phase that has just succeeded.                        *)
LEMMA MarkKeeps ==
    ASSUME IInv, NEW p \in Procs, Mark(p)
    PROVE  IInv'
  <1> USE DEF IInv
  <1> DEFINE c == command[p]
  <1>0. PICK s \in Snapshots : s = command[p].snapshot
    BY Writing DEF Mark
  <1>1. /\ c.step = "mark" /\ c # Idle /\ c \in Command /\ Deploying(p) /\ s = c.snapshot
        /\ \A q \in Procs \ {p} : Deploying(q) => command[q].snapshot # s
    BY <1>0, Writing DEF Mark
  <1>2. PICK d \in Command : d = AfterMark(command[p])
    BY <1>1 DEF AfterMark, Command, Steps, Phases
  <1>3. /\ d.step \in {"apply", "applied"} /\ d.kind = "deploy"
        /\ d.snapshot = s /\ d.revision = c.revision
        /\ d.step = "apply" /\ d.phase = "workload" => c.phase = "isolation"
        /\ d.step = "applied" => c.phase = "workload"
    BY <1>1, <1>2 DEF AfterMark, Deploying, Command, Steps, Phases
  <1>4. /\ command' \in [Procs -> Command \union {Idle}]
        /\ command'[p] = d
        /\ \A q \in Procs \ {p} : command'[q] = command[q]
    BY <1>2, Becomes DEF Mark
  <1>5. UNCHANGED <<catalog, saved, plan, cluster, performed>> /\ Existing' = Existing
    BY DEF Mark, Existing
  <1>6. /\ metadata' \in [Snapshots -> SUBSET Marks]
        /\ metadata'[s] = metadata[s] \union {c.phase}
        /\ \A r \in Snapshots \ {s} : metadata'[r] = metadata[r]
    BY <1>1 DEF Mark, TypeOK, Marks, Command
  <1>7. c.phase \in Phases
    BY <1>1 DEF Command
  <1>8. Sound(p)'
    <2>1. /\ s \in Existing /\ plan[s] = c.revision /\ "created" \in metadata[s]
          /\ "applied" \notin metadata[s] /\ "failed" \notin metadata[s]
          /\ c.phase = "workload" => "isolation" \in metadata[s]
      BY <1>1 DEF Sound
    <2> QED
      BY <1>1, <1>3, <1>4, <1>5, <1>6, <1>7, <2>1 DEF Sound, Phases
  <1>9. RollbackOK(p)'
    BY <1>3, <1>4 DEF RollbackOK
  <1>10. Honest(s)'
    <2>1. c.phase \in performed[s] /\ "applied" \notin metadata[s] /\ Honest(s)
      BY <1>1, HonestParts DEF Sound
    <2> QED
      BY <1>5, <1>6, <1>7, <2>1 DEF Honest, Phases
  <1>11. s \in Existing'
    BY <1>1, <1>5 DEF Sound
  <1> QED
    BY <1>1, <1>3, <1>4, <1>5, <1>6, <1>8, <1>9, <1>10, <1>11, OwnSnapshot DEF TypeOK

(* A deploy that ends, well or not, marks its way out: "applied" when both *)
(* phases are marked, "failed" when it never came so far.                  *)
LEMMA MarkEndKeeps ==
    ASSUME IInv, NEW p \in Procs, MarkApplied(p) \/ MarkFailure(p)
    PROVE  IInv'
  <1> USE DEF IInv
  <1> DEFINE c == command[p]
  <1>0. PICK s \in Snapshots : s = command[p].snapshot
    BY Writing DEF MarkApplied, MarkFailure
  <1>1. /\ c.step \in {"applied", "failed"} /\ c # Idle /\ Deploying(p) /\ s = c.snapshot
        /\ \A q \in Procs \ {p} : Deploying(q) => command[q].snapshot # s
    BY <1>0, Writing DEF MarkApplied, MarkFailure
  <1>2. /\ command' \in [Procs -> Command \union {Idle}]
        /\ command'[p] = Idle
        /\ \A q \in Procs \ {p} : command'[q] = command[q]
    BY Ends DEF MarkApplied, MarkFailure
  <1>3. UNCHANGED <<catalog, saved, plan, cluster, performed>> /\ Existing' = Existing
    BY DEF MarkApplied, MarkFailure, Existing
  <1>4. Sound(p)' /\ RollbackOK(p)' /\ ~Deploying(p)'
    BY <1>2 DEF Sound, RollbackOK, Deploying, Idle
  <1>5. /\ s \in Existing
        /\ "applied" \notin metadata[s] /\ "failed" \notin metadata[s]
        /\ c.step = "applied" => {"isolation", "workload"} \subseteq metadata[s]
    BY <1>1 DEF Sound
  <1>6. Honest(s)
    BY HonestParts
  <1>7. CASE MarkApplied(p)
    <2>1. /\ metadata' \in [Snapshots -> SUBSET Marks]
          /\ metadata'[s] = metadata[s] \union {"isolation", "workload", "applied"}
          /\ \A r \in Snapshots \ {s} : metadata'[r] = metadata[r]
      BY <1>1, <1>7 DEF MarkApplied, TypeOK, Marks, Phases
    <2>2. c.step = "applied"
      BY <1>7 DEF MarkApplied
    <2>3. Honest(s)'
      BY <1>3, <1>5, <1>6, <2>1, <2>2 DEF Honest, Phases
    <2> QED
      BY <1>1, <1>2, <1>3, <1>4, <1>5, <2>1, <2>3, OwnSnapshot DEF TypeOK
  <1>8. CASE MarkFailure(p)
    <2>1. /\ metadata' \in [Snapshots -> SUBSET Marks]
          /\ metadata'[s] = metadata[s] \union {"failed"}
          /\ \A r \in Snapshots \ {s} : metadata'[r] = metadata[r]
      BY <1>1, <1>8 DEF MarkFailure, FailureMarks, TypeOK, Marks
    <2>2. Honest(s)'
      BY <1>3, <1>5, <1>6, <2>1 DEF Honest, Phases
    <2> QED
      BY <1>1, <1>2, <1>3, <1>4, <1>5, <2>1, <2>2, OwnSnapshot DEF TypeOK
  <1> QED
    BY <1>7, <1>8
-----------------------------------------------------------------------------
(* The invariant holds at first ...                                        *)
LEMMA InitHolds == Init => IInv
  <1> SUFFICES ASSUME Init PROVE IInv
    OBVIOUS
  <1>1. TypeOK
    BY DEF Init, TypeOK
  <1>2. \A p \in Procs : Sound(p) /\ ~Deploying(p)
    BY DEF Init, Sound, Deploying
  <1>3. Apart /\ Filled /\ MetadataHonest
    BY <1>2 DEF Init, Apart, Filled, MetadataHonest
  <1> QED
    BY <1>1, <1>2, <1>3 DEF IInv

(* ... and after every step.                                               *)
LEMMA NextKeeps == IInv /\ [Next]_vars => IInv'
  <1> SUFFICES ASSUME IInv, [Next]_vars PROVE IInv'
    OBVIOUS
  <1>1. CASE UNCHANGED vars
    BY <1>1, EditKeeps
  <1>2. CASE \E r \in Revisions : Edit(r)
    BY <1>2, EditKeeps
  <1>3. ASSUME NEW p \in Procs, Deploy(p)
        PROVE  IInv'
    BY <1>3, BeginDeployKeeps, CopyCatalogKeeps, WritePlanKeeps, WriteMetadataKeeps,
       MarkKeeps, FailsKeep, MarkEndKeeps DEF Deploy
  <1>4. ASSUME NEW p \in Procs, Rollback(p)
        PROVE  IInv'
    BY <1>4, BeginRollbackKeeps, ReplaceCatalogKeeps DEF Rollback
  <1>5. ASSUME NEW p \in Procs, Apply(p) \/ ApplyFails(p) \/ Abort(p)
        PROVE  IInv'
    BY <1>5, ApplyKeeps, FailsKeep, AbortKeeps
  <1> QED
    BY <1>1, <1>2, <1>3, <1>4, <1>5 DEF Next, Proc

(* So it is an invariant, whatever the number of processes.                *)
LEMMA Invariance == Spec => []IInv
  BY InitHolds, NextKeeps, PTL DEF Spec

(* Type correctness: the files, the cluster and the commands keep their    *)
(* types, and a rollback only ever applies isolation and workload from a   *)
(* snapshot that is there.                                                 *)
THEOREM TypeCorrect == Spec => []TypeOK
  <1>1. IInv => TypeOK
    BY DEF IInv
  <1> QED
    BY <1>1, Invariance, PTL

(* metadata.json marks only phases that succeeded for its snapshot, and    *)
(* never "applied" beside "failed", with any number of commands at once.   *)
THEOREM MetadataHonestCorrect == Spec => []MetadataHonest
  <1>1. IInv => MetadataHonest
    BY DEF IInv
  <1> QED
    BY <1>1, Invariance, PTL

(* A deploy has the snapshot to go back to, with the plan that it applies, *)
(* before its first apply, with any number of commands and edits at once.  *)
THEOREM RestorePointFirstCorrect == Spec => []RestorePointFirst
  <1>1. IInv => RestorePointFirst
    BY DEF IInv, Sound, Deploying, RestorePointFirst
  <1> QED
    BY <1>1, Invariance, PTL
-----------------------------------------------------------------------------
(* Commands that do not apply at the same time.  What a command knows of   *)
(* the cluster; IInv says nothing of it, since another process may apply   *)
(* another revision at any moment.                                         *)
Under(p) ==
    LET c == command[p] IN
    c # Idle =>
        /\ c.kind = "deploy" /\ c.step = "mark" /\ c.phase = "isolation" =>
              cluster["isolation"] = c.revision
        /\ c.phase = "workload" /\ c.step = "apply" => cluster["isolation"] = c.revision
        /\ c.kind = "rollback" => saved[c.snapshot] = c.revision
        /\ c.kind = "rollback" /\ c.step = "catalog" =>
              cluster["isolation"] = c.revision /\ cluster["workload"] = c.revision

(* A snapshot gets its catalog once: what a rollback has read stays.       *)
Fresh(p) == command[p].step = "copy" => command[p].snapshot \notin Existing

UnderInv == IInv /\ \A p \in Procs : Under(p) /\ Fresh(p)

(* A successful phase.                                                     *)
LEMMA ApplyUnder ==
    ASSUME IInv, NEW p \in Procs, Under(p), Apply(p)
    PROVE  Under(p)'
  <1> DEFINE c == command[p]
  <1>1. /\ c.step = "apply" /\ c # Idle /\ c \in Command
        /\ c.kind = "rollback" => c.phase # "secrets"
    BY Busy DEF Apply, IInv, TypeOK
  <1>1a. c.phase \in Phases /\ c.kind \in {"deploy", "rollback"}
    BY <1>1 DEF Command
  <1>2a. PICK d \in Command : d = AfterPhase(command[p])
    <2>1. CASE c.kind = "deploy"
      BY <1>1, <2>1 DEF AfterPhase, Command, Steps
    <2>2. CASE c.kind = "rollback" /\ c.phase = "isolation"
      BY <1>1, <2>2 DEF AfterPhase, Command, Steps, Phases
    <2>3. CASE c.kind = "rollback" /\ c.phase = "workload"
      BY <1>1, <2>3 DEF AfterPhase, Command, Steps
    <2> QED
      BY <1>1, <1>1a, <2>1, <2>2, <2>3 DEF Phases
  <1>2. /\ d.revision = c.revision /\ d.snapshot = c.snapshot /\ d.kind = c.kind
        /\ c.kind = "deploy" => d.step = "mark" /\ d.phase = c.phase
        /\ c.kind = "rollback" /\ c.phase = "isolation" =>
              d.step = "apply" /\ d.phase = "workload"
        /\ c.kind = "rollback" /\ c.phase = "workload" => d.step = "catalog"
    <2>1. CASE c.kind = "deploy"
      BY <1>1, <1>2a, <2>1 DEF AfterPhase, Command, Steps
    <2>2. CASE c.kind = "rollback" /\ c.phase = "isolation"
      BY <1>1, <1>2a, <2>2 DEF AfterPhase, Command, Steps
    <2>3. CASE c.kind = "rollback" /\ c.phase = "workload"
      BY <1>1, <1>2a, <2>3 DEF AfterPhase, Command, Steps
    <2> QED
      BY <1>1, <1>1a, <2>1, <2>2, <2>3 DEF Phases
  <1>3. command'[p] = d
    BY <1>2a, Becomes DEF Apply, IInv
  <1>4. /\ cluster'[c.phase] = c.revision
        /\ \A f \in Phases \ {c.phase} : cluster'[f] = cluster[f]
        /\ saved' = saved /\ c.phase \in Phases /\ c.kind \in {"deploy", "rollback"}
    BY <1>1 DEF Apply, IInv, TypeOK, Command
  <1>5. /\ c.phase = "workload" => cluster["isolation"] = c.revision
        /\ c.kind = "rollback" => saved[c.snapshot] = c.revision
    BY <1>1 DEF Under
  <1> QED
    BY <1>1, <1>2, <1>3, <1>4, <1>5 DEF Under, Phases

(* A mark: isolation has been marked when the workload is next.            *)
LEMMA MarkUnder ==
    ASSUME IInv, NEW p \in Procs, Under(p), Mark(p)
    PROVE  Under(p)'
  <1> DEFINE c == command[p]
  <1>1. /\ c.step = "mark" /\ c # Idle /\ c \in Command /\ c.kind = "deploy"
    BY Writing DEF Mark, Deploying
  <1>2a. PICK d \in Command : d = AfterMark(command[p])
    BY <1>1 DEF AfterMark, Command, Steps, Phases
  <1>2. /\ d.step \in {"apply", "applied"} /\ d.kind = "deploy"
        /\ d.revision = c.revision
        /\ d.step = "apply" /\ d.phase = "workload" => c.phase = "isolation"
    BY <1>1, <1>2a DEF AfterMark, Command, Steps, Phases
  <1>3. command'[p] = d
    BY <1>2a, Becomes DEF Mark, IInv
  <1>4. cluster' = cluster /\ saved' = saved
    BY DEF Mark
  <1> QED
    BY <1>1, <1>2, <1>3, <1>4 DEF Under

(* A new command has applied nothing yet.                                  *)
LEMMA BeginUnder ==
    ASSUME IInv, NEW p \in Procs, NEW s \in Snapshots,
           BeginRollback(p, s)
           \/ \E confirmed, withSecrets \in BOOLEAN :
                 BeginDeploy(p, s, confirmed, withSecrets)
    PROVE  Under(p)'
  <1>1. CASE BeginRollback(p, s)
    <2>1. /\ command'[p].kind = "rollback" /\ command'[p].step = "apply"
          /\ command'[p].phase = "isolation"
          /\ command'[p].snapshot = s /\ command'[p].revision = saved[s]
          /\ saved' = saved
      BY <1>1 DEF BeginRollback, RollbackStep, RollbackPhase, IInv, TypeOK
    <2> QED
      BY <2>1 DEF Under
  <1>2. ASSUME NEW confirmed \in BOOLEAN, NEW withSecrets \in BOOLEAN,
               BeginDeploy(p, s, confirmed, withSecrets)
        PROVE  Under(p)'
    <2>1. command'[p].kind = "deploy" /\ command'[p].step = "copy"
      BY <1>2 DEF BeginDeploy, FirstStep, IInv, TypeOK
    <2> QED
      BY <2>1 DEF Under
  <1> QED
    BY <1>1, <1>2

(* The steps that only move a deploy on to writing something, ...          *)
LEMMA MovesOnUnder ==
    ASSUME IInv, NEW p \in Procs, Deploying(p), command[p].phase # "workload",
           NEW step \in Steps \ {"mark", "catalog"}, Goto(p, step)
    PROVE  Under(p)'
  <1>1. /\ command'[p].kind = "deploy" /\ command'[p].step = step
        /\ command'[p].phase # "workload"
    BY GoesTo DEF IInv, Deploying
  <1> QED
    BY <1>1 DEF Under

(* ... and to its failure mark.                                            *)
LEMMA FailsUnder ==
    ASSUME IInv, NEW p \in Procs, Deploying(p), Goto(p, "failed")
    PROVE  Under(p)'
  <1>1. command'[p].kind = "deploy" /\ command'[p].step = "failed"
    BY GoesTo DEF IInv, Deploying, Steps
  <1> QED
    BY <1>1 DEF Under

(* A step of one process leaves the commands of the others alone.          *)
LEMMA OwnCommand ==
    ASSUME IInv, NEW p \in Procs, Proc(p), NEW q \in Procs \ {p}
    PROVE  command'[q] = command[q]
  <1> USE DEF IInv, TypeOK
  <1>1. CASE Deploy(p)
    <2>1. CASE \E s \in Snapshots, confirmed, withSecrets \in BOOLEAN :
                  BeginDeploy(p, s, confirmed, withSecrets)
      BY <2>1 DEF BeginDeploy
    <2>2. CASE CopyCatalog(p) \/ WritePlan(p) \/ WriteMetadata(p)
      BY <2>2 DEF CopyCatalog, WritePlan, WriteMetadata, Goto, Finish
    <2>3. CASE Mark(p) \/ MarkFails(p) \/ MarkApplied(p) \/ MarkFailure(p)
      BY <2>3 DEF Mark, MarkFails, MarkApplied, MarkFailure, Goto, Finish
    <2> QED
      BY <1>1, <2>1, <2>2, <2>3 DEF Deploy
  <1>2. CASE Rollback(p)
    BY <1>2 DEF Rollback, BeginRollback, ReplaceCatalog, Finish
  <1>3. CASE Apply(p) \/ ApplyFails(p) \/ Abort(p)
    BY <1>3 DEF Apply, ApplyFails, Abort, Goto, Finish
  <1> QED
    BY <1>1, <1>2, <1>3 DEF Proc

(* Who writes what: only an apply changes the cluster, and only the copy   *)
(* of a deploy into its own snapshot changes a saved catalog.              *)
LEMMA Writers ==
    ASSUME IInv, NEW p \in Procs, Proc(p)
    PROVE  /\ cluster' # cluster => Applying(p)
           /\ saved' # saved => CopyCatalog(p)
  <1>1. CASE Deploy(p)
    BY <1>1 DEF Deploy, BeginDeploy, CopyCatalog, WritePlan, WriteMetadata, Mark, MarkFails,
       MarkApplied, MarkFailure
  <1>2. CASE Rollback(p)
    BY <1>2 DEF Rollback, BeginRollback, ReplaceCatalog
  <1>3. CASE Apply(p) \/ ApplyFails(p) \/ Abort(p)
    BY <1>3 DEF Apply, ApplyFails, Abort, Applying
  <1> QED
    BY <1>1, <1>2, <1>3 DEF Proc

(* The copy fills a snapshot that nobody has rolled back to.               *)
LEMMA CopyIsFresh ==
    ASSUME IInv, NEW p \in Procs, Fresh(p), CopyCatalog(p)
    PROVE  /\ Deploying(p) /\ command[p].snapshot \in Snapshots \ Existing
           /\ \A s \in Existing : saved'[s] = saved[s]
           /\ Existing' \subseteq Existing \union {command[p].snapshot}
  <1>1. Deploying(p) /\ command[p].snapshot \in Snapshots \ Existing
    BY Writing DEF Fresh, CopyCatalog
  <1>2. saved' = [saved EXCEPT ![command[p].snapshot] = catalog]
    BY DEF CopyCatalog
  <1> QED
    BY <1>1, <1>2 DEF IInv, TypeOK, Existing

(* Nobody else takes the snapshot of a deploy, ...                         *)
LEMMA FreshKeeps ==
    ASSUME IInv, NEW p \in Procs, NEW q \in Procs, Fresh(p), Fresh(q), Proc(p)
    PROVE  Fresh(q)'
  <1>1. CASE CopyCatalog(p) /\ q = p
    <2>1. command'[p].step = "plan"
      BY <1>1, Writing, GoesTo DEF CopyCatalog, IInv, Steps
    <2> QED
      BY <1>1, <2>1 DEF Fresh
  <1>2. CASE CopyCatalog(p) /\ q # p
    <2>1. command'[q] = command[q]
      BY <1>2, OwnCommand
    <2>2. CASE command[q].step = "copy"
      <3>1. Deploying(q) /\ command[q].snapshot # command[p].snapshot
        BY <1>2, <2>2, Writing DEF CopyCatalog
      <3> QED
        BY <1>2, <2>1, <2>2, <3>1, CopyIsFresh DEF Fresh
    <2>3. CASE command[q].step # "copy"
      BY <2>1, <2>3 DEF Fresh
    <2> QED
      BY <2>2, <2>3
  <1>3. CASE ~CopyCatalog(p) /\ q # p
    BY <1>3, OwnCommand, Writers DEF Fresh, Existing
  <1>4. CASE ~CopyCatalog(p) /\ q = p
    <2>1. saved' = saved
      BY <1>4, Writers
    <2>2. command'[p].step = "copy" => /\ command'[p].snapshot \notin Existing
      <3>1. ASSUME NEW s \in Snapshots, NEW confirmed \in BOOLEAN, NEW withSecrets \in BOOLEAN,
                   BeginDeploy(p, s, confirmed, withSecrets)
            PROVE  command'[p].snapshot \notin Existing
        BY <3>1 DEF BeginDeploy, IInv, TypeOK
      <3>2. ASSUME NEW s \in Snapshots, BeginRollback(p, s)
            PROVE  command'[p].step = "apply"
        BY <3>2 DEF BeginRollback, RollbackStep, IInv, TypeOK
      <3>3. ASSUME NEW s \in Steps \ {"copy"}, Goto(p, s), command[p] # Idle
            PROVE  command'[p].step # "copy"
        BY <3>3, GoesTo DEF IInv
      <3>4. CASE WritePlan(p) \/ WriteMetadata(p) \/ MarkFails(p) \/ ApplyFails(p)
        <4>1. command[p] # Idle
          BY <3>4, Busy DEF WritePlan, WriteMetadata, MarkFails, ApplyFails, IInv
        <4> QED
          BY <3>3, <3>4, <4>1, Ends
          DEF WritePlan, WriteMetadata, MarkFails, ApplyFails, Steps, IInv, Idle
      <3>5. CASE MarkApplied(p) \/ MarkFailure(p) \/ ReplaceCatalog(p) \/ Abort(p)
        BY <3>5, Ends DEF MarkApplied, MarkFailure, ReplaceCatalog, Abort, IInv, Idle
      <3>6. CASE Apply(p)
        <4>1. /\ command[p] \in Command /\ command[p].step = "apply"
              /\ command[p].kind = "rollback" => command[p].phase # "secrets"
          BY <3>6, Busy DEF Apply, IInv, TypeOK
        <4>2. AfterPhase(command[p]).step # "copy"
          BY <4>1 DEF AfterPhase, Command, Phases
        <4> QED
          BY <3>6, <4>2 DEF Apply, IInv, TypeOK
      <3>7. CASE Mark(p)
        <4>1. command[p] \in Command
          BY <3>7, Busy DEF Mark, IInv
        <4>2. AfterMark(command[p]).step # "copy"
          BY <4>1 DEF AfterMark, Command, Phases
        <4> QED
          BY <3>7, <4>2 DEF Mark, IInv, TypeOK
      <3> QED
        BY <1>4, <3>1, <3>2, <3>4, <3>5, <3>6, <3>7 DEF Proc, Deploy, Rollback
    <2> QED
      BY <1>4, <2>1, <2>2 DEF Fresh, Existing
  <1> QED
    BY <1>1, <1>2, <1>3, <1>4

(* ... and what a command knows of the cluster and of the catalog it rolls *)
(* back to survives the steps of others, as long as they do not apply.     *)
LEMMA OthersUnder ==
    ASSUME IInv, OneApplies, NEW p \in Procs, Fresh(p), Proc(p),
           NEW q \in Procs \ {p}, Under(q)
    PROVE  Under(q)'
  <1>1. command'[q] = command[q]
    BY OwnCommand
  <1>2. Applying(q) => cluster' = cluster
    BY Writers DEF OneApplies
  <1>3. command[q] # Idle /\ command[q].kind = "rollback" =>
           saved'[command[q].snapshot] = saved[command[q].snapshot]
    BY Writers, CopyIsFresh DEF IInv, TypeOK
  <1> QED
    BY <1>1, <1>2, <1>3 DEF Under, Applying

(* So every step keeps what every command knows.                           *)
LEMMA UnderKeeps ==
    ASSUME UnderInv, OneApplies, [Next]_vars
    PROVE  \A q \in Procs : Under(q)' /\ Fresh(q)'
  <1> USE DEF UnderInv
  <1>1. CASE UNCHANGED vars
    BY <1>1 DEF vars, Under, Fresh, Existing
  <1>2. CASE \E r \in Revisions : Edit(r)
    BY <1>2 DEF Edit, Under, Fresh, Existing
  <1>3. ASSUME NEW p \in Procs, Proc(p)
        PROVE  Under(p)'
    <2> USE <1>3
    <2>1. ASSUME NEW s \in Snapshots, NEW confirmed \in BOOLEAN, NEW withSecrets \in BOOLEAN,
                 BeginDeploy(p, s, confirmed, withSecrets)
          PROVE  Under(p)'
      BY <2>1, BeginUnder
    <2>2. CASE CopyCatalog(p)
      BY <2>2, Writing, MovesOnUnder DEF CopyCatalog, Sound, IInv, Steps
    <2>3. CASE WritePlan(p)
      BY <2>3, Writing, MovesOnUnder DEF WritePlan, Sound, IInv, Steps
    <2>4. CASE WriteMetadata(p)
      <3>1. Deploying(p) /\ command[p].phase # "workload"
        BY <2>4, Writing DEF WriteMetadata, Sound, IInv
      <3>2. CASE Goto(p, "apply")
        BY <3>1, <3>2, MovesOnUnder DEF Steps
      <3>3. CASE Finish(p)
        BY <3>3, Ends DEF Under, IInv, Idle
      <3> QED
        BY <2>4, <3>2, <3>3 DEF WriteMetadata
    <2>5. CASE Mark(p)
      BY <2>5, MarkUnder
    <2>6. CASE MarkFails(p)
      BY <2>6, Writing, FailsUnder DEF MarkFails
    <2>7. CASE Apply(p)
      BY <2>7, ApplyUnder
    <2>8. CASE ApplyFails(p)
      <3>1. CASE command[p].kind = "deploy"
        BY <2>8, <3>1, Busy, FailsUnder DEF ApplyFails, Deploying, IInv
      <3>2. CASE command[p].kind # "deploy"
        BY <2>8, <3>2, Ends DEF ApplyFails, Under, IInv, Idle
      <3> QED
        BY <3>1, <3>2
    <2>9. ASSUME NEW s \in Snapshots, BeginRollback(p, s)
          PROVE  Under(p)'
      BY <2>9, BeginUnder
    <2>10. CASE MarkApplied(p) \/ MarkFailure(p) \/ ReplaceCatalog(p) \/ Abort(p)
      <3>1. Finish(p)
        BY <2>10 DEF MarkApplied, MarkFailure, ReplaceCatalog, Abort
      <3> QED
        BY <3>1, Ends DEF Under, IInv, Idle
    <2> QED
      BY <1>3, <2>1, <2>2, <2>3, <2>4, <2>5, <2>6, <2>7, <2>8, <2>9, <2>10
      DEF Proc, Deploy, Rollback
  <1>4. ASSUME NEW p \in Procs, Proc(p)
        PROVE  \A q \in Procs : Under(q)' /\ Fresh(q)'
    BY <1>3, <1>4, OthersUnder, FreshKeeps
  <1> QED
    BY <1>1, <1>2, <1>4 DEF Next

(* UnderInv holds as long as no two commands apply at the same time.       *)
LEMMA UnderInvariance == Spec /\ []OneApplies => []UnderInv
  <1>1. Init => UnderInv
    BY InitHolds DEF Init, Under, Fresh, UnderInv, Idle
  <1>2. UnderInv /\ OneApplies /\ [Next]_vars => UnderInv'
    BY NextKeeps, UnderKeeps DEF UnderInv
  <1> QED
    BY <1>1, <1>2, PTL DEF Spec

(* As long as no two commands apply at the same time, Helm is called only  *)
(* when the isolation of the revision it applies is the one in the         *)
(* cluster, whatever earlier commands left half done and whatever other    *)
(* commands prepare meanwhile.                                             *)
THEOREM WorkloadUnderIsolationCorrect == Spec /\ []OneApplies => []WorkloadUnderIsolation
  <1>1. UnderInv => WorkloadUnderIsolation
    BY DEF UnderInv, Under, WorkloadUnderIsolation
  <1> QED
    BY <1>1, UnderInvariance, PTL

(* As long as no two commands apply at the same time, a rollback that      *)
(* replaces catalog.yaml leaves a catalog whose isolation and workload are *)
(* in the cluster, although the catalog was edited while it ran.           *)
THEOREM CatalogFollowsClusterCorrect == Spec /\ []OneApplies => CatalogFollowsCluster
  <1> DEFINE Follows == \A p \in Procs :
                 command[p] # Idle /\ command[p].kind = "rollback" /\ command'[p] = Idle
                 /\ catalog' # catalog
                 => cluster["isolation"] = catalog' /\ cluster["workload"] = catalog'
  <1>1. UnderInv /\ [Next]_vars => [Follows]_vars
    <2> SUFFICES ASSUME UnderInv, [Next]_vars, NEW p \in Procs,
                        command[p] # Idle, command[p].kind = "rollback",
                        command'[p] = Idle, catalog' # catalog
                 PROVE  cluster["isolation"] = catalog' /\ cluster["workload"] = catalog'
      OBVIOUS
    <2>1. ~UNCHANGED vars /\ ~\E r \in Revisions : Edit(r)
      BY DEF vars, Edit
    <2>2. PICK q \in Procs : Proc(q)
      BY <2>1 DEF Next
    <2>3. Proc(p)
      BY <2>2, OwnCommand DEF UnderInv
    <2>4. ReplaceCatalog(p)
      BY <2>3 DEF Proc, Deploy, Rollback, BeginDeploy, CopyCatalog, WritePlan, WriteMetadata,
         Mark, MarkFails, MarkApplied, MarkFailure, BeginRollback, Apply, ApplyFails, Abort
    <2> QED
      BY <2>4 DEF ReplaceCatalog, Under, UnderInv
  <1>2. []UnderInv /\ [][Next]_vars => [][Follows]_vars
    BY <1>1, PTL
  <1>3. [][Follows]_vars => CatalogFollowsCluster
    BY DEF CatalogFollowsCluster
  <1> QED
    BY <1>2, <1>3, UnderInvariance, PTL DEF Spec
=============================================================================
