-------------------------------- MODULE Deploy --------------------------------
(***************************************************************************)
(* deploy and rollback of oab_control/operations.py: a snapshot of the     *)
(* catalog, then Secrets, isolation manifests and the Helm release, each   *)
(* applied by a program of its own and each marked in the snapshot's       *)
(* metadata.json; and the way back from a snapshot.                        *)
(*                                                                         *)
(* A revision stands for the content of catalog.yaml and for everything    *)
(* that is rendered from it.  Checks that can only refuse (the environment *)
(* contract, paths, the chart, kubeconfigs, the optional backup) come      *)
(* before the first step that changes anything and are left out: a command *)
(* may stop at any point.                                                  *)
(***************************************************************************)
EXTENDS FiniteSets

CONSTANTS
    Procs,       \* CLI processes of the operator
    Revisions,   \* contents of catalog.yaml
    Snapshots,   \* snapshot directories
    NoRevision,  \* the file is not there, or nothing was ever applied
    Mixed        \* an apply stopped with part of its objects applied

ASSUME DeployAssumption == NoRevision \notin Revisions

VARIABLES
    catalog,    \* catalog.yaml, edited by people and replaced by rollback
    saved,      \* catalog.yaml of each snapshot
    plan,       \* plan.json of each snapshot, with its rendered manifests
    metadata,   \* marks in metadata.json of each snapshot
    cluster,    \* the revision that each phase was last applied from
    command,    \* what each process is in the middle of
    performed   \* history: the phases that succeeded for each snapshot

vars == <<catalog, saved, plan, metadata, cluster, command, performed>>
-----------------------------------------------------------------------------
Phases == {"secrets", "isolation", "workload"}
Marks == Phases \union {"created", "applied", "failed"}  \* created: there is a metadata.json

(* The step a command is about to take; "phase" is the one it is at.       *)
Steps == {"copy", "plan", "metadata", "apply", "mark", "applied", "failed", "catalog"}
Idle == [step |-> "idle"]
Command ==
    [kind: {"deploy", "rollback"}, step: Steps, phase: Phases, snapshot: Snapshots,
     revision: Revisions, confirmed: BOOLEAN]

Goto(p, step) == command' = [command EXCEPT ![p].step = step]
Finish(p) == command' = [command EXCEPT ![p] = Idle]

Existing == {s \in Snapshots : saved[s] # NoRevision}

Init ==
    /\ catalog \in Revisions
    /\ saved = [s \in Snapshots |-> NoRevision]
    /\ plan = [s \in Snapshots |-> NoRevision]
    /\ metadata = [s \in Snapshots |-> {}]
    /\ cluster = [phase \in Phases |-> NoRevision]
    /\ command = [p \in Procs |-> Idle]
    /\ performed = [s \in Snapshots |-> {}]
-----------------------------------------------------------------------------
(* deploy.  The catalog is read and rendered first; the name of the        *)
(* snapshot holds a fresh UUID.                                            *)

FirstStepApply == "apply"  \* mutant: the cluster is changed before the snapshot is made
FirstStep == "copy"

BeginDeploy(p, s, confirmed, withSecrets) ==
    /\ command[p] = Idle
    /\ s \notin Existing
    /\ \A q \in Procs : command[q] # Idle => command[q].snapshot # s
    /\ command' = [command EXCEPT ![p] =
                     [kind |-> "deploy", step |-> FirstStep,
                      phase |-> IF withSecrets THEN "secrets" ELSE "isolation",
                      snapshot |-> s, revision |-> catalog, confirmed |-> confirmed]]
    /\ UNCHANGED <<catalog, saved, plan, metadata, cluster, performed>>

(* SnapshotStore.create copies the file, which may have changed since.     *)
CopyCatalog(p) ==
    LET c == command[p] IN
    /\ c.step = "copy"
    /\ saved' = [saved EXCEPT ![c.snapshot] = catalog]
    /\ Goto(p, "plan")
    /\ UNCHANGED <<catalog, plan, metadata, cluster, performed>>

WritePlan(p) ==
    LET c == command[p] IN
    /\ c.step = "plan"
    /\ plan' = [plan EXCEPT ![c.snapshot] = c.revision]
    /\ Goto(p, "metadata")
    /\ UNCHANGED <<catalog, saved, metadata, cluster, performed>>

(* metadata.json and the manifests; without --yes that is all.             *)
WriteMetadata(p) ==
    LET c == command[p] IN
    /\ c.step = "metadata"
    /\ metadata' = [metadata EXCEPT ![c.snapshot] = {"created"}]
    /\ IF c.confirmed THEN Goto(p, "apply") ELSE Finish(p)
    /\ UNCHANGED <<catalog, saved, plan, cluster, performed>>
-----------------------------------------------------------------------------
(* The phases, which rollback shares: it applies isolation and workload,   *)
(* and writes no marks.                                                    *)

AfterPhase(c) ==
    CASE c.kind = "deploy"                            -> [c EXCEPT !.step = "mark"]
      [] c.kind = "rollback" /\ c.phase = "isolation" -> [c EXCEPT !.phase = "workload"]
      [] c.kind = "rollback" /\ c.phase = "workload"  -> [c EXCEPT !.step = "catalog"]

Apply(p) ==
    LET c == command[p] IN
    /\ c.step = "apply"
    /\ cluster' = [cluster EXCEPT ![c.phase] = c.revision]
    /\ performed' = IF c.kind = "deploy"
                    THEN [performed EXCEPT ![c.snapshot] = @ \union {c.phase}]
                    ELSE performed
    /\ command' = [command EXCEPT ![p] = AfterPhase(c)]
    /\ UNCHANGED <<catalog, saved, plan, metadata>>

(* kubectl or helm fails or runs into its timeout, or the output is        *)
(* refused: none, some or all of the objects were applied.                 *)
ApplyFails(p) ==
    LET c == command[p] IN
    /\ c.step = "apply"
    /\ \E r \in {cluster[c.phase], Mixed, c.revision} :
          cluster' = [cluster EXCEPT ![c.phase] = r]
    /\ IF c.kind = "deploy" THEN Goto(p, "failed") ELSE Finish(p)
    /\ UNCHANGED <<catalog, saved, plan, metadata, performed>>

\* mutant: the Helm release goes before its isolation
AfterMarkHelmFirst(c) ==
    CASE c.phase = "secrets"   -> [c EXCEPT !.phase = "workload", !.step = "apply"]
      [] c.phase = "workload"  -> [c EXCEPT !.phase = "isolation", !.step = "apply"]
      [] c.phase = "isolation" -> [c EXCEPT !.step = "applied"]
AfterMark(c) ==
    CASE c.phase = "secrets"   -> [c EXCEPT !.phase = "isolation", !.step = "apply"]
      [] c.phase = "isolation" -> [c EXCEPT !.phase = "workload", !.step = "apply"]
      [] c.phase = "workload"  -> [c EXCEPT !.step = "applied"]

Mark(p) ==
    LET c == command[p] IN
    /\ c.step = "mark"
    /\ metadata' = [metadata EXCEPT ![c.snapshot] = @ \union {c.phase}]
    /\ command' = [command EXCEPT ![p] = AfterMark(c)]
    /\ UNCHANGED <<catalog, saved, plan, cluster, performed>>

(* The mark cannot be written: the try block catches that as well.         *)
MarkFails(p) ==
    /\ command[p].step = "mark"
    /\ Goto(p, "failed")
    /\ UNCHANGED <<catalog, saved, plan, metadata, cluster, performed>>

MarkApplied(p) ==
    LET c == command[p] IN
    /\ c.step = "applied"
    /\ metadata' = [metadata EXCEPT ![c.snapshot] =
                      @ \union {"isolation", "workload", "applied"}]
    /\ Finish(p)
    /\ UNCHANGED <<catalog, saved, plan, cluster, performed>>

FailureMarksApplied == {"failed", "applied"}  \* mutant: success is marked on every way out
FailureMarks == {"failed"}

MarkFailure(p) ==
    LET c == command[p] IN
    /\ c.step = "failed"
    /\ metadata' = [metadata EXCEPT ![c.snapshot] = @ \union FailureMarks]
    /\ Finish(p)
    /\ UNCHANGED <<catalog, saved, plan, cluster, performed>>
-----------------------------------------------------------------------------
(* rollback --yes to any snapshot that has a catalog.yaml.                 *)

RollbackCatalogFirst == "catalog"  \* mutant: catalog.yaml is replaced before the applies
RollbackStep == "apply"
RollbackPhaseUnknown == "rollback" \* mutant: the first phase has a name of its own
RollbackPhase == "isolation"

BeginRollback(p, s) ==
    /\ command[p] = Idle
    /\ s \in Existing
    /\ command' = [command EXCEPT ![p] =
                     [kind |-> "rollback", step |-> RollbackStep, phase |-> RollbackPhase,
                      snapshot |-> s, revision |-> saved[s], confirmed |-> TRUE]]
    /\ UNCHANGED <<catalog, saved, plan, metadata, cluster, performed>>

ReplaceCatalog(p) ==
    LET c == command[p] IN
    /\ c.step = "catalog"
    /\ catalog' = saved[c.snapshot]
    /\ Finish(p)
    /\ UNCHANGED <<saved, plan, metadata, cluster, performed>>
-----------------------------------------------------------------------------
(* The process dies, or a write fails where nothing catches it.            *)
Abort(p) ==
    /\ command[p] # Idle
    /\ Finish(p)
    /\ UNCHANGED <<catalog, saved, plan, metadata, cluster, performed>>

(* Somebody edits catalog.yaml, at any moment.                             *)
Edit(r) ==
    /\ catalog' = r
    /\ UNCHANGED <<saved, plan, metadata, cluster, command, performed>>

Deploy(p) ==
    \/ \E s \in Snapshots, confirmed, withSecrets \in BOOLEAN :
          BeginDeploy(p, s, confirmed, withSecrets)
    \/ CopyCatalog(p) \/ WritePlan(p) \/ WriteMetadata(p)
    \/ Mark(p) \/ MarkFails(p) \/ MarkApplied(p) \/ MarkFailure(p)

Rollback(p) == (\E s \in Snapshots : BeginRollback(p, s)) \/ ReplaceCatalog(p)

Proc(p) == Deploy(p) \/ Rollback(p) \/ Apply(p) \/ ApplyFails(p) \/ Abort(p)

Next == (\E p \in Procs : Proc(p)) \/ (\E r \in Revisions : Edit(r))

Spec == Init /\ [][Next]_vars
-----------------------------------------------------------------------------
(* Type invariant.  The last conjunct says what a rollback may be about to *)
(* do: it has no Secrets phase and nothing to mark.                        *)
TypeOK ==
    /\ catalog \in Revisions
    /\ saved \in [Snapshots -> Revisions \union {NoRevision}]
    /\ plan \in [Snapshots -> Revisions \union {NoRevision}]
    /\ metadata \in [Snapshots -> SUBSET Marks]
    /\ cluster \in [Phases -> Revisions \union {NoRevision, Mixed}]
    /\ command \in [Procs -> Command \union {Idle}]
    /\ performed \in [Snapshots -> SUBSET Phases]
    /\ \A p \in Procs : command[p] # Idle /\ command[p].kind = "rollback" =>
          /\ command[p].step \in {"apply", "catalog"}
          /\ command[p].phase # "secrets" /\ command[p].snapshot \in Existing

(* metadata.json is what an operator trusts after an interrupted deploy: a *)
(* phase is marked only if it succeeded for this snapshot, "applied" only  *)
(* after isolation and workload, and never beside "failed".                *)
MetadataHonest ==
    \A s \in Snapshots :
        /\ metadata[s] \intersect Phases \subseteq performed[s]
        /\ "applied" \in metadata[s] =>
              "failed" \notin metadata[s] /\ {"isolation", "workload"} \subseteq metadata[s]

(* A deploy that is about to touch the cluster, or has, left a snapshot to *)
(* go back to, whose plan shows the revision that it applies, although the *)
(* catalog may be edited and other commands run at the same time.          *)
RestorePointFirst ==
    \A p \in Procs :
        LET c == command[p] IN
        c # Idle /\ c.kind = "deploy" /\ c.step \in {"apply", "mark", "applied", "failed"} =>
            c.snapshot \in Existing /\ plan[c.snapshot] = c.revision
            /\ "created" \in metadata[c.snapshot]

(* The cluster has no lock: what two operators apply at the same time gets *)
(* mixed.  The last two properties are about commands of which at most one *)
(* at any time is between its first apply and its last mark or its         *)
(* catalog; everything before may overlap.                                 *)
Applying(p) == command[p].step \in {"apply", "mark", "catalog"}
OneApplies == \A p, q \in Procs : Applying(p) /\ Applying(q) => p = q

(* Agents never start under the network policies of another revision: Helm *)
(* is called when the isolation of the same revision is in place, in a     *)
(* deploy and in a rollback, whatever earlier commands left behind.        *)
WorkloadUnderIsolation ==
    \A p \in Procs :
        command[p] # Idle /\ command[p].phase = "workload" /\ command[p].step = "apply" =>
            cluster["isolation"] = command[p].revision

(* docs/操作手冊.md, rollback: catalog.yaml never claims a revision that   *)
(* the operation did not bring to the cluster.                             *)
CatalogFollowsCluster ==
    [][\A p \in Procs :
          command[p] # Idle /\ command[p].kind = "rollback" /\ command'[p] = Idle
          /\ catalog' # catalog
          => cluster["isolation"] = catalog' /\ cluster["workload"] = catalog']_vars
=============================================================================
