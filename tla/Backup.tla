------------------------------- MODULE Backup -------------------------------
(***************************************************************************)
(* LocalBackup of oab_control/backup.py: create copies the declared        *)
(* components of the control state and writes a manifest last; verify      *)
(* checks a backup against its manifest; restore stages the components of  *)
(* a verified backup and moves them into place one after another.          *)
(*                                                                         *)
(* A file stands for its name and its bytes, so a changed file is another  *)
(* file.  Other commands go on writing while a backup is made: a component *)
(* is read in whatever content it has then, and nothing here compares two  *)
(* components.  The path rules of _validate_sources and                    *)
(* _validate_destinations hold of the paths in use; the staging directory  *)
(* is never read again and is left out.                                    *)
(***************************************************************************)
EXTENDS Integers, FiniteSets

CONSTANTS
    NumComponents,     \* Len(COMPONENTS), four in the code
    FileComponents,    \* the components that are one file: the catalog
    Files,             \* files that may be found in a source or in a backup
    SecretNamed,       \* those whose name _excluded recognises
    CredentialShaped,  \* those whose bytes _CREDENTIAL matches
    BackupIds,         \* names of backup directories
    Procs,             \* CLI processes
    NoBackup           \* not from any backup

Components == 1..NumComponents   \* in the order of COMPONENTS

ASSUME BackupAssumption ==
    /\ NumComponents \in Nat \ {0}
    /\ FileComponents \subseteq Components
    /\ SecretNamed \subseteq Files /\ CredentialShaped \subseteq Files
    /\ NoBackup \notin BackupIds

VARIABLES
    target,      \* backup directories that exist
    stored,      \* the files in each backup, by component
    manifest,    \* the files that manifest.json lists with a checksum
    sealed,      \* backups with a manifest.json
    dest,        \* what is at the destination of each component
    command,     \* what each process is in the middle of
    found,       \* history: what create found in the source of each component
    overlooked,  \* history: what of that is in directories it could not list
    late,        \* history: what gives way to os.replace and came behind the check
    remains,     \* history: components whose removal stopped half way
    interrupted  \* history: a restore was stopped half way and not cleared up

vars == <<target, stored, manifest, sealed, dest, command, found, overlooked, late, remains,
          interrupted>>
sources == <<found, overlooked>>
-----------------------------------------------------------------------------
Nowhere == [c \in Components |-> {}]

(* A destination: whose it is ("from" is a history of that) and what kind. *)
Kind(c) == IF c \in FileComponents THEN "file" ELSE "directory"
Nothing == [kind |-> "nothing", from |-> NoBackup, files |-> {}]
SomebodysOwn(kind, files) == [kind |-> kind, from |-> NoBackup, files |-> files]
Place ==
    [kind: {"nothing", "file", "directory"}, from: BackupIds \union {NoBackup},
     files: SUBSET Files]

Restored == {c \in Components : dest[c].from # NoBackup}
Own == {c \in Components : dest[c].kind # "nothing" /\ dest[c].from = NoBackup}

(* next is the component at hand; data what create has recorded, or what   *)
(* restore has staged.                                                     *)
Creating == {"copy", "manifest"}
Moving == {"install", "undo"}    \* restore behind its check of destinations
Restoring == {"stage", "check"} \union Moving
Command ==
    [step: {"idle"} \union Creating \union Restoring, id: BackupIds \union {NoBackup},
     next: 0..(NumComponents + 1), data: [Components -> SUBSET Files]]
Idle == [step |-> "idle", id |-> NoBackup, next |-> 0, data |-> Nowhere]

Finish(p) == command' = [command EXCEPT ![p] = Idle]
Advance(p, step) == command' = [command EXCEPT ![p].step = step, ![p].next = 1]

Init ==
    /\ target = {}
    /\ stored = [b \in BackupIds |-> Nowhere]
    /\ manifest = [b \in BackupIds |-> Nowhere]
    /\ sealed = {}
    /\ dest = [c \in Components |-> Nothing]
    /\ command = [p \in Procs |-> Idle]
    /\ found = [b \in BackupIds |-> Nowhere] /\ overlooked = [b \in BackupIds |-> Nowhere]
    /\ late = {} /\ remains = {}
    /\ interrupted = FALSE
-----------------------------------------------------------------------------
(* LocalBackup.create *)

BeginCreate(p, b) ==
    /\ command[p] = Idle
    /\ b \notin target
    /\ target' = target \union {b}
    /\ command' = [command EXCEPT ![p] =
                     [step |-> "copy", id |-> b, next |-> 1, data |-> Nowhere]]
    /\ UNCHANGED <<stored, manifest, sealed, dest, sources, late, remains, interrupted>>

Sources(c) == IF c \in FileComponents THEN {{f} : f \in Files} ELSE SUBSET Files

Copied(content) == content \ SecretNamed

(* The next component, as it is found; its checksums are taken of the copy. *)
(* os.walk passes over a directory that it cannot list, and says nothing.   *)
CopyComponent(p, content, unlisted) ==
    LET c == command[p] IN
    /\ c.step = "copy"
    /\ content \in Sources(c.next)
    /\ unlisted \subseteq content /\ (c.next \in FileComponents => unlisted = {})
    /\ stored' = [stored EXCEPT ![c.id][c.next] = Copied(content \ unlisted)]
    /\ found' = [found EXCEPT ![c.id][c.next] = content]
    /\ overlooked' = [overlooked EXCEPT ![c.id][c.next] = unlisted]
    /\ command' = [command EXCEPT
                     ![p].data[c.next] = Copied(content \ unlisted),
                     ![p].step = IF c.next = NumComponents THEN "manifest" ELSE "copy",
                     ![p].next = @ + 1]
    /\ UNCHANGED <<target, manifest, sealed, dest, late, remains, interrupted>>

WriteManifest(p) ==
    LET c == command[p] IN
    /\ c.step = "manifest"
    /\ manifest' = [manifest EXCEPT ![c.id] = c.data]
    /\ sealed' = sealed \union {c.id}
    /\ Finish(p)
    /\ UNCHANGED <<target, stored, dest, sources, late, remains, interrupted>>

(* A file that cannot be read, a link or a device among the files, a write *)
(* that fails: the directory is removed again.  What is left of it where   *)
(* that is not possible has no manifest, and nothing reads it.             *)
CreateFails(p) ==
    LET b == command[p].id IN
    /\ command[p].step \in Creating
    /\ \/ /\ target' = target \ {b}
          /\ stored' = [stored EXCEPT ![b] = Nowhere]
          /\ found' = [found EXCEPT ![b] = Nowhere]
          /\ overlooked' = [overlooked EXCEPT ![b] = Nowhere]
       \/ UNCHANGED <<target, stored, sources>>
    /\ Finish(p)
    /\ UNCHANGED <<manifest, sealed, dest, late, remains, interrupted>>
-----------------------------------------------------------------------------
(* LocalBackup.verify and LocalBackup.restore *)

ListedAreThere(b) ==  \* mutant: what the manifest does not list is not scanned
    b \in sealed /\ \A c \in Components : manifest[b][c] \subseteq stored[b][c]

Verifies(b) ==
    /\ b \in sealed
    /\ \A c \in Components :
          /\ manifest[b][c] \subseteq stored[b][c]
          /\ stored[b][c] \intersect (SecretNamed \union CredentialShaped) = {}

BeginRestore(p, b) ==
    /\ command[p] = Idle
    /\ Verifies(b)
    /\ command' = [command EXCEPT ![p] =
                     [step |-> "stage", id |-> b, next |-> 1, data |-> Nowhere]]
    /\ UNCHANGED <<target, stored, manifest, sealed, dest, sources, late, remains, interrupted>>

(* A directory is copied with everything in it, a file by the manifest.     *)
Content(b, c) == IF c \in FileComponents THEN manifest[b][c] ELSE stored[b][c]

Stage(p) ==
    LET c == command[p] IN
    /\ c.step = "stage"
    /\ c.next \in FileComponents => Content(c.id, c.next) # {}
    /\ command' = [command EXCEPT
                     ![p].data[c.next] = Content(c.id, c.next),
                     ![p].step = IF c.next = NumComponents THEN "check" ELSE "stage",
                     ![p].next = @ + 1]
    /\ UNCHANGED <<target, stored, manifest, sealed, dest, sources, late, remains, interrupted>>

\* mutant: a destination is clean if no directory is in the way
NoDirectory == \A c \in Components : dest[c].kind # "directory"
\* mutant: only the first destination is looked at
FirstClean == dest[1].kind = "nothing"
DestinationsClean == \A c \in Components : dest[c].kind = "nothing"

CheckDestinations(p) ==
    /\ command[p].step = "check"
    /\ DestinationsClean
    /\ Advance(p, "install")
    /\ interrupted' = FALSE
    /\ UNCHANGED <<target, stored, manifest, sealed, dest, sources, late, remains>>

(* os.replace: a file takes the place of a file, a directory that of an     *)
(* empty one.                                                               *)
Replaceable(c) ==
    \/ dest[c].kind = "nothing"
    \/ dest[c].kind = Kind(c) /\ (Kind(c) = "directory" => dest[c].files = {})

Install(p) ==
    LET c == command[p] IN
    /\ c.step = "install"
    /\ Replaceable(c.next)
    /\ dest' = [dest EXCEPT ![c.next] =
                  [kind |-> Kind(c.next), from |-> c.id, files |-> c.data[c.next]]]
    /\ late' = late \ {c.next} /\ remains' = remains \ {c.next}
    /\ IF c.next = NumComponents THEN Finish(p)
       ELSE command' = [command EXCEPT ![p].next = @ + 1]
    /\ UNCHANGED <<target, stored, manifest, sealed, sources, interrupted>>

\* mutant: a failure leaves what was installed
GiveUp(p) == Finish(p)
\* mutant: it is forgotten that nothing may have been installed yet
UndoBefore(p) == command' = [command EXCEPT ![p].step = "undo", ![p].next = @ - 1]
StartUndo(p) ==
    IF command[p].next = 1 THEN Finish(p)
    ELSE command' = [command EXCEPT ![p].step = "undo", ![p].next = @ - 1]

(* os.replace raises, whatever is at the destination: another file system,  *)
(* a directory in the way, a full disk.                                     *)
InstallFails(p) ==
    /\ command[p].step = "install"
    /\ StartUndo(p)
    /\ UNCHANGED <<target, stored, manifest, sealed, dest, sources, late, remains, interrupted>>

(* A removal that is not finished: a file is there or not, but of a         *)
(* directory rmtree leaves what it has not come to.                         *)
PartlyRemove(c) ==
    /\ \E left \in SUBSET dest[c].files :
          /\ dest[c].kind # "directory" => left = dest[c].files
          /\ dest' = [dest EXCEPT ![c].files = left]
    /\ remains' = remains \union {c}
    /\ interrupted' = TRUE

(* What was installed is removed, last first; a removal that fails is       *)
(* passed over.                                                             *)
Undo(p) ==
    LET c == command[p] IN
    /\ c.step = "undo"
    /\ \/ /\ dest' = [dest EXCEPT ![c.next] = Nothing]
          /\ remains' = remains \ {c.next}
          /\ UNCHANGED interrupted
       \/ PartlyRemove(c.next)
    /\ IF c.next = 1 THEN Finish(p) ELSE command' = [command EXCEPT ![p].next = @ - 1]
    /\ UNCHANGED <<target, stored, manifest, sealed, sources, late>>

(* A file component without a file, a copy that fails, a destination that   *)
(* is not clean: nothing has been installed, and the command ends.          *)
RestoreRefused(p) ==
    /\ command[p].step \in {"stage", "check"}
    /\ Finish(p)
    /\ UNCHANGED <<target, stored, manifest, sealed, dest, sources, late, remains, interrupted>>

Crash(p) ==
    /\ command[p] # Idle
    /\ \/ /\ interrupted' = (interrupted \/ command[p].step \in Moving)
          /\ UNCHANGED <<dest, remains>>
       \/ command[p].step = "undo" /\ PartlyRemove(command[p].next)
    /\ Finish(p)
    /\ UNCHANGED <<target, stored, manifest, sealed, sources, late>>
-----------------------------------------------------------------------------
(* People and other programs. *)

(* Somebody puts a file or a directory where a component is to go, an empty *)
(* directory or one with files of theirs.                                   *)
Appear(c, kind, files) ==
    /\ dest[c].kind = "nothing"
    /\ kind = "file" => files = {}
    /\ dest' = [dest EXCEPT ![c] = SomebodysOwn(kind, files)]
    /\ late' = IF Replaceable(c)' /\ \E p \in Procs : command[p].step \in Moving
               THEN late \union {c}
               ELSE late
    /\ UNCHANGED <<target, stored, manifest, sealed, command, sources, remains, interrupted>>

(* The operator clears a restored component away, with no restore running.  *)
Clear(c) ==
    /\ c \in Restored
    /\ \A p \in Procs : command[p].step \notin Restoring
    /\ dest' = [dest EXCEPT ![c] = Nothing]
    /\ remains' = remains \ {c}
    /\ interrupted' = (Restored # {c})
    /\ UNCHANGED <<target, stored, manifest, sealed, command, sources, late>>

(* The files of a finished backup are changed on the medium: lost, damaged, *)
(* or something is added.  Assumed: not while a restore reads them.         *)
Decay(b, c, content) ==
    /\ b \in sealed
    /\ \A p \in Procs : command[p].step \in Restoring => command[p].id # b
    /\ stored' = [stored EXCEPT ![b][c] = content]
    /\ UNCHANGED <<target, manifest, sealed, dest, command, sources, late, remains, interrupted>>
-----------------------------------------------------------------------------
Create(p) ==
    \/ \E b \in BackupIds : BeginCreate(p, b)
    \/ \E content \in SUBSET Files : \E unlisted \in SUBSET content :
          CopyComponent(p, content, unlisted)
    \/ WriteManifest(p) \/ CreateFails(p)

Restore(p) ==
    \/ \E b \in BackupIds : BeginRestore(p, b)
    \/ Stage(p) \/ CheckDestinations(p) \/ Install(p) \/ InstallFails(p) \/ Undo(p)
    \/ RestoreRefused(p)

Environment ==
    \E c \in Components :
        \/ \E kind \in {"file", "directory"}, files \in {{}, Files} : Appear(c, kind, files)
        \/ Clear(c)
        \/ \E b \in BackupIds, content \in SUBSET Files : Decay(b, c, content)

Next == (\E p \in Procs : Create(p) \/ Restore(p) \/ Crash(p)) \/ Environment

Spec == Init /\ [][Next]_vars
-----------------------------------------------------------------------------
(* Type invariant; a destination that is empty belongs to nobody, and a     *)
(* command is about a backup and a component.                               *)
TypeOK ==
    /\ target \subseteq BackupIds /\ sealed \subseteq BackupIds
    /\ stored \in [BackupIds -> [Components -> SUBSET Files]]
    /\ manifest \in [BackupIds -> [Components -> SUBSET Files]]
    /\ found \in [BackupIds -> [Components -> SUBSET Files]]
    /\ overlooked \in [BackupIds -> [Components -> SUBSET Files]]
    /\ dest \in [Components -> Place]
    /\ \A c \in Components : dest[c].kind = "nothing" => dest[c] = Nothing
    /\ command \in [Procs -> Command]
    /\ \A p \in Procs :
          /\ command[p].step # "idle" => command[p].id \in BackupIds
          /\ command[p].step \in {"copy", "stage", "install", "undo"} =>
                command[p].next \in Components
    /\ late \subseteq Components /\ remains \subseteq Components
    /\ interrupted \in BOOLEAN

(* From source to destination (create, verify, restore): a restored         *)
(* component has every file that create found in its source, but for the    *)
(* Secret files, although the backup may have lost or changed files since,  *)
(* or its process died; and no file with the name of a Secret file or the   *)
(* shape of a credential comes back.  The exceptions are the files in       *)
(* directories that create could not list, which a sealed backup is without *)
(* and nobody is told of, and a component that is just being removed again  *)
(* or whose removal stopped half way.                                       *)
RestoredIsSound ==
    /\ \A c \in Restored \ remains :
          LET b == dest[c].from IN
          found[b][c] \ (SecretNamed \union overlooked[b][c]) \subseteq dest[c].files
    /\ \A c \in Restored :
          dest[c].files \intersect (SecretNamed \union CredentialShaped) = {}

(* restore's undo: with no restore running and none stopped half way, the   *)
(* components are all there or none is, whichever of them failed.           *)
AllOrNothing ==
    /\ \A p \in Procs : command[p].step \notin Restoring
    /\ ~interrupted
    => Restored \in {{}, Components}

(* Retrying after a crash or a failed removal: whatever was left behind,    *)
(* the control state is never put together from two backups.                *)
NoMixture ==
    \A c, d \in Restored : dest[c].from = dest[d].from

(* "restore destination must be absent/clean": what others have put at a    *)
(* destination is never replaced or removed, neither by the installation    *)
(* nor by the undo.  The exception is what appeared after the check and     *)
(* os.replace does not stop at: a file where a file goes, an empty          *)
(* directory where a directory goes.                                        *)
OthersKept ==
    [][\A c \in Own : dest'[c] = dest[c] \/ c \in late]_dest
=============================================================================
