----------------------------- MODULE Backup_proof -----------------------------
(***************************************************************************)
(* Module Backup, for any number of components, files, backups and         *)
(* processes: its type invariant, and that what is restored is what was to *)
(* be kept.  For one restore at a time: that it brings back all of one     *)
(* backup or nothing, and keeps what others have put in its way.           *)
(***************************************************************************)
EXTENDS Backup, TLAPS

(* What every step says of the sources, it says of both histories of them. *)
USE DEF sources

(* A command in the middle of something has a backup and a component.      *)
Fits(c) ==
    /\ c \in Command
    /\ c.step # "idle" => c.id \in BackupIds
    /\ c.step \in {"copy", "stage", "install", "undo"} => c.next \in Components

(* The rest of the type invariant: files and destinations.                 *)
FilesOK ==
    /\ target \subseteq BackupIds /\ sealed \subseteq BackupIds
    /\ stored \in [BackupIds -> [Components -> SUBSET Files]]
    /\ manifest \in [BackupIds -> [Components -> SUBSET Files]]
    /\ found \in [BackupIds -> [Components -> SUBSET Files]]
    /\ overlooked \in [BackupIds -> [Components -> SUBSET Files]]
    /\ dest \in [Components -> Place]
    /\ \A c \in Components : dest[c].kind = "nothing" => dest[c] = Nothing
    /\ late \subseteq Components /\ remains \subseteq Components
    /\ interrupted \in BOOLEAN

(* The type invariant by its parts.                                        *)
LEMMA TypeParts ==
    TypeOK <=> FilesOK /\ command \in [Procs -> Command] /\ \A p \in Procs : Fits(command[p])
  BY DEF TypeOK, FilesOK, Fits

OthersKeep(p) == \A q \in Procs \ {p} : command'[q] = command[q]

(* The command of one process is replaced.                                 *)
LEMMA Becomes ==
    ASSUME TypeOK, NEW p \in Procs, NEW c, Fits(c), command' = [command EXCEPT ![p] = c]
    PROVE  /\ command' \in [Procs -> Command] /\ \A q \in Procs : Fits(command'[q])
           /\ command'[p] = c /\ OthersKeep(p)
  BY TypeParts DEF OthersKeep, Fits

(* Nothing recorded or staged yet, and no command.                         *)
LEMMA IdleFits == Nowhere \in [Components -> SUBSET Files] /\ Fits(Idle)
  <1>1. Nowhere \in [Components -> SUBSET Files]
    BY DEF Nowhere
  <1>2. 0 \in 0..(NumComponents + 1)
    BY BackupAssumption
  <1> QED
    BY <1>1, <1>2 DEF Idle, Fits, Command

(* The command ends.                                                       *)
LEMMA Ends ==
    ASSUME TypeOK, NEW p \in Procs, Finish(p)
    PROVE  /\ command' \in [Procs -> Command] /\ \A q \in Procs : Fits(command'[q])
           /\ command'[p] = Idle /\ command'[p].step = "idle" /\ OthersKeep(p)
  <1>1. command' = [command EXCEPT ![p] = Idle] /\ Idle.step = "idle"
    BY DEF Finish, Idle
  <1> QED
    BY <1>1, IdleFits, Becomes

(* A new command for one backup.                                           *)
LEMMA Starts ==
    ASSUME TypeOK, NEW p \in Procs, NEW b \in BackupIds, NEW step \in {"copy", "stage"},
           command' = [command EXCEPT ![p] =
                         [step |-> step, id |-> b, next |-> 1, data |-> Nowhere]]
    PROVE  /\ command' \in [Procs -> Command] /\ \A q \in Procs : Fits(command'[q])
           /\ command'[p] = [step |-> step, id |-> b, next |-> 1, data |-> Nowhere]
           /\ OthersKeep(p)
  <1> DEFINE c == [step |-> step, id |-> b, next |-> 1, data |-> Nowhere]
  <1>1. 1 \in Components /\ 1 \in 0..(NumComponents + 1)
    BY BackupAssumption DEF Components
  <1>2. Fits(c)
    BY <1>1, IdleFits DEF Fits, Command, Creating, Restoring
  <1> HIDE DEF c
  <1>3. command' = [command EXCEPT ![p] = c]
    BY DEF c
  <1>4. /\ command' \in [Procs -> Command] /\ \A q \in Procs : Fits(command'[q])
        /\ command'[p] = c /\ OthersKeep(p)
    BY <1>2, <1>3, Becomes
  <1> QED
    BY <1>4 DEF c

(* The next component is recorded or staged.                               *)
LEMMA Takes ==
    ASSUME TypeOK, NEW p \in Procs, command[p].step \in {"copy", "stage"},
           NEW content \in SUBSET Files, NEW last \in {"manifest", "check"},
           command' = [command EXCEPT
                         ![p].data[command[p].next] = content,
                         ![p].step = IF command[p].next = NumComponents THEN last
                                     ELSE command[p].step,
                         ![p].next = @ + 1]
    PROVE  /\ command' \in [Procs -> Command] /\ \A q \in Procs : Fits(command'[q])
           /\ command'[p].step = IF command[p].next = NumComponents THEN last
                                 ELSE command[p].step
           /\ command'[p].id = command[p].id
           /\ command'[p].next = command[p].next + 1
           /\ command'[p].data = [command[p].data EXCEPT ![command[p].next] = content]
           /\ OthersKeep(p)
  <1> DEFINE n == command[p].next
             s == IF n = NumComponents THEN last ELSE command[p].step
             c == [step |-> s, id |-> command[p].id, next |-> n + 1,
                   data |-> [command[p].data EXCEPT ![n] = content]]
  <1>1. /\ command[p] \in Command /\ command[p].id \in BackupIds /\ n \in Components
        /\ command \in [Procs -> Command]
    BY TypeParts DEF Fits
  <1>2. n \in 1..NumComponents
    BY <1>1 DEF Components
  <1>3. n + 1 \in 0..(NumComponents + 1) /\ (n # NumComponents => n + 1 \in Components)
    BY <1>2, BackupAssumption DEF Components
  <1>4. [command[p].data EXCEPT ![n] = content] \in [Components -> SUBSET Files]
    BY <1>1 DEF Command
  <1>5. Fits(c)
    BY <1>1, <1>3, <1>4 DEF Fits, Command, Creating, Restoring
  <1>6. command' = [command EXCEPT ![p] = c]
    BY <1>1 DEF Command
  <1> HIDE DEF c
  <1>7. /\ command' \in [Procs -> Command] /\ \A q \in Procs : Fits(command'[q])
        /\ command'[p] = c /\ OthersKeep(p)
    BY <1>5, <1>6, Becomes
  <1> QED
    BY <1>7 DEF c

(* The command goes on with another component.                             *)
LEMMA Turns ==
    ASSUME TypeOK, NEW p \in Procs, command[p].step # "idle",
           NEW step \in {"install", "undo"}, NEW n \in Components,
           command' = [command EXCEPT ![p] = [command[p] EXCEPT !.step = step, !.next = n]]
    PROVE  /\ command' \in [Procs -> Command] /\ \A q \in Procs : Fits(command'[q])
           /\ command'[p].step = step /\ command'[p].next = n
           /\ command'[p].id = command[p].id /\ command'[p].data = command[p].data
           /\ OthersKeep(p)
  <1> DEFINE c == [command[p] EXCEPT !.step = step, !.next = n]
  <1>1. command[p] \in Command /\ command[p].id \in BackupIds
    BY TypeParts DEF Fits
  <1>2. n \in 0..(NumComponents + 1)
    BY BackupAssumption DEF Components
  <1>3. Fits(c)
    BY <1>1, <1>2 DEF Fits, Command, Restoring, Moving
  <1> HIDE DEF c
  <1>4. /\ command' \in [Procs -> Command] /\ \A q \in Procs : Fits(command'[q])
        /\ command'[p] = c /\ OthersKeep(p)
    BY <1>3, Becomes DEF c
  <1> QED
    BY <1>1, <1>4 DEF c, Command
-----------------------------------------------------------------------------
(* What a step of Install, InstallFails or Undo does to its command.       *)
LEMMA MovingSteps ==
    ASSUME TypeOK, NEW p \in Procs
    PROVE  /\ CheckDestinations(p) =>
                 /\ command' \in [Procs -> Command] /\ \A q \in Procs : Fits(command'[q])
                 /\ command'[p].step = "install" /\ command'[p].next = 1
                 /\ command'[p].id = command[p].id /\ command'[p].data = command[p].data
                 /\ OthersKeep(p)
           /\ Install(p) =>
                 /\ command' \in [Procs -> Command] /\ \A q \in Procs : Fits(command'[q])
                 /\ IF command[p].next = NumComponents THEN command'[p] = Idle
                    ELSE /\ command'[p].step = "install"
                         /\ command'[p].next = command[p].next + 1
                         /\ command'[p].id = command[p].id
                         /\ command'[p].data = command[p].data
                 /\ OthersKeep(p)
           /\ InstallFails(p) =>
                 /\ command' \in [Procs -> Command] /\ \A q \in Procs : Fits(command'[q])
                 /\ IF command[p].next = 1 THEN command'[p] = Idle
                    ELSE /\ command'[p].step = "undo"
                         /\ command'[p].next = command[p].next - 1
                         /\ command'[p].id = command[p].id
                         /\ command'[p].data = command[p].data
                 /\ OthersKeep(p)
           /\ Undo(p) =>
                 /\ command' \in [Procs -> Command] /\ \A q \in Procs : Fits(command'[q])
                 /\ IF command[p].next = 1 THEN command'[p] = Idle
                    ELSE /\ command'[p].step = "undo"
                         /\ command'[p].next = command[p].next - 1
                         /\ command'[p].id = command[p].id
                         /\ command'[p].data = command[p].data
                 /\ OthersKeep(p)
  <1> DEFINE n == command[p].next
  <1>t. /\ command \in [Procs -> Command] /\ command[p] \in Command
        /\ command[p].step \in {"install", "undo"} => n \in Components
    BY TypeParts DEF Fits
  <1>1. 1 \in Components
    BY BackupAssumption DEF Components
  <1>2. \A i \in Components : /\ i # NumComponents => i + 1 \in Components
                              /\ i # 1 => i - 1 \in Components
    BY BackupAssumption DEF Components
  <1>3. ASSUME CheckDestinations(p)
        PROVE  /\ command[p].step # "idle"
               /\ command' = [command EXCEPT ![p] = [command[p] EXCEPT !.step = "install", !.next = 1]]
    BY <1>t, <1>3 DEF CheckDestinations, Advance
  <1>4. ASSUME Install(p), n # NumComponents
        PROVE  /\ command[p].step # "idle" /\ n + 1 \in Components
               /\ command' = [command EXCEPT ![p] = [command[p] EXCEPT !.step = "install", !.next = n + 1]]
    <2>1. command[p].step = "install" /\ command' = [command EXCEPT ![p].next = @ + 1]
      BY <1>4 DEF Install
    <2>2. [command[p] EXCEPT !.step = "install", !.next = n + 1] = [command[p] EXCEPT !.next = n + 1]
      BY <1>t, <2>1 DEF Command
    <2>3. command' = [command EXCEPT ![p] = [command[p] EXCEPT !.next = n + 1]]
      BY <2>1
    <2> QED
      BY <1>t, <1>2, <1>4, <2>1, <2>2, <2>3
  <1>5. ASSUME InstallFails(p), n # 1
        PROVE  /\ command[p].step # "idle" /\ n - 1 \in Components
               /\ command' = [command EXCEPT ![p] = [command[p] EXCEPT !.step = "undo", !.next = n - 1]]
    BY <1>t, <1>2, <1>5 DEF InstallFails, StartUndo
  <1>6. ASSUME Undo(p), n # 1
        PROVE  /\ command[p].step # "idle" /\ n - 1 \in Components
               /\ command' = [command EXCEPT ![p] = [command[p] EXCEPT !.step = "undo", !.next = n - 1]]
    <2>1. command[p].step = "undo" /\ command' = [command EXCEPT ![p].next = @ - 1]
      BY <1>6 DEF Undo
    <2>2. [command[p] EXCEPT !.step = "undo", !.next = n - 1] = [command[p] EXCEPT !.next = n - 1]
      BY <1>t, <2>1 DEF Command
    <2>3. command' = [command EXCEPT ![p] = [command[p] EXCEPT !.next = n - 1]]
      BY <2>1
    <2> QED
      BY <1>t, <1>2, <1>6, <2>1, <2>2, <2>3
  <1>7. /\ Install(p) /\ n = NumComponents => Finish(p)
        /\ InstallFails(p) /\ n = 1 => Finish(p)
        /\ Undo(p) /\ n = 1 => Finish(p)
    BY DEF Install, InstallFails, StartUndo, Undo
  <1> HIDE DEF n
  <1>8. CheckDestinations(p) =>
          /\ command' \in [Procs -> Command] /\ \A q \in Procs : Fits(command'[q])
          /\ command'[p].step = "install" /\ command'[p].next = 1
          /\ command'[p].id = command[p].id /\ command'[p].data = command[p].data
          /\ OthersKeep(p)
    BY <1>1, <1>3, Turns
  <1>9. Install(p) =>
          /\ command' \in [Procs -> Command] /\ \A q \in Procs : Fits(command'[q])
          /\ IF n = NumComponents THEN command'[p] = Idle
             ELSE /\ command'[p].step = "install" /\ command'[p].next = n + 1
                  /\ command'[p].id = command[p].id /\ command'[p].data = command[p].data
          /\ OthersKeep(p)
    BY <1>4, <1>7, Turns, Ends
  <1>10. InstallFails(p) =>
          /\ command' \in [Procs -> Command] /\ \A q \in Procs : Fits(command'[q])
          /\ IF n = 1 THEN command'[p] = Idle
             ELSE /\ command'[p].step = "undo" /\ command'[p].next = n - 1
                  /\ command'[p].id = command[p].id /\ command'[p].data = command[p].data
          /\ OthersKeep(p)
    BY <1>5, <1>7, Turns, Ends
  <1>11. Undo(p) =>
          /\ command' \in [Procs -> Command] /\ \A q \in Procs : Fits(command'[q])
          /\ IF n = 1 THEN command'[p] = Idle
             ELSE /\ command'[p].step = "undo" /\ command'[p].next = n - 1
                  /\ command'[p].id = command[p].id /\ command'[p].data = command[p].data
          /\ OthersKeep(p)
    BY <1>6, <1>7, Turns, Ends
  <1> QED
    BY <1>8, <1>9, <1>10, <1>11 DEF n

(* Steps that end a command, whatever it was doing.                        *)
Ending(p) == WriteManifest(p) \/ CreateFails(p) \/ RestoreRefused(p) \/ Crash(p)

(* What a restore stages is a set of files of its backup.                  *)
LEMMA StagedContent ==
    ASSUME TypeOK, NEW b \in BackupIds, NEW n \in Components
    PROVE  Content(b, n) \in SUBSET Files
  BY TypeParts DEF FilesOK, Content

(* Stage as the lemma about data wants it.                                 *)
LEMMA CopySteps ==
    ASSUME TypeOK, NEW p \in Procs
    PROVE  /\ \A content \in SUBSET Files, unlisted \in SUBSET Files :
                 CopyComponent(p, content, unlisted) =>
                 /\ command' \in [Procs -> Command] /\ \A q \in Procs : Fits(command'[q])
                 /\ command'[p].step = IF command[p].next = NumComponents THEN "manifest" ELSE "copy"
                 /\ command'[p].id = command[p].id
                 /\ command'[p].next = command[p].next + 1
                 /\ command'[p].data = [command[p].data EXCEPT
                                          ![command[p].next] = Copied(content \ unlisted)]
                 /\ OthersKeep(p)
           /\ Stage(p) =>
                 /\ command' \in [Procs -> Command] /\ \A q \in Procs : Fits(command'[q])
                 /\ command'[p].step = IF command[p].next = NumComponents THEN "check" ELSE "stage"
                 /\ command'[p].id = command[p].id
                 /\ command'[p].next = command[p].next + 1
                 /\ command'[p].data = [command[p].data EXCEPT ![command[p].next] =
                                          Content(command[p].id, command[p].next)]
                 /\ OthersKeep(p)
  <1>t. Fits(command[p])
    BY TypeParts
  <1>1. ASSUME NEW content \in SUBSET Files, NEW unlisted \in SUBSET Files,
               CopyComponent(p, content, unlisted)
        PROVE  /\ command' \in [Procs -> Command] /\ \A q \in Procs : Fits(command'[q])
               /\ command'[p].step = IF command[p].next = NumComponents THEN "manifest" ELSE "copy"
               /\ command'[p].id = command[p].id
               /\ command'[p].next = command[p].next + 1
               /\ command'[p].data = [command[p].data EXCEPT
                                        ![command[p].next] = Copied(content \ unlisted)]
               /\ OthersKeep(p)
    <2>1. /\ command[p].step = "copy"
          /\ Copied(content \ unlisted) \in SUBSET Files
          /\ command' = [command EXCEPT
                           ![p].data[command[p].next] = Copied(content \ unlisted),
                           ![p].step = IF command[p].next = NumComponents THEN "manifest"
                                       ELSE command[p].step,
                           ![p].next = @ + 1]
      BY <1>1 DEF CopyComponent, Copied
    <2> QED
      BY <2>1, Takes
  <1>2. ASSUME Stage(p)
        PROVE  /\ command' \in [Procs -> Command] /\ \A q \in Procs : Fits(command'[q])
               /\ command'[p].step = IF command[p].next = NumComponents THEN "check" ELSE "stage"
               /\ command'[p].id = command[p].id
               /\ command'[p].next = command[p].next + 1
               /\ command'[p].data = [command[p].data EXCEPT ![command[p].next] =
                                        Content(command[p].id, command[p].next)]
               /\ OthersKeep(p)
    <2>1. /\ command[p].step = "stage"
          /\ Content(command[p].id, command[p].next) \in SUBSET Files
          /\ command' = [command EXCEPT
                           ![p].data[command[p].next] = Content(command[p].id, command[p].next),
                           ![p].step = IF command[p].next = NumComponents THEN "check"
                                       ELSE command[p].step,
                           ![p].next = @ + 1]
      BY <1>t, <1>2, StagedContent DEF Stage, Fits
    <2> QED
      BY <2>1, Takes
  <1> QED
    BY <1>1, <1>2
-----------------------------------------------------------------------------
(* The places a step makes: what was restored, nothing, or another's.      *)
LEMMA Places ==
    /\ Nothing \in Place
    /\ \A kind \in {"file", "directory"}, files \in SUBSET Files :
          /\ SomebodysOwn(kind, files) \in Place /\ SomebodysOwn(kind, files).kind = kind
          /\ SomebodysOwn(kind, files).from = NoBackup /\ SomebodysOwn(kind, files).files = files
    /\ \A c \in Components, b \in BackupIds, files \in SUBSET Files :
          [kind |-> Kind(c), from |-> b, files |-> files] \in Place
    /\ \A c \in Components : Kind(c) \in {"file", "directory"}
  BY DEF Nothing, Place, SomebodysOwn, Kind

(* A removal that stops half way leaves the place what it was.             *)
LEMMA Remains ==
    ASSUME dest \in [Components -> Place], NEW n \in Components, PartlyRemove(n)
    PROVE  /\ dest' \in [Components -> Place]
           /\ dest'[n].kind = dest[n].kind /\ dest'[n].from = dest[n].from
           /\ dest'[n].files \subseteq dest[n].files
           /\ dest[n].kind # "directory" => dest'[n] = dest[n]
           /\ \A c \in Components \ {n} : dest'[c] = dest[c]
           /\ remains' = remains \union {n} /\ interrupted' = TRUE
  <1>1. PICK left \in SUBSET dest[n].files :
          /\ dest[n].kind # "directory" => left = dest[n].files
          /\ dest' = [dest EXCEPT ![n].files = left]
    BY DEF PartlyRemove
  <1>2. /\ dest'[n] = [dest[n] EXCEPT !.files = left] /\ dest[n] \in Place
        /\ \A c \in Components \ {n} : dest'[c] = dest[c]
        /\ DOMAIN dest' = Components /\ dest' = [c \in Components |-> dest'[c]]
    BY <1>1
  <1>3. [dest[n] EXCEPT !.files = left] \in Place
    BY <1>2 DEF Place
  <1>4. dest' \in [Components -> Place]
    BY <1>2, <1>3
  <1>5. /\ dest'[n].kind = dest[n].kind /\ dest'[n].from = dest[n].from
        /\ dest'[n].files = left
        /\ left = dest[n].files => dest'[n] = dest[n]
    BY <1>2 DEF Place
  <1> QED
    BY <1>1, <1>2, <1>4, <1>5 DEF PartlyRemove

(* And the files and destinations their types.                             *)
LEMMA PartlyKeepsFiles ==
    ASSUME TypeOK, NEW p \in Procs, command[p].step = "undo", PartlyRemove(command[p].next),
           UNCHANGED <<target, stored, manifest, sealed, sources, late>>
    PROVE  FilesOK'
  <1> DEFINE n == command[p].next
  <1>1. n \in Components /\ FilesOK
    BY TypeParts DEF Fits
  <1> HIDE DEF n
  <1>2. PartlyRemove(n)
    BY DEF n
  <1>3. dest \in [Components -> Place]
    BY <1>1 DEF FilesOK
  <1>4. /\ dest' \in [Components -> Place]
        /\ dest'[n].kind = dest[n].kind
        /\ dest[n].kind # "directory" => dest'[n] = dest[n]
        /\ \A c \in Components \ {n} : dest'[c] = dest[c]
        /\ remains' = remains \union {n} /\ interrupted' = TRUE
    BY <1>1, <1>2, <1>3, Remains
  <1>5. \A c \in Components : dest'[c].kind = "nothing" => dest'[c] = Nothing
    <2>1. ASSUME NEW c \in Components, dest'[c].kind = "nothing"
          PROVE  dest'[c] = Nothing
      <3>1. dest'[c] = dest[c]
        BY <1>4, <2>1
      <3> QED
        BY <1>1, <2>1, <3>1 DEF FilesOK
    <2> QED
      BY <2>1
  <1> QED
    BY <1>1, <1>4, <1>5 DEF FilesOK

(* Type correctness: backups, destinations and commands keep their types,  *)
(* for any number of processes that create, restore and die.               *)
THEOREM TypeCorrect == Spec => []TypeOK
  <1>1. Init => TypeOK
    <2> SUFFICES ASSUME Init PROVE TypeOK
      OBVIOUS
    <2>1. /\ command \in [Procs -> Command] /\ \A p \in Procs : Fits(command[p])
      BY IdleFits DEF Init, Fits
    <2>2. FilesOK
      BY IdleFits, Places DEF Init, FilesOK, Nothing
    <2> QED
      BY <2>1, <2>2, TypeParts
  <1>2. TypeOK /\ [Next]_vars => TypeOK'
    <2> SUFFICES ASSUME TypeOK, [Next]_vars
                 PROVE  TypeOK'
      OBVIOUS
    <2>f. FilesOK /\ command \in [Procs -> Command] /\ \A p \in Procs : Fits(command[p])
      BY TypeParts
    <2>q. ASSUME FilesOK', command' \in [Procs -> Command], \A q \in Procs : Fits(command'[q])
          PROVE  TypeOK'
      BY <2>q DEF TypeOK, FilesOK, Fits
    <2>1. ASSUME NEW p \in Procs, NEW b \in BackupIds, BeginCreate(p, b)
          PROVE  TypeOK'
      <3>1. FilesOK'
        BY <2>f, <2>1 DEF BeginCreate, FilesOK
      <3> QED
        BY <2>1, <2>q, <3>1, Starts DEF BeginCreate
    <2>2. ASSUME NEW p \in Procs, NEW content \in SUBSET Files, NEW unlisted \in SUBSET Files,
                 CopyComponent(p, content, unlisted)
          PROVE  TypeOK'
      <3>1. command[p].id \in BackupIds /\ command[p].next \in Components
        BY <2>2, <2>f DEF CopyComponent, Fits
      <3>2. Copied(content \ unlisted) \in SUBSET Files
        BY DEF Copied
      <3>3. FilesOK'
        BY <2>2, <2>f, <3>1, <3>2 DEF CopyComponent, FilesOK
      <3> QED
        BY <2>2, <2>q, <3>3, CopySteps
    <2>3. ASSUME NEW p \in Procs, Ending(p)
          PROVE  TypeOK'
      <3>1. Finish(p)
        BY <2>3 DEF Ending, WriteManifest, CreateFails, RestoreRefused, Crash
      <3>2. CASE WriteManifest(p)
        <4>1. command[p].id \in BackupIds /\ command[p].data \in [Components -> SUBSET Files]
          BY <2>f, <3>2 DEF WriteManifest, Fits, Command
        <4>2. /\ manifest' = [manifest EXCEPT ![command[p].id] = command[p].data]
              /\ sealed' = sealed \union {command[p].id}
              /\ UNCHANGED <<target, stored, dest, sources, late, remains, interrupted>>
          BY <3>2 DEF WriteManifest
        <4>3. /\ manifest' \in [BackupIds -> [Components -> SUBSET Files]]
              /\ sealed' \subseteq BackupIds
          BY <2>f, <4>1, <4>2 DEF FilesOK
        <4>4. UNCHANGED <<target, stored, dest, sources, late, remains, interrupted>>
          BY <4>2
        <4>5. FilesOK'
          BY <2>f, <4>3, <4>4 DEF FilesOK
        <4> QED
          BY <2>q, <3>1, <4>5, Ends
      <3>3. CASE CreateFails(p)
        <4>1. \/ /\ stored' = [stored EXCEPT ![command[p].id] = Nowhere]
                 /\ found' = [found EXCEPT ![command[p].id] = Nowhere]
                 /\ overlooked' = [overlooked EXCEPT ![command[p].id] = Nowhere]
              \/ UNCHANGED <<stored, sources>>
          BY <3>3 DEF CreateFails
        <4>2. /\ stored' \in [BackupIds -> [Components -> SUBSET Files]]
              /\ found' \in [BackupIds -> [Components -> SUBSET Files]]
              /\ overlooked' \in [BackupIds -> [Components -> SUBSET Files]]
          <5>1. CASE UNCHANGED <<stored, sources>>
            BY <2>f, <5>1 DEF FilesOK
          <5>2. ASSUME NEW f, f \in [BackupIds -> [Components -> SUBSET Files]]
                PROVE  [f EXCEPT ![command[p].id] = Nowhere]
                          \in [BackupIds -> [Components -> SUBSET Files]]
            BY <5>2, IdleFits
          <5>3. CASE /\ stored' = [stored EXCEPT ![command[p].id] = Nowhere]
                     /\ found' = [found EXCEPT ![command[p].id] = Nowhere]
                     /\ overlooked' = [overlooked EXCEPT ![command[p].id] = Nowhere]
            <6>1. /\ stored \in [BackupIds -> [Components -> SUBSET Files]]
                  /\ found \in [BackupIds -> [Components -> SUBSET Files]]
                  /\ overlooked \in [BackupIds -> [Components -> SUBSET Files]]
              BY <2>f DEF FilesOK
            <6> QED
              BY <5>2, <5>3, <6>1
          <5> QED
            BY <4>1, <5>1, <5>3
        <4>3. /\ target' \subseteq target
              /\ UNCHANGED <<manifest, sealed, dest, late, remains, interrupted>>
          BY <3>3 DEF CreateFails
        <4>4. FilesOK'
          BY <2>f, <4>2, <4>3 DEF FilesOK
        <4> QED
          BY <2>q, <3>1, <4>4, Ends
      <3>4. CASE RestoreRefused(p)
        <4>1. FilesOK'
          BY <2>f, <3>4 DEF RestoreRefused, FilesOK
        <4> QED
          BY <2>q, <3>1, <4>1, Ends
      <3>5. CASE Crash(p)
        <4>1. CASE UNCHANGED <<dest, remains>> /\ interrupted' \in BOOLEAN
          <5>1. FilesOK'
            BY <2>f, <3>5, <4>1 DEF Crash, FilesOK
          <5> QED
            BY <2>q, <3>1, <5>1, Ends
        <4>2. CASE command[p].step = "undo" /\ PartlyRemove(command[p].next)
          <5>1. FilesOK'
            BY <3>5, <4>2, PartlyKeepsFiles DEF Crash
          <5> QED
            BY <2>q, <3>1, <5>1, Ends
        <4>3. interrupted \in BOOLEAN
          BY <2>f DEF FilesOK
        <4> QED
          BY <3>5, <4>1, <4>2, <4>3 DEF Crash
      <3> QED
        BY <2>3, <3>2, <3>3, <3>4, <3>5 DEF Ending
    <2>4. ASSUME NEW p \in Procs, NEW b \in BackupIds, BeginRestore(p, b)
          PROVE  TypeOK'
      <3>1. FilesOK'
        BY <2>f, <2>4 DEF BeginRestore, FilesOK
      <3> QED
        BY <2>4, <2>q, <3>1, Starts DEF BeginRestore
    <2>5. ASSUME NEW p \in Procs, Stage(p)
          PROVE  TypeOK'
      <3>1. FilesOK'
        BY <2>f, <2>5 DEF Stage, FilesOK
      <3> QED
        BY <2>5, <2>q, <3>1, CopySteps
    <2>6. ASSUME NEW p \in Procs, CheckDestinations(p) \/ InstallFails(p)
          PROVE  TypeOK'
      <3>1. FilesOK'
        BY <2>f, <2>6 DEF CheckDestinations, InstallFails, FilesOK
      <3> QED
        BY <2>6, <2>q, <3>1, MovingSteps
    <2>7. ASSUME NEW p \in Procs, Install(p)
          PROVE  TypeOK'
      <3> DEFINE n == command[p].next
                 new == [kind |-> Kind(n), from |-> command[p].id, files |-> command[p].data[n]]
      <3>1. /\ n \in Components /\ command[p].id \in BackupIds
            /\ command[p].data \in [Components -> SUBSET Files]
        BY <2>7, <2>f DEF Install, Fits, Command
      <3>2. new \in Place /\ new.kind # "nothing"
        BY <3>1, Places
      <3>3. dest' = [dest EXCEPT ![n] = new] /\ late' = late \ {n}
            /\ remains' = remains \ {n}
            /\ UNCHANGED <<target, stored, manifest, sealed, sources, interrupted>>
        BY <2>7 DEF Install
      <3> HIDE DEF new, n
      <3>4. FilesOK'
        BY <2>f, <3>2, <3>3 DEF FilesOK
      <3> QED
        BY <2>7, <2>q, <3>4, MovingSteps
    <2>8. ASSUME NEW p \in Procs, Undo(p)
          PROVE  TypeOK'
      <3>1. FilesOK'
        <4>1. CASE /\ dest' = [dest EXCEPT ![command[p].next] = Nothing]
                   /\ remains' = remains \ {command[p].next} /\ UNCHANGED interrupted
          BY <2>f, <2>8, <4>1, Places DEF Undo, FilesOK
        <4>2. CASE PartlyRemove(command[p].next)
          BY <2>8, <4>2, PartlyKeepsFiles DEF Undo
        <4> QED
          BY <2>8, <4>1, <4>2 DEF Undo
      <3> QED
        BY <2>8, <2>q, <3>1, MovingSteps
    <2>9. ASSUME NEW c \in Components, NEW kind \in {"file", "directory"},
                 NEW files \in {{}, Files}, Appear(c, kind, files)
          PROVE  TypeOK'
      <3>1. SomebodysOwn(kind, files) \in Place /\ SomebodysOwn(kind, files).kind # "nothing"
        BY Places
      <3>2. FilesOK'
        BY <2>f, <2>9, <3>1 DEF Appear, FilesOK
      <3> QED
        BY <2>9, <2>f, <2>q, <3>2 DEF Appear
    <2>10. ASSUME NEW c \in Components, Clear(c)
           PROVE  TypeOK'
      <3>1. FilesOK'
        BY <2>f, <2>10, Places DEF Clear, FilesOK
      <3> QED
        BY <2>10, <2>f, <2>q, <3>1 DEF Clear
    <2>11. ASSUME NEW c \in Components, NEW b \in BackupIds, NEW content \in SUBSET Files,
                  Decay(b, c, content)
           PROVE  TypeOK'
      <3>1. FilesOK'
        BY <2>f, <2>11 DEF Decay, FilesOK
      <3> QED
        BY <2>11, <2>f, <2>q, <3>1 DEF Decay
    <2>12. CASE UNCHANGED vars
      BY <2>12 DEF vars, TypeOK, Restored
    <2> QED
      BY <2>1, <2>2, <2>3, <2>4, <2>5, <2>6, <2>7, <2>8, <2>9, <2>10, <2>11, <2>12
         DEF Next, Create, Restore, Environment, Ending
  <1> QED
    BY <1>1, <1>2, PTL DEF Spec
-----------------------------------------------------------------------------
(* RestoredIsSound.  What create was to keep of a source, and when a set   *)
(* of files has all of that and nothing that is secret.                    *)
Kept(b, c) == found[b][c] \ (SecretNamed \union overlooked[b][c])

SoundFor(kept, files) ==
    /\ kept \subseteq files
    /\ files \intersect (SecretNamed \union CredentialShaped) = {}

(* What the process has recorded of its sources is what it was to keep, in *)
(* a directory of its own that has no manifest yet.                        *)
CreateOK(p) ==
    command[p].step \in Creating =>
        /\ command[p].id \in target \ sealed
        /\ \A c \in Components :
              (command[p].step = "copy" => c < command[p].next) =>
                  command[p].data[c] = Kept(command[p].id, c)

CreatorsApart ==
    \A p, q \in Procs :
        /\ command[p].step \in Creating /\ command[q].step \in Creating
        /\ command[p].id = command[q].id
        => p = q

CreateInv ==
    /\ sealed \subseteq target
    /\ CreatorsApart
    /\ \A p \in Procs : CreateOK(p)
    /\ \A b \in sealed, c \in Components : manifest[b][c] = Kept(b, c)

(* The backup that is being restored verifies, and so what was staged of   *)
(* it is sound.                                                            *)
RestoreOK(p) ==
    command[p].step \in Restoring =>
        /\ Verifies(command[p].id)
        /\ \A c \in Components :
              (command[p].step = "stage" => c < command[p].next) =>
                  SoundFor(Kept(command[p].id, c), command[p].data[c])

(* So is what was moved into place, all of it but what half a removal has  *)
(* left.                                                                   *)
DestSound(c) ==
    /\ dest[c].from \in sealed
    /\ c \notin remains => Kept(dest[c].from, c) \subseteq dest[c].files
    /\ dest[c].files \intersect (SecretNamed \union CredentialShaped) = {}

DestOK == \A c \in Restored : DestSound(c)

SoundInv == CreateInv /\ (\A p \in Procs : RestoreOK(p)) /\ DestOK

(* A step that writes no backup, and begins none.                          *)
LEMMA CreateKept ==
    ASSUME CreateInv, UNCHANGED <<target, manifest, sealed, sources>>,
           \A q \in Procs : command'[q] = command[q] \/ command'[q].step \notin Creating
    PROVE  CreateInv'
  <1>1. ASSUME NEW q \in Procs
        PROVE  CreateOK(q)'
    BY DEF CreateInv, CreateOK, Kept
  <1>2. CreatorsApart'
    BY DEF CreateInv, CreatorsApart
  <1> QED
    BY <1>1, <1>2 DEF CreateInv, Kept

(* A finished backup is not written any more.                              *)
FinishedKept ==
    /\ sealed \subseteq sealed'
    /\ \A b \in sealed : /\ found'[b] = found[b] /\ overlooked'[b] = overlooked[b]
                         /\ manifest'[b] = manifest[b]

(* What is being restored stays sound, if its backup stays as it is.       *)
LEMMA RestoresKept ==
    ASSUME NEW q \in Procs, RestoreOK(q), FinishedKept,
           command[q].step \in Restoring => stored'[command[q].id] = stored[command[q].id],
           command'[q] = command[q]
    PROVE  RestoreOK(q)'
  <1>1. CASE command[q].step \in Restoring
    <2>1. command[q].id \in sealed
      BY <1>1 DEF RestoreOK, Verifies
    <2> QED
      BY <1>1, <2>1 DEF RestoreOK, Verifies, FinishedKept, Kept
  <1>2. CASE command[q].step \notin Restoring
    BY <1>2 DEF RestoreOK
  <1> QED
    BY <1>1, <1>2

(* Each destination as it was, not from a backup, or sound.                *)
LEMMA DestKept ==
    ASSUME DestOK, FinishedKept,
           \A c \in Components :
              \/ dest'[c] = dest[c] /\ (c \in remains => c \in remains')
              \/ dest'[c].from = NoBackup \/ DestSound(c)'
    PROVE  DestOK'
  <1> SUFFICES ASSUME NEW c \in Restored', dest'[c] = dest[c], c \in remains => c \in remains'
               PROVE  DestSound(c)'
    BY DEF DestOK, Restored
  <1>1. c \in Restored
    BY DEF Restored
  <1> QED
    BY <1>1 DEF DestOK, DestSound, FinishedKept, Kept

(* The sound invariant after a step that is no step of create: each        *)
(* command as it was, or no restore any more, or sound.                    *)
LEMMA NotCreating ==
    ASSUME SoundInv, UNCHANGED <<target, manifest, sealed, sources>>,
           \A q \in Procs :
              command[q].step \in Restoring => stored'[command[q].id] = stored[command[q].id],
           \A q \in Procs :
              \/ command'[q] = command[q]
              \/ command'[q].step \notin Creating /\ RestoreOK(q)',
           \A c \in Components :
              \/ dest'[c] = dest[c] /\ (c \in remains => c \in remains')
              \/ dest'[c].from = NoBackup \/ DestSound(c)'
    PROVE  SoundInv'
  <1>1. CreateInv'
    BY CreateKept DEF SoundInv
  <1>2. FinishedKept
    BY DEF FinishedKept
  <1>3. \A q \in Procs : RestoreOK(q)'
    BY <1>2, RestoresKept DEF SoundInv
  <1>4. DestOK'
    BY <1>2, DestKept DEF SoundInv
  <1> QED
    BY <1>1, <1>3, <1>4 DEF SoundInv

(* A step of create that writes in its own backup only.                    *)
LEMMA OnlyCreating ==
    ASSUME SoundInv, TypeOK, NEW p \in Procs, OthersKeep(p), UNCHANGED <<dest, remains>>,
           command'[p].step \notin Restoring, sealed \subseteq sealed',
           \A b \in sealed : /\ found'[b] = found[b] /\ overlooked'[b] = overlooked[b]
                             /\ manifest'[b] = manifest[b] /\ stored'[b] = stored[b]
    PROVE  (\A q \in Procs : RestoreOK(q)') /\ DestOK'
  <1>1. FinishedKept
    BY DEF FinishedKept
  <1>2. RestoreOK(p)'
    BY DEF RestoreOK
  <1>3. ASSUME NEW q \in Procs \ {p}
        PROVE  RestoreOK(q)'
    <2>1. command'[q] = command[q]
      BY <1>3 DEF OthersKeep
    <2>2. command[q].step \in Restoring => command[q].id \in sealed
      BY DEF SoundInv, RestoreOK, Verifies
    <2> QED
      BY <1>1, <2>1, <2>2, RestoresKept DEF SoundInv
  <1>4. DestOK'
    BY <1>1, DestKept DEF SoundInv
  <1> QED
    BY <1>2, <1>3, <1>4

(* A backup that verifies is sound, directories and files alike.           *)
LEMMA ContentSound ==
    ASSUME CreateInv, NEW b \in BackupIds, Verifies(b), NEW c \in Components
    PROVE  SoundFor(Kept(b, c), Content(b, c))
  BY DEF CreateInv, Verifies, SoundFor, Content

(* The invariant of BeginCreate: the directory is new, so nobody else's.   *)
LEMMA BeginCreateSound ==
    ASSUME TypeOK, SoundInv, NEW p \in Procs, NEW b \in BackupIds, BeginCreate(p, b)
    PROVE  SoundInv'
  <1>1. /\ b \notin target /\ target' = target \union {b} /\ command[p] = Idle
        /\ UNCHANGED <<stored, manifest, sealed, dest, sources, remains>>
    BY DEF BeginCreate
  <1>2. /\ command'[p] = [step |-> "copy", id |-> b, next |-> 1, data |-> Nowhere]
        /\ OthersKeep(p)
    BY Starts DEF BeginCreate
  <1>3. CreateOK(p)'
    <2>1. \A c \in Components : ~(c < 1)
      BY DEF Components
    <2> QED
      BY <1>1, <1>2, <2>1 DEF CreateOK, CreateInv, SoundInv
  <1>4. ASSUME NEW q \in Procs \ {p}
        PROVE  CreateOK(q)' /\ (command[q].step \in Creating => command[q].id # b)
    BY <1>1, <1>2 DEF CreateOK, CreateInv, SoundInv, OthersKeep, Kept
  <1>5. CreatorsApart'
    BY <1>2, <1>4 DEF CreatorsApart, CreateInv, SoundInv, OthersKeep
  <1>6. CreateInv'
    BY <1>1, <1>3, <1>4, <1>5 DEF CreateInv, SoundInv, Kept
  <1>7. (\A q \in Procs : RestoreOK(q)') /\ DestOK'
    BY <1>1, <1>2, OnlyCreating DEF Restoring, Moving
  <1> QED
    BY <1>6, <1>7 DEF SoundInv

(* Of CopyComponent: what it records is what it was to keep.               *)
LEMMA CopySound ==
    ASSUME TypeOK, SoundInv, NEW p \in Procs, NEW content \in SUBSET Files,
           NEW unlisted \in SUBSET Files, CopyComponent(p, content, unlisted)
    PROVE  SoundInv'
  <1> DEFINE b == command[p].id
             n == command[p].next
             copy == Copied(content \ unlisted)
  <1>1. /\ command[p].step = "copy" /\ b \in target \ sealed
        /\ stored' = [stored EXCEPT ![b][n] = copy]
        /\ found' = [found EXCEPT ![b][n] = content]
        /\ overlooked' = [overlooked EXCEPT ![b][n] = unlisted]
        /\ UNCHANGED <<target, manifest, sealed, dest, remains>>
    BY DEF CopyComponent, Copied, SoundInv, CreateInv, CreateOK, Creating
  <1>2. /\ command'[p].step = IF n = NumComponents THEN "manifest" ELSE "copy"
        /\ command'[p].id = b /\ command'[p].next = n + 1
        /\ command'[p].data = [command[p].data EXCEPT ![n] = copy]
        /\ OthersKeep(p)
    BY CopySteps
  <1>3. /\ n \in Components /\ b \in BackupIds /\ command[p].data \in [Components -> SUBSET Files]
        /\ found \in [BackupIds -> [Components -> SUBSET Files]]
        /\ overlooked \in [BackupIds -> [Components -> SUBSET Files]]
        /\ stored \in [BackupIds -> [Components -> SUBSET Files]]
    BY <1>1, TypeParts DEF Fits, Command, FilesOK
  <1>k. copy = content \ (SecretNamed \union unlisted)
    BY DEF Copied
  <1> HIDE DEF b, n, copy
  <1>4. CreateOK(p)'
    <2>1. ASSUME NEW c \in Components, command'[p].step = "copy" => c < command'[p].next
          PROVE  c = n \/ (c # n /\ c < n)
      BY <1>2, <1>3, <2>1, BackupAssumption DEF Components
    <2>2. \A c \in Components : c < n => command[p].data[c] = Kept(b, c)
      BY <1>1 DEF CreateOK, CreateInv, SoundInv, Creating, b, n
    <2>3. ASSUME NEW c \in Components, c = n \/ (c # n /\ c < n)
          PROVE  command'[p].data[c] = found'[b][c] \ (SecretNamed \union overlooked'[b][c])
      <3>1. CASE c = n
        <4>1. found'[b][c] = content /\ overlooked'[b][c] = unlisted /\ command'[p].data[c] = copy
          BY <1>1, <1>2, <1>3, <3>1
        <4> QED
          BY <1>k, <4>1
      <3>2. CASE c # n
        <4>1. /\ found'[b][c] = found[b][c] /\ overlooked'[b][c] = overlooked[b][c]
              /\ command'[p].data[c] = command[p].data[c]
          BY <1>1, <1>2, <1>3, <3>2
        <4> QED
          BY <2>2, <2>3, <3>2, <4>1 DEF Kept
      <3> QED
        BY <3>1, <3>2
    <2> QED
      BY <1>1, <1>2, <2>1, <2>3 DEF CreateOK, Kept
  <1>5. ASSUME NEW q \in Procs \ {p}
        PROVE  CreateOK(q)'
    <2>1. command'[q] = command[q] /\ (command[q].step \in Creating => command[q].id # b)
      BY <1>1, <1>2 DEF OthersKeep, CreatorsApart, CreateInv, SoundInv, Creating, b
    <2>2. command[q].step \in Creating => command[q].id \in BackupIds
      BY TypeParts DEF Fits, Creating
    <2>3. command[q].step \in Creating =>
             /\ found'[command[q].id] = found[command[q].id]
             /\ overlooked'[command[q].id] = overlooked[command[q].id]
      BY <1>1, <1>3, <2>1, <2>2
    <2> QED
      BY <1>1, <2>1, <2>3 DEF CreateOK, CreateInv, SoundInv, Kept
  <1>6. CreatorsApart'
    BY <1>1, <1>2 DEF CreatorsApart, CreateInv, SoundInv, OthersKeep, Creating, b
  <1>7. /\ \A d \in sealed : /\ found'[d] = found[d] /\ overlooked'[d] = overlooked[d]
                            /\ stored'[d] = stored[d]
        /\ sealed \subseteq BackupIds
    BY <1>1, <1>3, TypeParts DEF FilesOK
  <1>8. CreateInv'
    BY <1>1, <1>4, <1>5, <1>6, <1>7 DEF CreateInv, SoundInv, Kept
  <1>9. (\A q \in Procs : RestoreOK(q)') /\ DestOK'
    BY <1>1, <1>2, <1>7, OnlyCreating DEF Restoring, Moving
  <1> QED
    BY <1>8, <1>9 DEF SoundInv

(* Of WriteManifest: the manifest lists what was to be kept.               *)
LEMMA ManifestSound ==
    ASSUME TypeOK, SoundInv, NEW p \in Procs, WriteManifest(p)
    PROVE  SoundInv'
  <1> DEFINE b == command[p].id
  <1>1. /\ command[p].step = "manifest" /\ b \in target \ sealed
        /\ manifest' = [manifest EXCEPT ![b] = command[p].data]
        /\ sealed' = sealed \union {b}
        /\ UNCHANGED <<target, stored, dest, sources, remains>>
    BY DEF WriteManifest, SoundInv, CreateInv, CreateOK, Creating
  <1>2. command'[p].step = "idle" /\ OthersKeep(p)
    BY Ends DEF WriteManifest
  <1>3. /\ b \in BackupIds /\ command[p].data \in [Components -> SUBSET Files]
        /\ manifest \in [BackupIds -> [Components -> SUBSET Files]]
        /\ sealed \subseteq BackupIds
    BY <1>1, TypeParts DEF Fits, Command, FilesOK
  <1>4. \A c \in Components : command[p].data[c] = Kept(b, c)
    BY <1>1 DEF CreateOK, CreateInv, SoundInv, Creating
  <1>5. ASSUME NEW q \in Procs \ {p}
        PROVE  CreateOK(q)'
    <2>1. command'[q] = command[q] /\ (command[q].step \in Creating => command[q].id # b)
      BY <1>1, <1>2 DEF OthersKeep, CreatorsApart, CreateInv, SoundInv, Creating
    <2> QED
      BY <1>1, <2>1 DEF CreateOK, CreateInv, SoundInv, Kept
  <1>6. CreateOK(p)'
    BY <1>2 DEF CreateOK, Creating
  <1>7. CreatorsApart'
    BY <1>1, <1>2 DEF CreatorsApart, CreateInv, SoundInv, OthersKeep, Creating
  <1>m. ASSUME NEW d \in sealed', NEW c \in Components
        PROVE  manifest'[d][c] = Kept(d, c)'
    <2>1. CASE d = b
      BY <1>1, <1>3, <1>4, <2>1 DEF Kept
    <2>2. CASE d # b
      BY <1>1, <1>3, <2>2 DEF Kept, CreateInv, SoundInv
    <2> QED
      BY <2>1, <2>2
  <1>8. CreateInv'
    BY <1>1, <1>5, <1>6, <1>7, <1>m DEF CreateInv, SoundInv
  <1>9. (\A q \in Procs : RestoreOK(q)') /\ DestOK'
    BY <1>1, <1>2, <1>3, OnlyCreating DEF Restoring, Moving
  <1> QED
    BY <1>8, <1>9 DEF SoundInv

(* Of CreateFails: only a directory without a manifest goes.               *)
LEMMA CreateFailsSound ==
    ASSUME TypeOK, SoundInv, NEW p \in Procs, CreateFails(p)
    PROVE  SoundInv'
  <1> DEFINE b == command[p].id
  <1>1. /\ command[p].step \in Creating /\ b \in target \ sealed
        /\ target' \subseteq target /\ target \ {b} \subseteq target'
        /\ UNCHANGED <<manifest, sealed, dest, remains>>
    BY DEF CreateFails, SoundInv, CreateInv, CreateOK
  <1>2. command'[p].step = "idle" /\ OthersKeep(p)
    BY Ends DEF CreateFails
  <1>3. \A d \in BackupIds \ {b} : /\ found'[d] = found[d] /\ overlooked'[d] = overlooked[d]
                                  /\ stored'[d] = stored[d]
    BY TypeParts DEF CreateFails, FilesOK
  <1>4. ASSUME NEW q \in Procs \ {p}
        PROVE  CreateOK(q)'
    <2>1. command'[q] = command[q] /\ (command[q].step \in Creating => command[q].id # b)
      BY <1>1, <1>2 DEF OthersKeep, CreatorsApart, CreateInv, SoundInv
    <2>2. command[q].step \in Creating => command[q].id \in BackupIds
      BY TypeParts DEF Fits, Creating
    <2> QED
      BY <1>1, <1>3, <2>1, <2>2 DEF CreateOK, CreateInv, SoundInv, Kept
  <1>5. CreateOK(p)'
    BY <1>2 DEF CreateOK, Creating
  <1>6. CreatorsApart'
    BY <1>1, <1>2 DEF CreatorsApart, CreateInv, SoundInv, OthersKeep, Creating
  <1>7. /\ \A d \in sealed : /\ found'[d] = found[d] /\ overlooked'[d] = overlooked[d]
                            /\ stored'[d] = stored[d]
        /\ sealed \subseteq target'
    BY <1>1, <1>3, TypeParts DEF FilesOK, CreateInv, SoundInv
  <1>8. CreateInv'
    BY <1>1, <1>4, <1>5, <1>6, <1>7 DEF CreateInv, SoundInv, Kept
  <1>9. (\A q \in Procs : RestoreOK(q)') /\ DestOK'
    BY <1>1, <1>2, <1>7, OnlyCreating DEF Restoring, Moving
  <1> QED
    BY <1>8, <1>9 DEF SoundInv

(* A place from which half of what was restored is gone has nothing secret *)
(* still.                                                                  *)
LEMMA PartlySound ==
    ASSUME TypeOK, SoundInv, NEW n \in Components, PartlyRemove(n),
           UNCHANGED <<sealed, sources>>, NEW c \in Components
    PROVE  \/ dest'[c] = dest[c] /\ (c \in remains => c \in remains')
           \/ dest'[c].from = NoBackup \/ DestSound(c)'
  <1>1. /\ dest'[n].from = dest[n].from /\ dest'[n].files \subseteq dest[n].files
        /\ \A d \in Components \ {n} : dest'[d] = dest[d]
        /\ remains' = remains \union {n}
    BY Remains, TypeParts DEF FilesOK
  <1>2. CASE c = n /\ dest[n].from # NoBackup
    <2>1. DestSound(n)
      BY <1>2 DEF SoundInv, DestOK, Restored
    <2> QED
      BY <1>1, <1>2, <2>1 DEF DestSound
  <1> QED
    BY <1>1, <1>2

(* Of the steps that only end a command or begin a restore.                *)
LEMMA EndingSound ==
    ASSUME TypeOK, SoundInv, NEW p \in Procs,
           RestoreRefused(p) \/ Crash(p) \/ \E b \in BackupIds : BeginRestore(p, b)
    PROVE  SoundInv'
  <1>1. UNCHANGED <<target, stored, manifest, sealed, sources>>
    BY DEF RestoreRefused, Crash, BeginRestore
  <1>d. ASSUME NEW c \in Components
        PROVE  \/ dest'[c] = dest[c] /\ (c \in remains => c \in remains')
               \/ dest'[c].from = NoBackup \/ DestSound(c)'
    <2>1. CASE UNCHANGED <<dest, remains>>
      BY <2>1
    <2>2. CASE command[p].step = "undo" /\ PartlyRemove(command[p].next)
      <3>1. command[p].next \in Components
        BY <2>2, TypeParts DEF Fits
      <3> QED
        BY <1>1, <2>2, <3>1, PartlySound
    <2> QED
      BY <2>1, <2>2 DEF RestoreRefused, Crash, BeginRestore
  <1>2. CASE Finish(p)
    <2>1. command'[p].step = "idle" /\ OthersKeep(p)
      BY <1>2, Ends
    <2>2. command'[p].step \notin Creating /\ RestoreOK(p)'
      BY <2>1 DEF RestoreOK, Creating, Restoring, Moving
    <2> QED
      BY <1>1, <1>d, <2>1, <2>2, NotCreating DEF OthersKeep
  <1>3. CASE \E b \in BackupIds : BeginRestore(p, b)
    <2>1. PICK b \in BackupIds : BeginRestore(p, b)
      BY <1>3
    <2>2. /\ command'[p] = [step |-> "stage", id |-> b, next |-> 1, data |-> Nowhere]
          /\ OthersKeep(p)
      BY <2>1, Starts DEF BeginRestore
    <2>3. Verifies(b)'
      BY <2>1 DEF BeginRestore, Verifies
    <2>4. \A c \in Components : ~(c < 1)
      BY DEF Components
    <2>5. command'[p].step \notin Creating /\ RestoreOK(p)'
      BY <2>2, <2>3, <2>4 DEF RestoreOK, Creating
    <2> QED
      BY <1>1, <1>d, <2>2, <2>5, NotCreating DEF OthersKeep
  <1> QED
    BY <1>2, <1>3 DEF RestoreRefused, Crash

(* Of Stage: what is staged of a backup that verifies is sound.            *)
LEMMA StageSound ==
    ASSUME TypeOK, SoundInv, NEW p \in Procs, Stage(p)
    PROVE  SoundInv'
  <1> DEFINE b == command[p].id
             n == command[p].next
  <1>1. /\ command[p].step = "stage"
        /\ UNCHANGED <<target, stored, manifest, sealed, dest, sources, remains>>
    BY DEF Stage
  <1>2. /\ command'[p].step = IF n = NumComponents THEN "check" ELSE "stage"
        /\ command'[p].id = b /\ command'[p].next = n + 1
        /\ command'[p].data = [command[p].data EXCEPT ![n] = Content(b, n)]
        /\ OthersKeep(p)
    BY CopySteps
  <1>3. /\ n \in Components /\ b \in BackupIds /\ command[p].data \in [Components -> SUBSET Files]
    BY <1>1, TypeParts DEF Fits, Command
  <1>4. /\ Verifies(b)
        /\ \A c \in Components : c < n => SoundFor(Kept(b, c), command[p].data[c])
    BY <1>1 DEF SoundInv, RestoreOK, Restoring
  <1>5. SoundFor(Kept(b, n), Content(b, n))
    BY <1>3, <1>4, ContentSound DEF SoundInv
  <1>6. RestoreOK(p)'
    <2> HIDE DEF b, n
    <2>1. ASSUME NEW c \in Components, command'[p].step = "stage" => c < command'[p].next
          PROVE  c = n \/ (c # n /\ c < n)
      BY <1>2, <1>3, <2>1, BackupAssumption DEF Components
    <2>2. \A c \in Components : c = n \/ (c # n /\ c < n) =>
             SoundFor(Kept(b, c), command'[p].data[c])
      BY <1>1, <1>2, <1>3, <1>4, <1>5
    <2>3. Verifies(command[p].id)'
      BY <1>1, <1>2, <1>4 DEF Verifies, b
    <2>4. command'[p].id = command[p].id
      BY <1>2 DEF b
    <2> QED
      BY <2>1, <2>2, <2>3, <2>4, <1>1, <1>4 DEF RestoreOK, Verifies, SoundFor, Kept, b
  <1>7. command'[p].step \notin Creating
    BY <1>2 DEF Creating
  <1> HIDE DEF b, n
  <1> QED
    BY <1>1, <1>2, <1>6, <1>7, NotCreating DEF OthersKeep

(* Of a restore that goes on with what it has staged.                      *)
LEMMA GoesOn ==
    ASSUME SoundInv, NEW p \in Procs, command[p].step \in {"check"} \union Moving,
           UNCHANGED <<stored, manifest, sealed, sources>>,
           \/ command'[p] = Idle
           \/ /\ command'[p].step \in Moving
              /\ command'[p].id = command[p].id /\ command'[p].data = command[p].data
    PROVE  command'[p].step \notin Creating /\ RestoreOK(p)'
  <1>1. CASE command'[p] = Idle
    BY <1>1 DEF Idle, Creating, Restoring, Moving, RestoreOK
  <1>2. CASE /\ command'[p].step \in Moving
             /\ command'[p].id = command[p].id /\ command'[p].data = command[p].data
    <2>1. /\ Verifies(command[p].id)
          /\ \A c \in Components : SoundFor(Kept(command[p].id, c), command[p].data[c])
      BY DEF SoundInv, RestoreOK, Restoring, Moving
    <2> QED
      BY <1>2, <2>1 DEF RestoreOK, Verifies, Creating, Moving, SoundFor, Kept
  <1> QED
    BY <1>1, <1>2

(* Of the moves into place and back.                                       *)
LEMMA MovingSound ==
    ASSUME TypeOK, SoundInv, NEW p \in Procs,
           CheckDestinations(p) \/ Install(p) \/ InstallFails(p) \/ Undo(p)
    PROVE  SoundInv'
  <1>1. /\ command[p].step \in {"check"} \union Moving
        /\ UNCHANGED <<target, stored, manifest, sealed, sources>>
    BY DEF CheckDestinations, Install, InstallFails, Undo, Moving
  <1>2. /\ OthersKeep(p)
        /\ \/ command'[p] = Idle
           \/ /\ command'[p].step \in Moving
              /\ command'[p].id = command[p].id /\ command'[p].data = command[p].data
    BY MovingSteps DEF Moving
  <1>3. command'[p].step \notin Creating /\ RestoreOK(p)'
    BY <1>1, <1>2, GoesOn
  <1>4. ASSUME NEW c \in Components
        PROVE  \/ dest'[c] = dest[c] /\ (c \in remains => c \in remains')
               \/ dest'[c].from = NoBackup \/ DestSound(c)'
    <2>1. CASE CheckDestinations(p) \/ InstallFails(p)
      BY <2>1 DEF CheckDestinations, InstallFails
    <2>2. CASE Undo(p)
      <3>1. command[p].next \in Components /\ dest \in [Components -> Place]
        BY <2>2, TypeParts DEF Undo, Fits, FilesOK
      <3>2. CASE /\ dest' = [dest EXCEPT ![command[p].next] = Nothing]
                 /\ remains' = remains \ {command[p].next}
        BY <3>1, <3>2 DEF Nothing
      <3>3. CASE PartlyRemove(command[p].next)
        BY <1>1, <3>1, <3>3, PartlySound
      <3> QED
        BY <2>2, <3>2, <3>3 DEF Undo
    <2>3. CASE Install(p)
      <3> DEFINE n == command[p].next
                 new == [kind |-> Kind(n), from |-> command[p].id, files |-> command[p].data[n]]
      <3>1. dest' = [dest EXCEPT ![n] = new] /\ remains' = remains \ {n}
        BY <2>3 DEF Install
      <3>2. command[p].id \in sealed /\ SoundFor(Kept(command[p].id, n), command[p].data[n])
        BY <2>3, TypeParts DEF Install, SoundInv, RestoreOK, Verifies, Restoring, Moving, Fits
      <3>3. new.from = command[p].id /\ new.files = command[p].data[n]
        OBVIOUS
      <3>4. dest \in [Components -> Place]
        BY TypeParts DEF FilesOK
      <3> HIDE DEF n, new
      <3>5. \/ dest'[c] = dest[c] /\ (c \in remains => c \in remains')
            \/ c = n /\ dest'[c] = new
        BY <3>1, <3>4
      <3> QED
        BY <1>1, <3>2, <3>3, <3>5 DEF DestSound, SoundFor, Kept
    <2> QED
      BY <2>1, <2>2, <2>3
  <1> QED
    BY <1>1, <1>2, <1>3, <1>4, NotCreating DEF OthersKeep

(* Of what people and other programs do.                                   *)
LEMMA EnvironmentSound ==
    ASSUME TypeOK, SoundInv, Environment
    PROVE  SoundInv'
  <1>1. /\ command' = command /\ UNCHANGED <<target, manifest, sealed, sources>>
    BY DEF Environment, Appear, Clear, Decay
  <1>2. ASSUME NEW q \in Procs, command[q].step \in Restoring
        PROVE  stored'[command[q].id] = stored[command[q].id]
    <2>1. command[q].id \in BackupIds
      BY <1>2, TypeParts DEF Fits, Restoring, Moving
    <2> QED
      BY <1>2, <2>1, TypeParts DEF Environment, Appear, Clear, Decay, FilesOK
  <1>3. \A c \in Components : \/ dest'[c] = dest[c] /\ (c \in remains => c \in remains')
                            \/ dest'[c].from = NoBackup
    BY TypeParts DEF Environment, Appear, Clear, Decay, FilesOK, Nothing, SomebodysOwn
  <1> QED
    BY <1>1, <1>2, <1>3, NotCreating

(* Whatever is restored has all of what create found and could list, but   *)
(* for what a removal has taken away again, and nothing secret, for any    *)
(* number of processes and whatever becomes of the medium.                 *)
THEOREM RestoredIsSoundCorrect == Spec => []RestoredIsSound
  <1>1. Init => SoundInv
    <2> SUFFICES ASSUME Init PROVE SoundInv
      OBVIOUS
    <2>1. \A p \in Procs : command[p].step = "idle"
      BY DEF Init, Idle
    <2>2. Restored = {}
      BY DEF Init, Restored, Nothing
    <2> QED
      BY <2>1, <2>2 DEF Init, SoundInv, CreateInv, CreatorsApart, CreateOK, RestoreOK, DestOK,
                        Creating, Restoring, Moving
  <1>2. TypeOK /\ SoundInv /\ [Next]_vars => SoundInv'
    <2> SUFFICES ASSUME TypeOK, SoundInv, [Next]_vars PROVE SoundInv'
      OBVIOUS
    <2>1. CASE UNCHANGED vars
      <3>1. UNCHANGED <<target, stored, manifest, sealed, dest, sources, remains, command>>
        BY <2>1 DEF vars
      <3> QED
        BY <3>1, NotCreating
    <2>2. ASSUME NEW p \in Procs, Create(p)
          PROVE  SoundInv'
      <3>1. ASSUME NEW content \in SUBSET Files, NEW unlisted \in SUBSET content,
                   CopyComponent(p, content, unlisted)
            PROVE  SoundInv'
        <4>1. unlisted \in SUBSET Files
          OBVIOUS
        <4> QED
          BY <3>1, <4>1, CopySound
      <3> QED
        BY <2>2, <3>1, BeginCreateSound, ManifestSound, CreateFailsSound DEF Create
    <2>3. ASSUME NEW p \in Procs, Restore(p) \/ Crash(p)
          PROVE  SoundInv'
      BY <2>3, EndingSound, StageSound, MovingSound DEF Restore
    <2> QED
      BY <2>1, <2>2, <2>3, EnvironmentSound DEF Next
  <1>3. SoundInv => RestoredIsSound
    BY DEF SoundInv, DestOK, DestSound, Kept, RestoredIsSound
  <1> QED
    BY <1>1, <1>2, <1>3, TypeCorrect, PTL DEF Spec
-----------------------------------------------------------------------------
(* One restore at a time: nothing in the code serialises two.              *)
OneRestore ==
    \A p, q \in Procs :
        command[p].step \in Restoring /\ command[q].step \in Restoring => p = q

(* No restore is in the middle of moving: all of one backup, or nothing.   *)
SameBackup == \A c, d \in Restored : dest[c].from = dest[d].from
Still == \A p \in Procs : command[p].step \notin Moving
Resting == Still => SameBackup /\ (~interrupted => Restored \in {{}, Components})

(* How far the restore of process p has come, and what it will find.       *)
Progress(p) ==
    /\ command[p].step = "install" =>
          /\ Restored = {c \in Components : c < command[p].next}
          /\ \A c \in Own : Replaceable(c) => c \in late
    /\ command[p].step = "undo" =>
          /\ {c \in Components : c <= command[p].next} \subseteq Restored
          /\ ~interrupted => Restored = {c \in Components : c <= command[p].next}
    /\ command[p].step \in Moving => \A c \in Restored : dest[c].from = command[p].id

AtomicInv == Resting /\ \A p \in Procs : Progress(p)

(* No destination is changed, and nobody begins or ends to move.           *)
LEMMA ProgressKept ==
    ASSUME AtomicInv, UNCHANGED <<dest, late, interrupted>>,
           \A q \in Procs :
              \/ command'[q] = command[q]
              \/ command[q].step \notin Moving /\ command'[q].step \notin Moving
    PROVE  AtomicInv'
  <1>1. Restored' = Restored /\ Own' = Own /\ (SameBackup' <=> SameBackup)
    BY DEF Restored, Own, SameBackup
  <1>p. \A c : Replaceable(c)' <=> Replaceable(c)
    BY DEF Replaceable
  <1>2. Resting'
    BY <1>1 DEF AtomicInv, Resting, Still
  <1>3. ASSUME NEW q \in Procs
        PROVE  Progress(q)'
    <2>1. Progress(q)
      BY DEF AtomicInv
    <2>2. CASE command'[q] = command[q]
      BY <1>1, <1>p, <2>1, <2>2 DEF Progress
    <2>3. CASE command'[q].step \notin Moving
      BY <2>3 DEF Progress, Moving
    <2> QED
      BY <2>2, <2>3
  <1> QED
    BY <1>2, <1>3 DEF AtomicInv

(* Half a removal changes neither what is restored nor what is others'.    *)
LEMMA PartlyRestored ==
    ASSUME TypeOK, NEW n \in Restored, PartlyRemove(n)
    PROVE  /\ Restored' = Restored /\ Own' = Own /\ interrupted' = TRUE
           /\ \A c \in Components : dest'[c].from = dest[c].from
           /\ \A c \in Own : dest'[c] = dest[c]
  <1>1. /\ n \in Components /\ dest \in [Components -> Place] /\ dest[n].from # NoBackup
        /\ dest[n].kind # "nothing"
    BY TypeParts DEF Restored, FilesOK, Nothing
  <1>2. /\ dest'[n].kind = dest[n].kind /\ dest'[n].from = dest[n].from
        /\ \A c \in Components \ {n} : dest'[c] = dest[c]
        /\ interrupted' = TRUE
    BY <1>1, Remains
  <1>3. \A c \in Components : dest'[c].kind = dest[c].kind /\ dest'[c].from = dest[c].from
    BY <1>2
  <1>4. Restored' = Restored /\ Own' = Own
    BY <1>3 DEF Restored, Own
  <1> QED
    BY <1>1, <1>2, <1>3, <1>4 DEF Own

(* Of a restore that dies: if anything had been moved, that is known.      *)
LEMMA CrashProgress ==
    ASSUME TypeOK, AtomicInv, NEW p \in Procs, Crash(p)
    PROVE  AtomicInv'
  <1>1. command'[p].step \notin Moving /\ UNCHANGED late /\ OthersKeep(p)
    BY Ends DEF Crash, Moving
  <1>2. /\ Restored' = Restored /\ Own' = Own
        /\ \A c \in Components : dest'[c].from = dest[c].from
        /\ \A c \in Own : dest'[c] = dest[c]
        /\ interrupted => interrupted'
        /\ command[p].step \in Moving => interrupted'
    <2>1. CASE /\ interrupted' = (interrupted \/ command[p].step \in Moving)
               /\ UNCHANGED <<dest, remains>>
      BY <2>1 DEF Restored, Own
    <2>2. CASE command[p].step = "undo" /\ PartlyRemove(command[p].next)
      <3>1. command[p].next \in Components
        BY <2>2, TypeParts DEF Fits
      <3>2. command[p].next \in Restored
        BY <2>2, <3>1 DEF AtomicInv, Progress, Components
      <3> QED
        BY <2>2, <3>2, PartlyRestored
    <2> QED
      BY <2>1, <2>2 DEF Crash
  <1>o. \A c \in Own : Replaceable(c)' <=> Replaceable(c)
    BY <1>2 DEF Replaceable
  <1>3. ASSUME NEW q \in Procs
        PROVE  Progress(q)'
    <2>1. CASE q = p
      BY <1>1, <2>1 DEF Progress, Moving
    <2>2. CASE q # p
      <3>1. command'[q] = command[q] /\ (~interrupted' => ~interrupted)
        BY <1>1, <1>2, <2>2 DEF OthersKeep
      <3> QED
        BY <1>1, <1>2, <1>o, <3>1 DEF AtomicInv, Progress, Restored
    <2> QED
      BY <2>1, <2>2
  <1>4. Resting'
    <2>1. CASE command[p].step \in Moving
      BY <1>1, <1>2, <2>1 DEF AtomicInv, Progress, Resting, SameBackup, Restored
    <2>2. CASE command[p].step \notin Moving
      BY <1>1, <1>2, <2>2 DEF AtomicInv, Resting, SameBackup, Still, OthersKeep, Restored
    <2> QED
      BY <2>1, <2>2
  <1> QED
    BY <1>3, <1>4 DEF AtomicInv

(* Of the check: with every destination clean, nothing is restored yet.    *)
LEMMA CheckProgress ==
    ASSUME TypeOK, NEW p \in Procs, CheckDestinations(p)
    PROVE  Progress(p)' /\ Resting'
  <1>1. command'[p].step = "install" /\ command'[p].next = 1
    BY MovingSteps
  <1>2. Restored' = {} /\ Own' = {}
    BY TypeParts DEF CheckDestinations, DestinationsClean, FilesOK, Restored, Own, Nothing
  <1>3. {c \in Components : c < 1} = {}
    BY DEF Components
  <1> QED
    BY <1>1, <1>2, <1>3 DEF Progress, Resting, Still, Moving

(* Of an installation: one more component, of the same backup.             *)
LEMMA InstallProgress ==
    ASSUME TypeOK, NEW p \in Procs, Progress(p), Install(p)
    PROVE  Progress(p)' /\ Resting'
  <1> DEFINE n == command[p].next
             new == [kind |-> Kind(n), from |-> command[p].id, files |-> command[p].data[n]]
  <1>1. /\ command[p].step = "install" /\ n \in Components /\ command[p].id \in BackupIds
        /\ dest \in [Components -> Place] /\ dest' = [dest EXCEPT ![n] = new]
        /\ late' = late \ {n} /\ interrupted' = interrupted
        /\ new.from = command[p].id /\ new.from # NoBackup
    BY BackupAssumption, TypeParts DEF Install, Fits, FilesOK
  <1>2. /\ Restored = {c \in Components : c < n}
        /\ \A c \in Own : Replaceable(c) => c \in late
        /\ \A c \in Restored : dest[c].from = command[p].id
    BY <1>1 DEF Progress, Resting, Still, Moving
  <1>3. IF n = NumComponents THEN command'[p] = Idle
        ELSE /\ command'[p].step = "install" /\ command'[p].next = n + 1
             /\ command'[p].id = command[p].id
    BY MovingSteps
  <1> HIDE DEF n, new
  <1>4. \A c \in Components : dest'[c] = IF c = n THEN new ELSE dest[c]
    BY <1>1
  <1>5. Restored' = {c \in Components : c < n + 1}
    <2>1. \A c \in Components : c < n + 1 <=> (c < n \/ c = n)
      BY <1>1 DEF Components
    <2> QED
      BY <1>1, <1>2, <1>4, <2>1 DEF Restored
  <1>6. \A c \in Own' : Replaceable(c)' => c \in late'
    <2>1. \A c \in Own' : c # n /\ dest'[c] = dest[c] /\ c \in Own
      BY <1>1, <1>4 DEF Own
    <2> QED
      BY <1>1, <1>2, <2>1 DEF Replaceable
  <1>7. \A c \in Restored' : dest'[c].from = command[p].id
    BY <1>1, <1>2, <1>4 DEF Restored
  <1>8. CASE n = NumComponents
    <2>1. Restored' = Components
      BY <1>5, <1>8, BackupAssumption DEF Components
    <2>2. command'[p].step = "idle"
      BY <1>3, <1>8 DEF Idle
    <2> QED
      BY <1>7, <2>1, <2>2 DEF Progress, Resting, SameBackup, Moving
  <1>9. CASE n # NumComponents
    BY <1>3, <1>5, <1>6, <1>7, <1>9 DEF Progress, Resting, Still, Moving
  <1> QED
    BY <1>8, <1>9

(* Of a failure: the undo begins with the last component that was moved.   *)
LEMMA FailProgress ==
    ASSUME TypeOK, NEW p \in Procs, Progress(p), InstallFails(p)
    PROVE  Progress(p)' /\ Resting'
  <1> DEFINE n == command[p].next
  <1>1. /\ command[p].step = "install" /\ n \in Components
        /\ UNCHANGED <<dest, late, interrupted>>
    BY TypeParts DEF InstallFails, Fits
  <1>2. /\ Restored = {c \in Components : c < n}
        /\ \A c \in Restored : dest[c].from = command[p].id
    BY <1>1 DEF Progress, Resting, Still, Moving
  <1>3. IF n = 1 THEN command'[p] = Idle
        ELSE /\ command'[p].step = "undo" /\ command'[p].next = n - 1
             /\ command'[p].id = command[p].id
    BY MovingSteps
  <1> HIDE DEF n
  <1>4. Restored' = Restored
    BY <1>1 DEF Restored
  <1>5. \A c \in Components : c <= n - 1 <=> c < n
    BY <1>1 DEF Components
  <1>6. n = 1 => Restored = {}
    BY <1>2 DEF Components
  <1>7. CASE n = 1
    <2>1. command'[p].step = "idle"
      BY <1>3, <1>7 DEF Idle
    <2> QED
      BY <1>4, <1>6, <1>7, <2>1 DEF Progress, Resting, SameBackup, Moving
  <1>8. CASE n # 1
    <2>1. Restored' = {c \in Components : c <= command'[p].next}
      BY <1>2, <1>3, <1>4, <1>5, <1>8
    <2>2. \A c \in Restored' : dest'[c].from = command'[p].id
      BY <1>1, <1>2, <1>3, <1>4, <1>8
    <2> QED
      BY <1>3, <1>8, <2>1, <2>2 DEF Progress, Resting, Still, Moving
  <1> QED
    BY <1>7, <1>8

(* Of the undo: one component less, or it is known that it is still there. *)
LEMMA UndoProgress ==
    ASSUME TypeOK, NEW p \in Procs, Progress(p), Undo(p)
    PROVE  Progress(p)' /\ Resting'
  <1> DEFINE n == command[p].next
  <1>1. command[p].step = "undo" /\ n \in Components /\ dest \in [Components -> Place]
    BY TypeParts DEF Undo, Fits, FilesOK
  <1>2. /\ {c \in Components : c <= n} \subseteq Restored
        /\ ~interrupted => Restored = {c \in Components : c <= n}
        /\ \A c \in Restored : dest[c].from = command[p].id
    BY <1>1 DEF Progress, Resting, Still, Moving
  <1>3. IF n = 1 THEN command'[p] = Idle
        ELSE /\ command'[p].step = "undo" /\ command'[p].next = n - 1
             /\ command'[p].id = command[p].id
    BY MovingSteps
  <1>4. \/ dest' = [dest EXCEPT ![n] = Nothing] /\ interrupted' = interrupted
        \/ PartlyRemove(n)
    BY DEF Undo
  <1> HIDE DEF n
  <1>5. /\ \A c \in Components : c <= n - 1 <=> (c <= n /\ c # n)
        /\ n = 1 => {c \in Components : c <= n - 1} = {}
    BY <1>1 DEF Components
  <1>6. /\ {c \in Components : c <= n - 1} \subseteq Restored'
        /\ ~interrupted' => Restored' = {c \in Components : c <= n - 1}
        /\ \A c \in Restored' : dest'[c].from = command[p].id
    <2>1. CASE dest' = [dest EXCEPT ![n] = Nothing] /\ interrupted' = interrupted
      <3>1. Restored' = Restored \ {n}
        BY <1>1, <2>1 DEF Restored, Nothing
      <3>2. \A c \in Restored' : c # n /\ dest'[c] = dest[c] /\ c \in Restored
        BY <1>1, <2>1, <3>1 DEF Restored
      <3> QED
        BY <1>2, <1>5, <2>1, <3>1, <3>2
    <2>2. CASE PartlyRemove(n)
      <3>1. n \in Restored
        BY <1>1, <1>2 DEF Components
      <3>2. /\ Restored' = Restored /\ interrupted' = TRUE
            /\ \A c \in Components : dest'[c].from = dest[c].from
        BY <2>2, <3>1, PartlyRestored
      <3> QED
        BY <1>2, <1>5, <3>2 DEF Restored
    <2> QED
      BY <1>4, <2>1, <2>2
  <1>7. CASE n = 1
    <2>1. command'[p].step = "idle"
      BY <1>3, <1>7 DEF Idle
    <2> QED
      BY <1>5, <1>6, <1>7, <2>1 DEF Progress, Resting, SameBackup, Moving
  <1>8. CASE n # 1
    BY <1>3, <1>6, <1>8 DEF Progress, Resting, Still, Moving
  <1> QED
    BY <1>7, <1>8

(* While one restore moves, no other does.                                 *)
LEMMA Alone ==
    ASSUME OneRestore, NEW p \in Procs, command[p].step \in Restoring, OthersKeep(p)
    PROVE  \A q \in Procs \ {p} : Progress(q)'
  <1>1. \A q \in Procs \ {p} : command'[q].step \notin Restoring
    BY DEF OneRestore, OthersKeep
  <1> QED
    BY <1>1 DEF Progress, Restoring, Moving

(* Of what people and other programs do at the destinations.               *)
LEMMA EnvironmentProgress ==
    ASSUME TypeOK, AtomicInv, Environment
    PROVE  AtomicInv'
  <1>t. dest \in [Components -> Place] /\ \A c \in Components : dest[c].kind = "nothing" => dest[c] = Nothing
    BY TypeParts DEF FilesOK
  <1>1. ASSUME NEW c \in Components, NEW kind \in {"file", "directory"},
               NEW files \in {{}, Files}, Appear(c, kind, files)
        PROVE  AtomicInv'
    <2>1. /\ dest[c] = Nothing /\ dest' = [dest EXCEPT ![c] = SomebodysOwn(kind, files)]
          /\ command' = command /\ interrupted' = interrupted /\ late \subseteq late'
          /\ Replaceable(c)' /\ (\E p \in Procs : command[p].step \in Moving) => c \in late'
      BY <1>t, <1>1 DEF Appear
    <2>2. /\ Restored' = Restored /\ \A d \in Restored : dest'[d] = dest[d]
          /\ Own' \subseteq Own \union {c}
      BY <1>t, <2>1 DEF Restored, Own, Nothing, SomebodysOwn
    <2>o. \A d \in Components \ {c} : dest'[d] = dest[d] /\ (Replaceable(d)' <=> Replaceable(d))
      BY <1>t, <2>1 DEF Replaceable
    <2>3. Resting'
      BY <2>1, <2>2 DEF AtomicInv, Resting, Still, SameBackup
    <2>4. ASSUME NEW q \in Procs
          PROVE  Progress(q)'
      <3>1. CASE command[q].step = "install"
        <4>1. \A d \in Own' : Replaceable(d)' => d \in late'
          BY <2>1, <2>2, <2>o, <3>1 DEF AtomicInv, Progress, Moving, Own
        <4> QED
          BY <2>1, <2>2, <3>1, <4>1 DEF AtomicInv, Progress, Moving
      <3>2. CASE command[q].step # "install"
        BY <2>1, <2>2, <3>2 DEF AtomicInv, Progress, Moving
      <3> QED
        BY <3>1, <3>2
    <2> QED
      BY <2>3, <2>4 DEF AtomicInv
  <1>2. ASSUME NEW c \in Components, Clear(c)
        PROVE  AtomicInv'
    <2>1. /\ \A q \in Procs : command[q].step \notin Moving
          /\ c \in Restored /\ dest' = [dest EXCEPT ![c] = Nothing] /\ command' = command
          /\ interrupted' = (Restored # {c})
      BY <1>2 DEF Clear, Restoring
    <2>2. Restored' = Restored \ {c} /\ \A d \in Restored' : dest'[d] = dest[d]
      BY <1>t, <2>1 DEF Restored, Nothing
    <2>3. Resting'
      <3>1. SameBackup
        BY <2>1 DEF AtomicInv, Resting, Still
      <3>2. SameBackup'
        BY <2>2, <3>1 DEF SameBackup
      <3>3. ~interrupted' => Restored' = {}
        BY <2>1, <2>2
      <3> QED
        BY <3>2, <3>3 DEF Resting
    <2>4. \A q \in Procs : Progress(q)'
      BY <2>1 DEF Progress, Moving
    <2> QED
      BY <2>3, <2>4 DEF AtomicInv
  <1>3. ASSUME NEW c \in Components, NEW b \in BackupIds, NEW content \in SUBSET Files,
               Decay(b, c, content)
        PROVE  AtomicInv'
    BY <1>3, ProgressKept DEF Decay
  <1> QED
    BY <1>1, <1>2, <1>3 DEF Environment

(* Every step, with one restore at a time.                                 *)
LEMMA AtomicStep ==
    ASSUME TypeOK, OneRestore, AtomicInv, [Next]_vars
    PROVE  AtomicInv'
  <1>1. CASE UNCHANGED vars
    <2>1. UNCHANGED <<dest, late, interrupted, command>>
      BY <1>1 DEF vars
    <2> QED
      BY <2>1, ProgressKept
  <1>2. ASSUME NEW p \in Procs, Create(p)
        PROVE  AtomicInv'
    <2>1. command[p].step \notin Moving /\ UNCHANGED <<dest, late, interrupted>>
      <3>1. command[p].step \in {"idle", "copy", "manifest"}
        <4>1. CASE \E b \in BackupIds : BeginCreate(p, b)
          BY <4>1 DEF BeginCreate, Idle
        <4>2. CASE \E content \in SUBSET Files : \E unlisted \in SUBSET content :
                      CopyComponent(p, content, unlisted)
          BY <4>2 DEF CopyComponent
        <4>3. CASE WriteManifest(p) \/ CreateFails(p)
          BY <4>3 DEF WriteManifest, CreateFails, Creating
        <4> QED
          BY <1>2, <4>1, <4>2, <4>3 DEF Create
      <3>2. UNCHANGED <<dest, late, interrupted>>
        BY <1>2 DEF Create, BeginCreate, CopyComponent, WriteManifest, CreateFails
      <3> QED
        BY <3>1, <3>2 DEF Moving
    <2>2. command'[p].step \notin Moving /\ OthersKeep(p)
      <3>1. CASE \E b \in BackupIds : BeginCreate(p, b)
        <4>1. PICK b \in BackupIds : BeginCreate(p, b)
          BY <3>1
        <4>2. /\ command'[p] = [step |-> "copy", id |-> b, next |-> 1, data |-> Nowhere]
              /\ OthersKeep(p)
          BY <4>1, Starts DEF BeginCreate
        <4> QED
          BY <4>2 DEF Moving
      <3>2. CASE \E content \in SUBSET Files : \E unlisted \in SUBSET content :
                    CopyComponent(p, content, unlisted)
        <4>1. PICK content \in SUBSET Files, unlisted \in SUBSET Files :
                 CopyComponent(p, content, unlisted)
          BY <3>2
        <4> QED
          BY <4>1, CopySteps DEF Moving
      <3>3. CASE WriteManifest(p) \/ CreateFails(p)
        BY <3>3, Ends DEF WriteManifest, CreateFails, Moving
      <3> QED
        BY <1>2, <3>1, <3>2, <3>3 DEF Create
    <2> QED
      BY <2>1, <2>2, ProgressKept DEF OthersKeep
  <1>3. ASSUME NEW p \in Procs,
               (\E b \in BackupIds : BeginRestore(p, b)) \/ Stage(p) \/ RestoreRefused(p)
        PROVE  AtomicInv'
    <2>1. command[p].step \notin Moving /\ UNCHANGED <<dest, late, interrupted>>
      BY <1>3 DEF BeginRestore, Stage, RestoreRefused, Moving, Idle
    <2>2. command'[p].step \notin Moving /\ OthersKeep(p)
      <3>1. CASE \E b \in BackupIds : BeginRestore(p, b)
        <4>1. PICK b \in BackupIds : BeginRestore(p, b)
          BY <3>1
        <4>2. /\ command'[p] = [step |-> "stage", id |-> b, next |-> 1, data |-> Nowhere]
              /\ OthersKeep(p)
          BY <4>1, Starts DEF BeginRestore
        <4> QED
          BY <4>2 DEF Moving
      <3>2. CASE Stage(p)
        BY <3>2, CopySteps DEF Moving
      <3>3. CASE RestoreRefused(p)
        BY <3>3, Ends DEF RestoreRefused, Moving
      <3> QED
        BY <1>3, <3>1, <3>2, <3>3
    <2> QED
      BY <2>1, <2>2, ProgressKept DEF OthersKeep
  <1>4. ASSUME NEW p \in Procs,
               CheckDestinations(p) \/ Install(p) \/ InstallFails(p) \/ Undo(p)
        PROVE  AtomicInv'
    <2>1. command[p].step \in Restoring /\ OthersKeep(p)
      BY <1>4, MovingSteps
         DEF CheckDestinations, Install, InstallFails, Undo, Restoring, Moving
    <2>2. \A q \in Procs \ {p} : Progress(q)'
      BY <2>1, Alone
    <2>3. Progress(p)' /\ Resting'
      BY <1>4, CheckProgress, InstallProgress, FailProgress, UndoProgress DEF AtomicInv
    <2> QED
      BY <2>2, <2>3 DEF AtomicInv
  <1> QED
    BY <1>1, <1>2, <1>3, <1>4, CrashProgress, EnvironmentProgress DEF Next, Restore

(* The invariant holds of every behaviour with one restore at a time.      *)
LEMMA AtomicCorrect == Spec /\ []OneRestore => []AtomicInv
  <1>1. Init => AtomicInv
    <2> SUFFICES ASSUME Init PROVE AtomicInv
      OBVIOUS
    <2>1. \A p \in Procs : command[p].step = "idle"
      BY DEF Init, Idle
    <2>2. Restored = {}
      BY DEF Init, Restored, Nothing
    <2> QED
      BY <2>1, <2>2 DEF AtomicInv, Resting, SameBackup, Progress, Moving
  <1>2. TypeOK /\ OneRestore /\ AtomicInv /\ [Next]_vars => AtomicInv'
    BY AtomicStep
  <1> QED
    BY <1>1, <1>2, TypeCorrect, PTL DEF Spec

(* A restore brings back all of one backup or nothing, unless it died or   *)
(* could not undo.                                                         *)
THEOREM AllOrNothingCorrect == Spec /\ []OneRestore => []AllOrNothing
  <1>1. AtomicInv => AllOrNothing
    BY DEF AtomicInv, Resting, Still, AllOrNothing, Restoring
  <1> QED
    BY <1>1, AtomicCorrect, PTL

(* Even then nothing is put together from two backups, at any time.        *)
THEOREM NoMixtureCorrect == Spec /\ []OneRestore => []NoMixture
  <1>1. AtomicInv => NoMixture
    <2> SUFFICES ASSUME AtomicInv PROVE NoMixture
      OBVIOUS
    <2>1. CASE Still
      BY <2>1 DEF AtomicInv, Resting, SameBackup, NoMixture
    <2>2. CASE ~Still
      BY <2>2 DEF AtomicInv, Still, Progress, NoMixture
    <2> QED
      BY <2>1, <2>2
  <1> QED
    BY <1>1, AtomicCorrect, PTL

(* What others have put at a destination stays, except for what os.replace *)
(* does not stop at and was not there when restore looked.                 *)
THEOREM OthersKeptCorrect == Spec /\ []OneRestore => OthersKept
  <1> DEFINE Keeps == \A c \in Own : dest'[c] = dest[c] \/ c \in late
  <1>1. ASSUME TypeOK, AtomicInv, [Next]_vars
        PROVE  [Keeps]_dest
    <2>t. /\ dest \in [Components -> Place]
          /\ \A p \in Procs : command[p].step \in {"install", "undo"} => command[p].next \in Components
      BY <1>1, TypeParts DEF FilesOK, Fits
    <2>1. CASE UNCHANGED dest
      BY <2>1
    <2>2. ASSUME NEW p \in Procs, Install(p)
          PROVE  Keeps
      <3> DEFINE n == command[p].next
      <3>1. /\ n \in Components /\ Replaceable(n)
            /\ \A c \in Components \ {n} : dest'[c] = dest[c]
        BY <2>t, <2>2 DEF Install
      <3>2. \A c \in Own : Replaceable(c) => c \in late
        BY <1>1, <2>2 DEF AtomicInv, Progress, Install
      <3> QED
        BY <3>1, <3>2 DEF Own
    <2>3. ASSUME NEW p \in Procs, Undo(p)
          PROVE  Keeps
      <3>1. command[p].step = "undo" /\ command[p].next \in Restored
        <4>1. command[p].step = "undo" /\ command[p].next \in Components
          BY <2>t, <2>3 DEF Undo
        <4>2. command[p].next <= command[p].next
          BY <4>1 DEF Components
        <4> QED
          BY <1>1, <4>1, <4>2 DEF AtomicInv, Progress
      <3>2. \A c \in Components \ {command[p].next} : dest'[c] = dest[c]
        BY <2>t, <2>3, <3>1, Remains DEF Undo, Restored
      <3> QED
        BY <3>1, <3>2 DEF Own, Restored
    <2>4. ASSUME NEW p \in Procs, Crash(p)
          PROVE  Keeps
      <3>1. CASE UNCHANGED dest
        BY <3>1
      <3>2. CASE command[p].step = "undo" /\ PartlyRemove(command[p].next)
        <4>1. command[p].next \in Components
          BY <2>t, <3>2
        <4>2. command[p].next \in Restored
          BY <1>1, <3>2, <4>1 DEF AtomicInv, Progress, Components
        <4> QED
          BY <1>1, <3>2, <4>2, PartlyRestored
      <3> QED
        BY <2>4, <3>1, <3>2 DEF Crash
    <2>5. ASSUME NEW c \in Components, NEW kind \in {"file", "directory"},
                 NEW files \in {{}, Files}, Appear(c, kind, files)
          PROVE  Keeps
      BY <2>t, <2>5 DEF Appear, Own
    <2>6. ASSUME NEW c \in Components, Clear(c)
          PROVE  Keeps
      BY <2>t, <2>6 DEF Clear, Own, Restored
    <2> QED
      <3>1. ASSUME NEW p \in Procs, Create(p) \/ Restore(p), ~Install(p), ~Undo(p)
            PROVE  UNCHANGED dest
        BY <3>1 DEF Create, Restore, BeginCreate, CopyComponent, WriteManifest, CreateFails,
                    BeginRestore, Stage, CheckDestinations, InstallFails, RestoreRefused
      <3>2. ASSUME NEW c \in Components, NEW b \in BackupIds, NEW content \in SUBSET Files,
                   Decay(b, c, content)
            PROVE  UNCHANGED dest
        BY <3>2 DEF Decay
      <3>3. CASE UNCHANGED vars
        BY <2>1, <3>3 DEF vars
      <3>4. ASSUME NEW p \in Procs, Create(p) \/ Restore(p) \/ Crash(p)
            PROVE  [Keeps]_dest
        BY <2>2, <2>3, <2>4, <3>1, <3>4
      <3>5. CASE Environment
        BY <2>5, <2>6, <3>2, <3>5 DEF Environment
      <3> QED
        BY <1>1, <3>3, <3>4, <3>5 DEF Next
  <1>2. TypeOK /\ AtomicInv /\ [Next]_vars => [Keeps]_dest
    BY <1>1
  <1> QED
    BY <1>2, AtomicCorrect, TypeCorrect, PTL DEF Spec, OthersKept
=============================================================================
