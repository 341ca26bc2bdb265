---------------------------- MODULE ConfigFiles ----------------------------
(***************************************************************************)
(* Config and AdminConfig: io.xml and rules.xml, their backups, and the    *)
(* ways they are loaded, saved and replaced.                               *)
(*                                                                         *)
(* A file is loaded when the server starts, or restored from a backup when *)
(* it cannot be parsed.  Every change of the configuration saves a file    *)
(* from memory.  "config put" and "config_restore" copy the files to a     *)
(* backup, replace them and restart: from the first file that is new the   *)
(* configuration is frozen, nothing is saved from memory any more.  All of *)
(* this runs in the event loop; only the end of the process comes between  *)
(* two writes, or inside one.                                              *)
(*                                                                         *)
(* The content of a file is a version, or Bad when it does not parse.      *)
(***************************************************************************)
EXTENDS Naturals, Sequences

CONSTANTS
  ConfFiles,    \* io.xml, rules.xml
  Versions,     \* valid contents
  MaxBackups    \* bound on the backups

Bad == "unparsable"
Missing == "no copy"

ASSUME ConfigFilesAssumption ==
  /\ {Bad, Missing} \cap Versions = {}
  /\ MaxBackups \in Nat

VARIABLES
  cfDisk,      \* content of each file
  cfBackups,   \* folders of backups, oldest first, each with its copies
  cfServer,    \* "down", "up", or "leaving": about to restart
  cfLoaded,    \* ioLoaded and rulesLoaded
  cfMemory,    \* the configuration the server runs
  cfTodo,      \* files that a put or a restore has still to write
  cfStops,     \* it is a restore, which stops at the first failure
  cfFrozen,    \* config_frozen()
  cfUpload,    \* history: what a put or restore wrote since the last start
  cfDropped    \* history: contents that a put or restore replaced

cfVars == <<cfDisk, cfBackups, cfServer, cfLoaded, cfMemory, cfTodo, cfStops,
            cfFrozen, cfUpload, cfDropped>>

Folder == [ConfFiles -> Versions \cup {Bad, Missing}]

ConfTypeOK ==
  /\ cfDisk \in [ConfFiles -> Versions \cup {Bad}]
  /\ cfBackups \in Seq(Folder)
  /\ cfServer \in {"down", "up", "leaving"}
  /\ cfLoaded \in [ConfFiles -> BOOLEAN]
  /\ cfMemory \in [ConfFiles -> Versions \cup {Missing}]
  /\ cfTodo \in Seq(ConfFiles \X Versions)
  /\ cfStops \in BOOLEAN /\ cfFrozen \in BOOLEAN
  /\ cfUpload \in [ConfFiles -> Versions \cup {Missing}]
  /\ cfDropped \in [ConfFiles -> SUBSET Versions]

NoFile == [f \in ConfFiles |-> Missing]

ConfInit ==
  /\ cfDisk \in [ConfFiles -> Versions]
  /\ cfBackups = <<>> /\ cfServer = "down"
  /\ cfLoaded = [f \in ConfFiles |-> FALSE] /\ cfMemory = NoFile
  /\ cfTodo = <<>> /\ cfStops = FALSE /\ cfFrozen = FALSE
  /\ cfUpload = NoFile
  /\ cfDropped = [f \in ConfFiles |-> {}]

-----------------------------------------------------------------------------
(* Writing a file: a temporary file, flushed, then renamed over the old    *)
(* one.  WriteInPlace, SaveUnfrozen, SaveNotLoaded and NoBackup are        *)
(* faults, used by no action.                                              *)

\* writeConfigFile() that is cut short
WriteInPlace(f, v) == cfDisk' \in {cfDisk, [cfDisk EXCEPT ![f] = v], [cfDisk EXCEPT ![f] = Bad]}
WriteIsCut(f, v) == cfDisk' \in {cfDisk, [cfDisk EXCEPT ![f] = v]}

\* writeConfigFile() that returns: it has succeeded or changed nothing
WriteReturns(f, v) == cfDisk' \in {cfDisk, [cfDisk EXCEPT ![f] = v]}

-----------------------------------------------------------------------------
(* Starting                                                                *)

\* loadXmlDocument(): a file that cannot be read is left alone; one that does
\* not parse is replaced by a backup that does, if one can be restored
Copies(f) == {cfBackups[i][f] : i \in DOMAIN cfBackups} \cap Versions
LoadFile(f) ==
  {[loaded |-> FALSE, disk |-> cfDisk[f]]} \cup
  {[loaded |-> TRUE, disk |-> v] :
     v \in IF cfDisk[f] = Bad THEN Copies(f) ELSE {cfDisk[f]}}

StartServer ==
  /\ cfServer = "down"
  /\ cfServer' = "up" /\ cfFrozen' = FALSE
  /\ \E load \in [ConfFiles -> UNION {LoadFile(f) : f \in ConfFiles}] :
       /\ \A f \in ConfFiles : load[f] \in LoadFile(f)
       /\ cfDisk' = [f \in ConfFiles |-> load[f].disk]
       /\ cfLoaded' = [f \in ConfFiles |-> load[f].loaded]
       /\ cfMemory' = [f \in ConfFiles |-> IF load[f].loaded THEN load[f].disk ELSE Missing]
  /\ cfUpload' = NoFile
  /\ UNCHANGED <<cfBackups, cfTodo, cfStops, cfDropped>>

-----------------------------------------------------------------------------
(* Saving from memory: the configuration is changed, then SaveConfigIO()   *)
(* or SaveConfigRule()                                                     *)

SaveUnfrozen(f, v) ==
  IF cfLoaded[f] THEN WriteReturns(f, v) ELSE UNCHANGED cfDisk
SaveNotLoaded(f, v) ==
  IF ~cfFrozen THEN WriteReturns(f, v) ELSE UNCHANGED cfDisk
SaveConfig(f, v) ==
  IF ~cfFrozen /\ cfLoaded[f] THEN WriteReturns(f, v) ELSE UNCHANGED cfDisk

ChangeAndSave(f, v) ==
  /\ cfServer # "down" /\ cfTodo = <<>>
  /\ cfMemory' = [cfMemory EXCEPT ![f] = v]
  /\ SaveConfig(f, v)
  /\ UNCHANGED <<cfBackups, cfServer, cfLoaded, cfTodo, cfStops, cfFrozen,
                 cfUpload, cfDropped>>

-----------------------------------------------------------------------------
(* Replacing: config put and config_restore                                *)

\* BackupFiles() that succeeds, in a folder of its own: a file that was not
\* loaded may be missing from it.  When it fails nothing is replaced.
NoBackup == UNCHANGED cfBackups
BackupFiles ==
  /\ Len(cfBackups) < MaxBackups
  /\ \E folder \in Folder :
       /\ \A f \in ConfFiles :
            folder[f] = cfDisk[f] \/ (~cfLoaded[f] /\ folder[f] = Missing)
       /\ cfBackups' = Append(cfBackups, folder)

\* The files are written one after the other; a restore freezes first
Replace(files, restore) ==
  /\ cfServer = "up" /\ cfTodo = <<>> /\ ~cfFrozen
  /\ BackupFiles
  /\ cfTodo' = files /\ cfStops' = restore
  /\ cfFrozen' = restore
  /\ UNCHANGED <<cfDisk, cfServer, cfLoaded, cfMemory, cfUpload, cfDropped>>

\* Once a file is new the server restarts; when none is it goes on
WriteNext ==
  /\ cfServer = "up" /\ cfTodo # <<>>
  /\ LET f == Head(cfTodo)[1]
         v == Head(cfTodo)[2]
     IN \/ /\ cfDisk' = [cfDisk EXCEPT ![f] = v]
           /\ cfUpload' = [cfUpload EXCEPT ![f] = v]
           /\ cfDropped' = IF cfLoaded[f] /\ cfDisk[f] # Bad
                           THEN [cfDropped EXCEPT ![f] = @ \cup {cfDisk[f]}]
                           ELSE cfDropped
           /\ cfTodo' = Tail(cfTodo)
        \/ /\ cfTodo' = IF cfStops THEN <<>> ELSE Tail(cfTodo)
           /\ UNCHANGED <<cfDisk, cfUpload, cfDropped>>
  /\ LET replaced == cfUpload' # NoFile
     IN IF cfTodo' = <<>>
        THEN /\ cfServer' = IF replaced THEN "leaving" ELSE "up"
             /\ cfFrozen' = replaced
        ELSE UNCHANGED <<cfServer, cfFrozen>>
  /\ UNCHANGED <<cfBackups, cfLoaded, cfMemory, cfStops>>

-----------------------------------------------------------------------------
(* The process ends: on its own, killed, or with the machine               *)

ConfDown ==
  /\ cfServer' = "down" /\ cfTodo' = <<>>
  /\ cfLoaded' = [f \in ConfFiles |-> FALSE] /\ cfMemory' = NoFile
  /\ UNCHANGED <<cfBackups, cfStops, cfFrozen, cfUpload, cfDropped>>

ConfStop == cfServer # "down" /\ ConfDown /\ UNCHANGED cfDisk

\* in the middle of a write from memory, or of a replacement
CutSave(f, v) ==
  /\ cfServer # "down" /\ cfTodo = <<>> /\ ~cfFrozen /\ cfLoaded[f]
  /\ WriteIsCut(f, v)
  /\ ConfDown
CutReplace ==
  /\ cfServer = "up" /\ cfTodo # <<>>
  /\ WriteIsCut(Head(cfTodo)[1], Head(cfTodo)[2])
  /\ ConfDown

\* The disk, or somebody with an editor, ruins a file between two runs
Corrupt(f) ==
  /\ cfServer = "down"
  /\ cfDisk' = [cfDisk EXCEPT ![f] = Bad]
  /\ cfUpload' = [cfUpload EXCEPT ![f] = Missing]
  /\ UNCHANGED <<cfBackups, cfServer, cfLoaded, cfMemory, cfTodo, cfStops,
                 cfFrozen, cfDropped>>

\* One file, or both
Uploads ==
  {<<<<f, v>>>> : f \in ConfFiles, v \in Versions} \cup
  {files \in (ConfFiles \X Versions) \X (ConfFiles \X Versions) :
     files[1][1] # files[2][1]}

ConfNext ==
  \/ StartServer \/ ConfStop \/ WriteNext \/ CutReplace
  \/ \E f \in ConfFiles, v \in Versions : ChangeAndSave(f, v) \/ CutSave(f, v)
  \/ \E files \in Uploads, restore \in BOOLEAN : Replace(files, restore)
  \/ \E f \in ConfFiles : Corrupt(f)

ConfSpec == ConfInit /\ [][ConfNext]_cfVars

-----------------------------------------------------------------------------
(* Properties                                                              *)

\* "The memory still holds what was just overwritten: nothing may save it back
\* before the restart": what was uploaded is what the next start finds; and what
\* it replaced is in a backup, unless it had not been loaded.
UploadSurvives ==
  \A f \in ConfFiles :
    /\ cfUpload[f] # Missing => cfDisk[f] = cfUpload[f]
    /\ cfDropped[f] \subseteq Copies(f)

\* "On any failure the original file is left strictly untouched": the server
\* never turns a file that parses into one that does not, wherever it is cut.
\* "left as it was until a config put or a config_restore replaces it": a file
\* that the server could not load keeps its content, whatever is saved.
FilesAreKept ==
  [][\A f \in ConfFiles :
       cfServer # "down" =>
         /\ cfDisk'[f] = Bad => cfDisk[f] = Bad
         /\ ~cfLoaded[f] /\ cfDisk'[f] # cfDisk[f] => cfTodo # <<>>]_cfVars
=============================================================================
