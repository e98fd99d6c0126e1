---------------------------- MODULE BindingFile ----------------------------
(***************************************************************************)
(* The durable side of the Telegram bot's binding store                    *)
(* (telegram/tmux-bot/src/lib/store/binding-file.ts): a JSON file, its     *)
(* backup and a temporary file in one directory.                           *)
(*                                                                         *)
(* save() is one synchronous call for the bot, but every file-system call  *)
(* in it is a step of its own here: the process may be killed, the machine *)
(* may lose power, and the call may fail, between any two of them.  The    *)
(* two reads of load() may fail as well.                                   *)
(*                                                                         *)
(* A list of bindings is known by the number of the save() that first      *)
(* carried it; 0 is the empty list.  Every save carries a new list.        *)
(***************************************************************************)
EXTENDS Naturals

CONSTANTS
  Missing,    \* the file does not exist
  Unusable,   \* it exists and does not parse (torn, emptied, edited by hand)
  MaxSaves,   \* bound: the number of save() calls in a behaviour
  Faults      \* which faults the environment may inject

ASSUME ContentAssumption ==
  Missing # Unusable /\ Missing \notin Nat /\ Unusable \notin Nat
ASSUME MaxSavesAssumption == MaxSaves \in Nat
ASSUME FaultsAssumption == Faults \subseteq {"io", "kill", "power", "damage"}

VARIABLES
  primary,             \* content of filePath
  backup,              \* content of filePath.bak
  temp,                \* content of filePath.tmp
  unsynced,            \* lists whose bytes are in the page cache only
  onDisk,              \* the directory as last committed to the disk
  pc,                  \* where the process is
  memory,              \* the list the process holds (and is saving)
  rotateBackupOnSave,  \* the closure's flag
  issued,              \* history: number of save() calls so far
  acked,               \* history: the last completed save
  previous,            \* history: the list that save replaced
  base,                \* history: what the process last loaded or saved
  damaged,             \* history: the primary was damaged since the last load
  torn                 \* history: a power loss tore a file of the store

vars == <<primary, backup, temp, unsynced, onDisk, pc, memory,
          rotateBackupOnSave, issued, acked, previous, base, damaged, torn>>
disk == <<primary, backup, temp, unsynced, onDisk>>
history == <<acked, previous, base, damaged, torn>>

\* The two files of the store, with the history that belongs to them.
Directory == [primary |-> primary, backup |-> backup, acked |-> acked,
              previous |-> previous, damaged |-> damaged]

Content == 0..issued \cup {Missing, Unusable}
Up == {"idle", "writing", "written", "rotated"}

FlagsOK ==
  rotateBackupOnSave \in BOOLEAN /\ damaged \in BOOLEAN /\ torn \in BOOLEAN

TypeOK ==
  /\ primary \in Content /\ backup \in Content /\ temp \in Content
  /\ unsynced \subseteq Nat
  /\ pc \in Up \cup {"down", "refused"}
  /\ memory \in 0..issued
  /\ issued \in 0..MaxSaves
  /\ acked \in 0..issued /\ previous \in 0..issued /\ base \in 0..issued
  /\ onDisk \in [primary : Content, backup : Content, acked : 0..issued,
                  previous : 0..issued, damaged : BOOLEAN]
  /\ FlagsOK

Init ==
  /\ primary = Missing /\ backup = Missing /\ temp = Missing
  /\ unsynced = {}
  /\ pc = "down"
  /\ memory = 0 /\ issued = 0 /\ acked = 0 /\ previous = 0 /\ base = 0
  /\ rotateBackupOnSave = TRUE /\ damaged = FALSE /\ torn = FALSE
  /\ onDisk = Directory

-----------------------------------------------------------------------------
(* Loading *)

\* readStoreFile: any error of the read but "not found" counts as unusable.
ReadStoreFile(file) == {file} \cup (IF "io" \in Faults THEN {Unusable} ELSE {})

\* loadBindings, of what the two reads gave: the primary, else the backup,
\* else nothing at all, which is the empty list only if neither file exists.
LoadBindings(p, b) ==
  IF p \in Nat THEN p
  ELSE IF b \in Nat THEN b
  ELSE IF p = Missing /\ b = Missing THEN 0
  ELSE Unusable

\* What a restart finds when both reads succeed.
Recovered == LoadBindings(primary, backup)

\* Plausible bug: the primary is used without being parsed.
LoadUnparsed ==
  /\ pc = "down"
  /\ memory' = IF primary = Missing THEN Recovered ELSE primary
  /\ base' = memory'
  /\ rotateBackupOnSave' = TRUE
  /\ acked' = (IF damaged THEN Recovered ELSE acked)
  /\ damaged' = FALSE
  /\ pc' = "idle"
  /\ UNCHANGED <<disk, issued, previous, torn>>

\* Plausible bug: load() forgets that it fell back to the backup.
LoadForgetsRecovery ==
  /\ pc = "down"
  /\ \E p \in ReadStoreFile(primary), b \in ReadStoreFile(backup) :
       /\ LoadBindings(p, b) # Unusable
       /\ memory' = LoadBindings(p, b) /\ base' = LoadBindings(p, b)
  /\ rotateBackupOnSave' = TRUE
  /\ acked' = (IF damaged THEN Recovered ELSE acked)
  /\ damaged' = FALSE
  /\ pc' = "idle"
  /\ UNCHANGED <<disk, issued, previous, torn>>

\* The process starts: createBindingFile, then load().
Load ==
  /\ pc = "down"
  /\ \E p \in ReadStoreFile(primary), b \in ReadStoreFile(backup) :
       /\ LoadBindings(p, b) # Unusable
       /\ memory' = LoadBindings(p, b) /\ base' = LoadBindings(p, b)
       /\ rotateBackupOnSave' = (p # Unusable)
  /\ acked' = (IF damaged THEN Recovered ELSE acked)
  /\ damaged' = FALSE
  /\ pc' = "idle"
  /\ UNCHANGED <<disk, issued, previous, torn>>

\* BindingStoreCorruptError: the bot refuses to start, both files untouched.
LoadRefused ==
  /\ pc = "down"
  /\ \E p \in ReadStoreFile(primary), b \in ReadStoreFile(backup) :
       LoadBindings(p, b) = Unusable
  /\ pc' = "refused"
  /\ UNCHANGED <<disk, memory, rotateBackupOnSave, issued, history>>

-----------------------------------------------------------------------------
(* Saving *)

\* writeFileSync opens the temporary file, truncating it.
BeginSave ==
  /\ pc = "idle" /\ issued < MaxSaves
  /\ issued' = issued + 1
  /\ memory' = issued + 1
  /\ temp' = Unusable
  /\ pc' = "writing"
  /\ UNCHANGED <<primary, backup, unsynced, onDisk, rotateBackupOnSave, history>>

\* mkdirSync, before the try block, throws: the list stays in memory only.
SaveFailsEarly ==
  /\ "io" \in Faults
  /\ pc = "idle" /\ issued < MaxSaves
  /\ issued' = issued + 1
  /\ memory' = issued + 1
  /\ UNCHANGED <<disk, pc, rotateBackupOnSave, history>>

\* writeFileSync returns; the bytes are in the page cache (no fsync).
WriteTemp ==
  /\ pc = "writing"
  /\ temp' = memory
  /\ unsynced' = unsynced \cup {memory}
  /\ pc' = "written"
  /\ UNCHANGED <<primary, backup, onDisk, memory, rotateBackupOnSave, issued,
                 history>>

\* Plausible bug: the old backup is removed before a primary is there to
\* take its place.
RotateRemovesBackup ==
  /\ pc = "written" /\ rotateBackupOnSave
  /\ backup' = primary /\ primary' = Missing
  /\ pc' = "rotated"
  /\ UNCHANGED <<temp, unsynced, onDisk, memory, rotateBackupOnSave, issued,
                 history>>

\* rotateBackup: a missing primary (ENOENT) is not an error.
RotateBackup ==
  /\ pc = "written" /\ rotateBackupOnSave
  /\ IF primary = Missing
       THEN UNCHANGED <<primary, backup>>
       ELSE backup' = primary /\ primary' = Missing
  /\ pc' = "rotated"
  /\ UNCHANGED <<temp, unsynced, onDisk, memory, rotateBackupOnSave, issued,
                 history>>

\* After a recovery from the backup, the first save keeps it.
SkipRotation ==
  /\ pc = "written" /\ ~rotateBackupOnSave
  /\ pc' = "rotated"
  /\ UNCHANGED <<disk, memory, rotateBackupOnSave, issued, history>>

\* renameSync(tempPath, filePath): the save is complete.
RenameTemp ==
  /\ pc = "rotated"
  /\ primary' = temp
  /\ temp' = Missing
  /\ rotateBackupOnSave' = TRUE
  /\ acked' = memory
  /\ previous' = base
  /\ base' = memory
  /\ pc' = "idle"
  /\ UNCHANGED <<backup, unsynced, onDisk, memory, issued, damaged, torn>>

\* Plausible bug: the error path removes the store file, not the temporary.
SaveFailsRemovesStore ==
  /\ "io" \in Faults
  /\ pc \in {"writing", "written", "rotated"}
  /\ primary' = Missing
  /\ pc' = "idle"
  /\ UNCHANGED <<backup, temp, unsynced, onDisk, memory, rotateBackupOnSave,
                 issued, history>>

\* Any file-system call in the try block throws: the temporary file is
\* removed (rmSync may throw as well and leave it) and save() throws.
SaveFails ==
  /\ "io" \in Faults
  /\ pc \in {"writing", "written", "rotated"}
  /\ temp' \in {Missing, temp}
  /\ pc' = "idle"
  /\ UNCHANGED <<primary, backup, unsynced, onDisk, memory, rotateBackupOnSave,
                 issued, history>>

-----------------------------------------------------------------------------
(* The environment *)

\* The kernel writes some cached list to the disk.
Writeback ==
  /\ "power" \in Faults
  /\ \E n \in unsynced : unsynced' = unsynced \ {n}
  /\ UNCHANGED <<primary, backup, temp, onDisk, pc, memory, rotateBackupOnSave,
                 issued, history>>

\* The file system commits the renames done so far, at a moment of its own.
Commit ==
  /\ "power" \in Faults
  /\ onDisk' = Directory
  /\ UNCHANGED <<primary, backup, temp, unsynced, pc, memory,
                 rotateBackupOnSave, issued, history>>

\* The process is killed: files stay, the list and the flag are gone.
Kill ==
  /\ "kill" \in Faults
  /\ pc \in Up
  /\ pc' = "down"
  /\ memory' = 0 /\ rotateBackupOnSave' = TRUE
  /\ UNCHANGED <<disk, issued, history>>

Tear(file, lost) == IF file \in lost THEN Unusable ELSE file

\* Power loss: the directory comes back as last committed, so the renames
\* since then are undone, and a file whose bytes were never written back comes
\* up empty or cut short.  What is left of the temporary file is never read.
PowerLoss ==
  /\ "power" \in Faults
  /\ \E lost \in SUBSET unsynced :
       /\ primary' = Tear(onDisk.primary, lost)
       /\ backup' = Tear(onDisk.backup, lost)
       /\ torn' = (torn \/ {onDisk.primary, onDisk.backup} \cap lost # {})
  /\ temp' \in {Missing, Unusable}
  /\ acked' = onDisk.acked /\ previous' = onDisk.previous
  /\ damaged' = onDisk.damaged
  /\ onDisk' = Directory'
  /\ unsynced' = {}
  /\ pc' = "down"
  /\ memory' = 0 /\ rotateBackupOnSave' = TRUE
  /\ UNCHANGED <<issued, base>>

\* Something outside the bot damages the store file while the bot is down.
Damage ==
  /\ "damage" \in Faults
  /\ pc = "down" /\ primary \in Nat
  /\ primary' = Unusable
  /\ damaged' = TRUE
  /\ UNCHANGED <<backup, temp, unsynced, onDisk, pc, memory, rotateBackupOnSave,
                 issued, acked, previous, base, torn>>

\* systemd starts a bot that exited with an error again (Restart=on-failure).
Restart ==
  /\ pc = "refused" /\ pc' = "down"
  /\ UNCHANGED <<disk, memory, rotateBackupOnSave, issued, history>>

Program ==
  \/ Load \/ LoadRefused
  \/ BeginSave \/ SaveFailsEarly \/ WriteTemp \/ RotateBackup \/ SkipRotation
  \/ RenameTemp \/ SaveFails

\* The bot has made its last save of the bound.
Rest == pc = "idle" /\ issued = MaxSaves /\ UNCHANGED vars

Next ==
  \/ Program
  \/ Writeback \/ Commit \/ Kill \/ PowerLoss \/ Damage \/ Restart
  \/ Rest

Spec == Init /\ [][Next]_vars

-----------------------------------------------------------------------------
(* Properties *)

\* Whatever calls fail and whenever the process dies, a restart whose reads
\* succeed finds the list of the last completed save (after a power loss, the
\* last one the directory on the disk holds); if the primary was damaged
\* meanwhile it finds the list that save replaced, unless there is no backup.
\* A failing read costs no more than that: the bot starts from the list the
\* last save replaced, or refuses to start.
RecoveryInv ==
  ~torn =>
    /\ IF ~damaged THEN Recovered = acked
       ELSE Recovered = (IF backup = Missing THEN Unusable ELSE previous)
    /\ \A p \in ReadStoreFile(primary), b \in ReadStoreFile(backup) :
         LoadBindings(p, b) \in {acked, previous, Unusable}

\* No step of save() or load() destroys the only readable copy, also while
\* an earlier damage is being recovered from (the rotation is then skipped).
GoodCopy == primary \in Nat \/ backup \in Nat
GoodCopyKept == [][GoodCopy /\ Program => GoodCopy']_vars

\* The file behaves as one durable cell: a save replaces it in one step, a
\* process runs on its value or on the one before, a power loss sets it back
\* to a state it had, and all other steps are invisible.  A power loss that
\* tears a file is the only thing the cell does not allow.
Cell == INSTANCE DurableCell WITH
          value <- Recovered, current <- base,
          stored <- <<LoadBindings(onDisk.primary, onDisk.backup),
                      onDisk.previous, onDisk.damaged>>
RefinesCell == Cell!Init /\ [][torn' \/ Cell!Next]_(Cell!vars)

\* What the module's comment says: "an interrupted write leaves either the
\* previous file or the new one intact - never a half-written file".  Does
\* not hold across a power loss, since save() never flushes the bytes.
CrashSafe == pc = "down" /\ ~damaged => Recovered \in {previous, acked}
=============================================================================
