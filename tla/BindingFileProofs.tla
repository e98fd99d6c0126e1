------------------------- MODULE BindingFileProofs -------------------------
(***************************************************************************)
(* Proofs about BindingFile, for any number of saves and any set of        *)
(* faults: its type, what a restart recovers, that no readable copy is     *)
(* destroyed, and that it implements DurableCell.                          *)
(***************************************************************************)
EXTENDS BindingFile, TLAPS

\* While the process is up, the flag says whether the primary may be moved over
\* the backup: if so the process runs on the last completed save, and if not
\* it runs on the backup.
FlagInv ==
  pc \in Up => IF rotateBackupOnSave
                 THEN primary # Unusable /\ (torn \/ base = acked)
                 ELSE backup = base

\* A save in progress carries a list newer than the last one acknowledged,
\* and a list that is about to be renamed into place is complete.
SavingInv ==
  /\ pc \in {"writing", "written", "rotated"} => memory = issued /\ acked < issued
  /\ pc \in {"written", "rotated"} => temp = memory

\* The shapes a directory can have: damaged and not yet loaded; at rest;
\* between the two renames, or recovered; and before the first save.
DamagedShape(d) ==
  d.damaged /\ d.primary = Unusable /\ d.backup \in {Missing, d.previous}
RestShape(d) ==
  ~d.damaged /\ d.primary = d.acked /\ d.backup \in {Missing, d.previous}
BackupShape(d) ==
  ~d.damaged /\ d.primary \in {Missing, Unusable} /\ d.backup = d.acked
EmptyShape(d) ==
  ~d.damaged /\ d.primary = Missing /\ d.backup = Missing /\ d.acked = 0
Sound(d) == DamagedShape(d) \/ RestShape(d) \/ BackupShape(d) \/ EmptyShape(d)

\* Without a torn file both the directory and the one on the disk are sound;
\* a running process has accepted what it found, and a rotation has moved the
\* primary away.
DiskInv ==
  ~torn => /\ Sound(Directory) /\ Sound(onDisk)
           /\ damaged => pc \notin Up
           /\ pc = "rotated" /\ rotateBackupOnSave => primary = Missing

IInv == TypeOK /\ FlagInv /\ SavingInv /\ DiskInv

-----------------------------------------------------------------------------
(* The inductive invariant *)

DirectoryType == [primary : Content, backup : Content, acked : 0..issued,
                  previous : 0..issued, damaged : BOOLEAN]

LEMMA DirectoryTyped ==
  ASSUME NEW p \in Content, NEW b \in Content, NEW a \in 0..issued,
         NEW q \in 0..issued, NEW d \in BOOLEAN
  PROVE  [primary |-> p, backup |-> b, acked |-> a, previous |-> q,
          damaged |-> d] \in DirectoryType
BY Zenon DEF DirectoryType

LEMMA InitIInv == Init => IInv
<1> SUFFICES ASSUME Init PROVE IInv
  OBVIOUS
<1>1. FlagsOK
  BY DEF Init, FlagsOK
<1>2. TypeOK
  <2>1. primary \in Content /\ backup \in Content /\ 0 \in 0..issued
    BY ContentAssumption DEF Init, Content
  <2>2. acked \in 0..issued /\ previous \in 0..issued
    BY <2>1 DEF Init
  <2>3. onDisk \in DirectoryType
    BY <1>1, <2>1, <2>2, DirectoryTyped, Zenon DEF Init, FlagsOK, Directory
  <2>4. QED
    BY <1>1, <2>1, <2>2, <2>3, MaxSavesAssumption, ContentAssumption
       DEF Init, TypeOK, DirectoryType, Content
<1>3. FlagInv /\ SavingInv
  BY DEF Init, Up, FlagInv, SavingInv
<1>4. DiskInv
  BY DEF Init, Up, DiskInv, Sound, EmptyShape, Directory
<1>5. QED
  BY <1>2, <1>3, <1>4 DEF IInv

LEMMA StepFlags == TypeOK /\ [Next]_vars => FlagsOK'
<1> SUFFICES ASSUME TypeOK, [Next]_vars PROVE FlagsOK'
  OBVIOUS
<1>1. FlagsOK /\ onDisk.damaged \in BOOLEAN
  BY DEF TypeOK
<1>2. CASE PowerLoss
  BY <1>1, <1>2, Zenon DEF FlagsOK, PowerLoss
<1>3. CASE Load
  BY <1>1, <1>3, Zenon DEF FlagsOK, Load
<1>4. QED
  BY <1>1, <1>2, <1>3
     DEF FlagsOK, Next, Program, LoadRefused, BeginSave, SaveFailsEarly,
         WriteTemp, RotateBackup, SkipRotation, RenameTemp, SaveFails, Writeback,
         Commit, Kill, Damage, Restart, Rest, vars, history

\* What a load does, in terms of the two outcomes of its reads.
LEMMA LoadCases ==
  ASSUME IInv, Load
  PROVE  /\ base' \in 0..issued /\ memory' = base'
         /\ IF rotateBackupOnSave' THEN primary # Unusable /\ (torn \/ base' = acked')
            ELSE backup = base'
         /\ acked' = IF damaged THEN Recovered ELSE acked
         /\ ~torn /\ damaged => Recovered = backup
<1>1. PICK p \in ReadStoreFile(primary), b \in ReadStoreFile(backup) :
        /\ LoadBindings(p, b) # Unusable
        /\ memory' = LoadBindings(p, b) /\ base' = LoadBindings(p, b)
        /\ rotateBackupOnSave' <=> p # Unusable
  BY Zenon DEF Load
<1>2. p \in {primary, Unusable} /\ b \in {backup, Unusable}
  BY DEF ReadStoreFile
<1>3. acked' = IF damaged THEN Recovered ELSE acked
  BY DEF Load
<1>4. base' \in 0..issued
  BY <1>1, <1>2, ContentAssumption DEF IInv, TypeOK, Content, LoadBindings
<1>5. CASE p = Unusable
  <2>1. b = backup /\ base' = b
    BY <1>1, <1>2, <1>5, ContentAssumption DEF LoadBindings
  <2>2. ~torn /\ damaged => Recovered = backup
    BY <1>1, <1>4, <2>1, ContentAssumption
       DEF IInv, DiskInv, Sound, DamagedShape, RestShape, BackupShape, EmptyShape,
           Directory, Recovered, LoadBindings
  <2>3. QED
    BY <1>1, <1>3, <1>4, <1>5, <2>1, <2>2
<1>6. CASE p # Unusable
  <2>1. p = primary
    BY <1>2, <1>6
  <2>2. ~torn => ~damaged /\ base' = acked
    BY <1>1, <1>2, <1>6, <2>1, ContentAssumption
       DEF IInv, TypeOK, Content, DiskInv, Sound, DamagedShape, RestShape,
           BackupShape, EmptyShape, Directory, LoadBindings
  <2>3. QED
    BY <1>1, <1>3, <1>4, <1>6, <2>1, <2>2
<1>7. QED
  BY <1>5, <1>6

LEMMA StepIInv == IInv /\ [Next]_vars => IInv'
<1> SUFFICES ASSUME IInv, [Next]_vars PROVE IInv'
  OBVIOUS
<1>f. FlagsOK'
  BY StepFlags DEF IInv
<1> USE ContentAssumption, MaxSavesAssumption, <1>f
    DEF IInv, TypeOK, Content, Up, FlagInv, SavingInv, DiskInv, Sound,
        DamagedShape, RestShape, BackupShape, EmptyShape, Directory, disk, history
<1>1. CASE Load
  <2>1. pc = "down" /\ pc' = "idle" /\ ~damaged' /\ UNCHANGED <<disk, issued, previous>>
    BY <1>1 DEF Load
  <2>2. torn' <=> torn
    BY <1>1 DEF Load
  <2>3. base' \in 0..issued /\ memory' = base'
    BY <1>1, LoadCases
  <2>8. damaged => Recovered \in 0..issued
    BY <1>1, LoadCases, <2>1 DEF Load, Recovered, LoadBindings, ReadStoreFile
  <2>4. acked' \in 0..issued /\ FlagInv'
    <3>1. acked' \in 0..issued
      BY <1>1, <2>8, LoadCases
    <3>2. FlagInv'
      BY <1>1, <2>1, <2>2, LoadCases
    <3>3. QED
      BY <3>1, <3>2
  <2>5. TypeOK'
    BY <2>1, <2>3, <2>4
  <2>6. DiskInv'
    BY <1>1, <2>1, <2>2, LoadCases
  <2>7. QED
    BY <2>1, <2>4, <2>5, <2>6
<1>2. CASE LoadRefused
  BY <1>2 DEF LoadRefused
<1>3. CASE BeginSave
  BY <1>3 DEF BeginSave
<1>4. CASE SaveFailsEarly
  BY <1>4 DEF SaveFailsEarly
<1>5. CASE WriteTemp
  BY <1>5 DEF WriteTemp
<1>6. CASE RotateBackup
  BY <1>6 DEF RotateBackup
<1>7. CASE SkipRotation
  BY <1>7 DEF SkipRotation
<1>8. CASE RenameTemp
  BY <1>8 DEF RenameTemp
<1>9. CASE SaveFails
  BY <1>9 DEF SaveFails
<1>10. CASE Writeback
  BY <1>10 DEF Writeback
<1>11. CASE Commit
  <2>1. onDisk' = Directory /\ UNCHANGED <<primary, backup, temp, unsynced, pc,
          memory, rotateBackupOnSave, issued, acked, previous, base, damaged, torn>>
    BY <1>11 DEF Commit
  <2>2. onDisk' \in DirectoryType' /\ onDisk' \in DirectoryType
    BY <2>1, DirectoryTyped DEF FlagsOK, DirectoryType
  <2>3. TypeOK'
    BY <2>1, <2>2 DEF DirectoryType
  <2>4. FlagInv' /\ SavingInv'
    BY <2>1
  <2>5. DiskInv'
    BY <2>1
  <2>6. QED
    BY <2>3, <2>4, <2>5
<1>12. CASE Kill
  BY <1>12 DEF Kill
<1>13. CASE PowerLoss
  <2>1. /\ pc' = "down" /\ memory' = 0 /\ unsynced' = {}
        /\ temp' \in {Missing, Unusable}
        /\ acked' = onDisk.acked /\ previous' = onDisk.previous
        /\ onDisk' = Directory' /\ UNCHANGED <<issued, base>>
    BY <1>13 DEF PowerLoss
  <2>2. damaged' <=> onDisk.damaged
    BY <1>13 DEF PowerLoss
  <2>3. PICK lost \in SUBSET unsynced :
          /\ primary' = Tear(onDisk.primary, lost)
          /\ backup' = Tear(onDisk.backup, lost)
          /\ torn' <=> (torn \/ {onDisk.primary, onDisk.backup} \cap lost # {})
    BY <1>13, Zenon DEF PowerLoss
  <2>4. primary' \in Content /\ backup' \in Content
    BY <2>3 DEF Tear
  <2>10. damaged' \in BOOLEAN
    BY <1>f DEF FlagsOK
  <2>11. acked' \in 0..issued' /\ previous' \in 0..issued' /\ Content' = Content
    BY <2>1
  <2>12. onDisk' \in DirectoryType'
    <3>1. DirectoryType' = DirectoryType
      BY <2>1 DEF DirectoryType
    <3>2. QED
      BY <2>1, <2>4, <2>10, <2>11, <3>1, DirectoryTyped
  <2>5. TypeOK'
    BY <2>1, <2>4, <2>11, <2>12 DEF DirectoryType
  <2>6. FlagInv' /\ SavingInv'
    BY <2>1
  <2>7. ~torn' => primary' = onDisk.primary /\ backup' = onDisk.backup
    BY <2>3 DEF Tear
  <2>8. DiskInv'
    BY <2>1, <2>2, <2>3, <2>7
  <2>9. QED
    BY <2>5, <2>6, <2>8
<1>14. CASE Damage
  BY <1>14 DEF Damage
<1>15. CASE Restart
  BY <1>15 DEF Restart
<1>16. CASE UNCHANGED vars
  BY <1>16 DEF vars
<1>17. QED
  BY <1>1, <1>2, <1>3, <1>4, <1>5, <1>6, <1>7, <1>8, <1>9, <1>10, <1>11,
     <1>12, <1>13, <1>14, <1>15, <1>16 DEF Next, Program, Rest

\* Every reachable state is well typed and has one of the four shapes.
THEOREM Inductive == Spec => []IInv
BY InitIInv, StepIInv, PTL DEF Spec

\* Type correctness.
THEOREM TypeCorrect == Spec => []TypeOK
<1>1. IInv => TypeOK
  BY DEF IInv
<1>2. QED
  BY <1>1, Inductive, PTL

-----------------------------------------------------------------------------
(* What follows from it *)

LEMMA RecoveryFromIInv == IInv => RecoveryInv
<1> SUFFICES ASSUME IInv, ~torn PROVE RecoveryInv
  BY DEF RecoveryInv
<1> USE ContentAssumption
    DEF IInv, TypeOK, Content, DiskInv, Sound, DamagedShape, RestShape,
        BackupShape, EmptyShape, Directory
<1>1. IF ~damaged THEN Recovered = acked
      ELSE Recovered = (IF backup = Missing THEN Unusable ELSE previous)
  BY DEF Recovered, LoadBindings
<1>2. ASSUME NEW p \in {primary, Unusable}, NEW b \in {backup, Unusable}
      PROVE  LoadBindings(p, b) \in {acked, previous, Unusable}
  BY DEF LoadBindings
<1>3. QED
  BY <1>1, <1>2 DEF RecoveryInv, ReadStoreFile

\* A restart whose reads succeed finds the last completed save, after outside
\* damage the one before it; and one whose reads fail finds one of the two, or
\* refuses.
THEOREM Recovery == Spec => []RecoveryInv
BY Inductive, RecoveryFromIInv, PTL

LEMMA GoodCopyStep == IInv /\ Program /\ GoodCopy => GoodCopy'
<1> SUFFICES ASSUME IInv, Program, GoodCopy PROVE GoodCopy'
  OBVIOUS
<1> USE ContentAssumption
    DEF IInv, TypeOK, Content, Up, FlagInv, SavingInv, GoodCopy, disk
<1>1. CASE UNCHANGED <<primary, backup>>
  BY <1>1
<1>2. CASE RotateBackup
  BY <1>2 DEF RotateBackup
<1>3. CASE RenameTemp
  BY <1>3 DEF RenameTemp
<1>4. QED
  BY <1>1, <1>2, <1>3
     DEF Program, Load, LoadRefused, BeginSave, SaveFailsEarly, WriteTemp,
         SkipRotation, SaveFails

\* save() and load() never destroy the only readable copy.
THEOREM GoodCopyIsKept == Spec => GoodCopyKept
<1>1. IInv /\ [Next]_vars => [GoodCopy /\ Program => GoodCopy']_vars
  BY GoodCopyStep
<1>2. QED
  BY <1>1, Inductive, PTL DEF Spec, GoodCopyKept

-----------------------------------------------------------------------------
(* The file implements the durable cell *)

Stored == <<LoadBindings(onDisk.primary, onDisk.backup), onDisk.previous,
            onDisk.damaged>>
CellView == <<Recovered, previous, damaged, base, Stored>>

LEMMA CellInit == Init => Cell!Init
BY ContentAssumption
   DEF Init, Cell!Init, Recovered, LoadBindings, Directory

\* The rename of the temporary file is the step that replaces the cell, damage
\* is the one that sets it back by one save, a load opens it, and a power loss
\* takes it back to what was committed.
LEMMA CellStep ==
  IInv /\ [Next]_vars => torn' \/ Cell!Next \/ UNCHANGED CellView
<1> SUFFICES ASSUME IInv, [Next]_vars, ~torn'
             PROVE  Cell!Next \/ UNCHANGED CellView
  OBVIOUS
<1>t. ~torn
  BY DEF Next, Program, Load, LoadRefused, BeginSave, SaveFailsEarly, WriteTemp,
         RotateBackup, SkipRotation, RenameTemp, SaveFails, Writeback, Commit,
         Kill, PowerLoss, Damage, Restart, Rest, vars, history
<1> USE ContentAssumption, MaxSavesAssumption, <1>t
    DEF IInv, TypeOK, Content, Up, DiskInv, Sound, DamagedShape, RestShape,
        BackupShape, EmptyShape, Directory
<1>1. CASE UNCHANGED <<primary, backup, previous, base, damaged, onDisk>>
  BY <1>1 DEF CellView, Stored, Recovered
<1>2. CASE Load
  <2>1. UNCHANGED <<primary, backup, previous, onDisk>>
    BY <1>2 DEF Load, disk
  <2>2. damaged' = FALSE
    BY <1>2 DEF Load
  <2>3. Recovered' = Recovered /\ UNCHANGED Stored
    BY <2>1 DEF Recovered, Stored
  <2>4. Recovered \in Nat /\ base' \in {Recovered} \cup (IF damaged THEN {} ELSE {previous})
    <3>1. /\ base' \in 0..issued
          /\ IF rotateBackupOnSave' THEN primary # Unusable /\ base' = acked'
             ELSE backup = base'
          /\ acked' = IF damaged THEN Recovered ELSE acked
      BY <1>2, LoadCases
    <3>2. QED
      BY <3>1 DEF Recovered, LoadBindings
  <2>5. Cell!Open
    BY <2>1, <2>2, <2>3, <2>4 DEF Cell!Open, Stored
  <2>6. QED
    BY <2>5 DEF Cell!Next
<1>3. CASE RotateBackup
  <2>1. UNCHANGED <<previous, base, damaged, onDisk>>
    BY <1>3 DEF RotateBackup, history
  <2>2. Recovered' = Recovered
    BY <1>3 DEF RotateBackup, Recovered, LoadBindings, FlagInv
  <2>3. QED
    BY <2>1, <2>2 DEF CellView, Stored
<1>4. CASE RenameTemp
  <2>1. /\ damaged' = damaged /\ previous' = base /\ base' = memory
        /\ onDisk' = onDisk
    BY <1>4 DEF RenameTemp
  <2>2. ~damaged /\ Recovered = acked
    BY <1>4 DEF RenameTemp, Recovered, LoadBindings
  <2>3. Recovered' = memory /\ memory \in Nat /\ memory > acked
    BY <1>4 DEF RenameTemp, SavingInv, Recovered, LoadBindings
  <2>4. Cell!Replace
    BY <2>1, <2>2, <2>3 DEF Cell!Replace, Stored
  <2>5. QED
    BY <2>4 DEF Cell!Next
<1>5. CASE Commit
  <2>1. UNCHANGED <<primary, backup, previous, base, damaged>> /\ onDisk' = Directory
    BY <1>5 DEF Commit, history
  <2>2. Recovered' = Recovered /\ Stored' = <<Recovered, previous, damaged>>
    BY <2>1 DEF Recovered, Stored
  <2>3. Cell!Sync
    BY <2>1, <2>2 DEF Cell!Sync, Stored
  <2>4. QED
    BY <2>3 DEF Cell!Next
<1>6. CASE PowerLoss
  <2>1. PICK lost \in SUBSET unsynced :
          /\ primary' = Tear(onDisk.primary, lost)
          /\ backup' = Tear(onDisk.backup, lost)
          /\ torn' <=> (torn \/ {onDisk.primary, onDisk.backup} \cap lost # {})
    BY <1>6, Zenon DEF PowerLoss
  <2>2. primary' = onDisk.primary /\ backup' = onDisk.backup
    BY <2>1 DEF Tear
  <2>3. /\ previous' = onDisk.previous /\ damaged' = onDisk.damaged
        /\ onDisk' = Directory' /\ base' = base
    BY <1>6 DEF PowerLoss
  <2>4. <<Recovered', previous', damaged'>> = Stored
    BY <2>2, <2>3 DEF Recovered, Stored
  <2>5. Stored' = Stored
    BY <2>2, <2>3 DEF Stored
  <2>6. Cell!SetBack
    BY <2>3, <2>4, <2>5 DEF Cell!SetBack, Stored
  <2>7. QED
    BY <2>6 DEF Cell!Next
<1>7. CASE Damage
  <2>1. UNCHANGED <<previous, base, onDisk>> /\ damaged' = TRUE
    BY <1>7 DEF Damage
  <2>2. ~damaged
    BY <1>7 DEF Damage
  <2>3. Recovered' \in {previous, Unusable}
    BY <1>7 DEF Damage, Recovered, LoadBindings
  <2>4. Cell!FallBack
    BY <2>1, <2>2, <2>3 DEF Cell!FallBack, Stored
  <2>5. QED
    BY <2>4 DEF Cell!Next
<1>8. QED
  BY <1>1, <1>2, <1>3, <1>4, <1>5, <1>6, <1>7
     DEF Next, Program, LoadRefused, BeginSave, SaveFailsEarly, WriteTemp,
         SkipRotation, SaveFails, Writeback, Kill, Restart, Rest, vars, disk,
         history

\* Seen through what a restart would load, save() is atomic under every fault
\* but a power loss that tears a file, a process starts from the last completed
\* save or the one before, and a power loss goes back to a committed state.
THEOREM FileImplementsCell == Spec => RefinesCell
<1>1. IInv /\ [Next]_vars => [torn' \/ Cell!Next]_(Cell!vars)
  BY CellStep DEF CellView, Stored, Cell!vars
<1>2. QED
  BY <1>1, CellInit, Inductive, PTL DEF Spec, RefinesCell
=============================================================================
