--------------------------- MODULE ProjectProofs ---------------------------
(***************************************************************************)
(* Proofs about a project that is stored and shared: ProjectStore,         *)
(* SyncFile, GitProject, KonnectSync, then Governance.                     *)
(*                                                                         *)
(* The store: type correctness, and that no crash, failed call or damaged  *)
(* file ever pairs the manifest of one save with the records of another.   *)
(* NoMixedRevision is not inductive: a rename is only harmless because of  *)
(* what the calls before it left missing, which the conjuncts of MixInv    *)
(* record for each program point.  KeepInv adds what WorkIsKept needs:     *)
(* where, at each program point, the documents of the last committed save  *)
(* still lie, and what the rotation owes the backup.                       *)
(***************************************************************************)
EXTENDS ProjectStore, GitProject, SyncFile, KonnectSync, Governance,
        FiniteSetTheorems, NaturalsInduction, WellFoundedInduction, TLAPS

SavePC == {"dropBackupManifest", "dropBackupRecords", "rotateManifest", "rotateRecords"}
CopyPC == {"stageCopy", "asideManifest", "asideRecords",
           "dropPreviousManifest", "dropPreviousRecords"}
KeepPC == {"keepInvalidManifest", "keepInvalidRecords"}

\* Manifest m may be read together with record directory r.
Match(m, r) == m.kind = "manifest" /\ r.kind = "records" => m.rev = r.rev

\* The operation in flight fits its program point.
OpFits ==
    /\ op.kind = "save" => op.dst = "primary"
    /\ pc # "idle" => op.kind # "none"
    /\ pc \in SavePC => op.kind = "save"
    /\ pc \in CopyPC => op.kind \in {"migrate", "restore"}
    /\ pc \in KeepPC => op.kind \in {"save", "restore"} /\ op.dst = "primary"

\* The staged copy is that of op.rev, from staging until it is installed.
HasStaged ==
    \/ pc \in SavePC \cup {"asideManifest", "asideRecords", "installRecords"}
    \/ pc \in KeepPC /\ op.kind = "save"

StagedFits ==
    /\ rec["staged"] = IF HasStaged THEN Records(op.rev) ELSE Missing
    /\ man["staged"] = IF HasStaged \/ pc = "installManifest" THEN Manifest(op.rev) ELSE Missing
    /\ pc = "installManifest" => rec[op.dst] = Records(op.rev)

\* What each call finds cleared by the calls before it.
Cleared ==
    /\ pc \in {"dropBackupRecords", "rotateManifest"} => man["backup"] = Missing
    /\ pc \in {"rotateManifest", "rotateRecords"} => rec["backup"] = Missing
    /\ pc \in {"rotateRecords", "keepInvalidRecords"} => man["primary"] = Missing
    /\ pc \in {"asideRecords", "installRecords", "installManifest"} => man[op.dst] = Missing
    /\ pc = "installRecords" => rec[op.dst] = Missing

\* The hidden .previous copy exists only while a copy is being replaced.
PreviousFits ==
    /\ op.kind = "save" \/ ~op.moved \/ pc \in {"stageCopy", "asideManifest"} \cup KeepPC
         => man["previous"] = Missing /\ rec["previous"] = Missing
    /\ pc = "asideRecords" => rec["previous"] = Missing
    /\ pc \in {"asideManifest", "asideRecords"} => op.moved
    /\ pc = "dropPreviousRecords" => man["previous"] = Missing
    /\ pc \in KeepPC \cup {"idle", "stageCopy"} => ~op.moved

\* The manifest that a rotation has moved still fits the records left behind.
MovedFits ==
    /\ pc = "rotateRecords" => Match(man["backup"], rec["primary"])
    /\ pc = "asideRecords" => Match(man["previous"], rec[op.dst])

\* No copy pairs the manifest of one save with the records of another.
Unmixed == \A p \in {"primary", "backup", "previous"} : Match(man[p], rec[p])

MixInv ==
    /\ TypeOK
    /\ OpFits
    /\ StagedFits
    /\ Cleared
    /\ PreviousFits
    /\ MovedFits
    /\ Unmixed

-----------------------------------------------------------------------------
USE DEF Place, Kinds, Missing, Damaged, Document, Manifest, Records, PC,
        SavePC, CopyPC, KeepPC, Match

\* The projects an earlier version left, and no project at all, satisfy MixInv.
LEMMA MixInvInit == Init => MixInv
  <1> SUFFICES ASSUME Init PROVE MixInv
    OBVIOUS
  <1>1. PICK n \in Legacy : /\ committed = n /\ lastRev = n
                            /\ man = CASE n = 0 -> NoFiles
                                       [] n = 1 -> [NoFiles EXCEPT !["primary"] = Document(1)]
                                       [] n = 2 -> [NoFiles EXCEPT !["primary"] = Document(2),
                                                                   !["backup"] = Document(1)]
    BY DEF Init
  <1>2. n = 0 \/ n = 1 \/ n = 2
    BY BoundsAssumption
  <1>3. TypeOK
    BY <1>1, <1>2 DEF Init, TypeOK, NoFiles, Idle, File, Ops
  <1>4. QED
    BY <1>1, <1>2, <1>3 DEF Init, MixInv, OpFits, StagedFits, HasStaged, Cleared, PreviousFits,
       MovedFits, Unmixed, NoFiles, Idle

\* What ending an operation does to the copies: the hidden names are empty,
\* the primary and the backup are those the failing call left.
LEMMA SettleFacts ==
  ASSUME orphans \subseteq File,
         NEW m \in [Place -> File], NEW r \in [Place -> File],
         NEW leaked \in SUBSET Place, Settle(m, r, leaked)
  PROVE  /\ man' \in [Place -> File] /\ rec' \in [Place -> File] /\ orphans' \subseteq File
         /\ man'["staged"] = Missing /\ rec'["staged"] = Missing
         /\ man'["previous"] = Missing /\ rec'["previous"] = Missing
         /\ \A p \in {"primary", "backup"} : man'[p] = m[p] /\ rec'[p] = r[p]
  <1>1. Missing \in File
    BY DEF File
  <1>2. \A f \in File : Keep(f) \subseteq File
    BY DEF Keep
  <1>3. \A p \in leaked : Keep(m[p]) \cup Keep(r[p]) \subseteq File
    BY <1>2
  <1>4. UNION {Keep(m[p]) \cup Keep(r[p]) : p \in leaked} \subseteq File
    BY <1>3
  <1>5. orphans' \subseteq File
    BY <1>4 DEF Settle
  <1>6. QED
    BY <1>1, <1>5 DEF Settle

\* An operation that ends is idle or goes on to its next copy, with nothing
\* staged and nothing set aside.
LEMMA FinishFacts ==
  ASSUME TypeOK, Finish
  PROVE  /\ op' \in Ops /\ ~op'.moved /\ op'.kind # "save"
         /\ \/ pc' = "idle"
            \/ pc' = "stageCopy" /\ op'.kind \in {"migrate", "restore"}
            \/ pc' = "keepInvalidManifest" /\ op'.kind = "restore" /\ op'.dst = "primary"
  <1>1. RevOf("backup") \in Nat /\ op.rev \in Nat
    BY DEF TypeOK, File, Ops, RevOf
  <1>2. CASE Begin(CopyOp("migrate", "backup", RevOf("backup")), "stageCopy")
    BY <1>1, <1>2 DEF Begin, CopyOp, Ops
  <1>3. CASE RestorePrimary(op.rev)
    BY <1>1, <1>3 DEF RestorePrimary, Begin, CopyOp, Ops
  <1>4. CASE Begin(Idle, "idle")
    BY <1>4 DEF Begin, Idle, Ops
  <1>5. QED
    BY <1>2, <1>3, <1>4 DEF Finish

\* The steps of the operations preserve MixInv.
LEMMA BeginSaveKeeps == MixInv /\ BeginSave => MixInv'
  <1> SUFFICES ASSUME MixInv, BeginSave PROVE MixInv'
    OBVIOUS
  <1>1. TypeOK'
    BY DEF BeginSave, Staged, CopyOp, Present, MixInv, TypeOK, File, Ops
  <1>2. QED
    BY <1>1 DEF BeginSave, Staged, CopyOp, Present, MixInv, TypeOK,
       OpFits, StagedFits, Cleared, PreviousFits, MovedFits, Unmixed, HasStaged

LEMMA BeginMigrateKeeps == MixInv /\ BeginMigrate => MixInv'
  <1> SUFFICES ASSUME MixInv, BeginMigrate PROVE MixInv'
    OBVIOUS
  <1>1. TypeOK'
    BY DEF BeginMigrate, Begin, CopyOp, RevOf, MixInv, TypeOK, File, Ops
  <1>2. QED
    BY <1>1 DEF BeginMigrate, Begin, CopyOp, RevOf, MixInv, TypeOK,
       OpFits, StagedFits, Cleared, PreviousFits, MovedFits, Unmixed, HasStaged

LEMMA BeginRestoreKeeps == MixInv /\ BeginRestore => MixInv'
  <1> SUFFICES ASSUME MixInv, BeginRestore PROVE MixInv'
    OBVIOUS
  <1>1. RevOf("backup") \in Nat
    BY DEF MixInv, TypeOK, File, RevOf
  <1>2. /\ op' \in Ops /\ ~op'.moved /\ op'.kind = "restore"
        /\ \/ pc' = "stageCopy"
           \/ pc' = "keepInvalidManifest" /\ op'.dst = "primary"
    <2>1. CASE Begin(CopyOp("restore", "backup", RevOf("backup")), "stageCopy")
      <3>1. pc' = "stageCopy" /\ op' = CopyOp("restore", "backup", RevOf("backup"))
        BY <2>1 DEF Begin
      <3>2. CopyOp("restore", "backup", RevOf("backup")) \in Ops
        BY <1>1 DEF CopyOp, Ops
      <3>3. QED
        BY <3>1, <3>2 DEF CopyOp
    <2>2. CASE RestorePrimary(RevOf("backup"))
      BY <1>1, <2>2 DEF RestorePrimary, Begin, CopyOp, Ops
    <2>3. QED
      BY <2>1, <2>2 DEF BeginRestore
  <1>3. TypeOK'
    BY <1>2 DEF BeginRestore, MixInv, TypeOK
  <1>4. QED
    BY <1>2, <1>3 DEF BeginRestore, MixInv, OpFits, StagedFits, HasStaged, Cleared,
       PreviousFits, MovedFits, Unmixed

LEMMA DropBackupManifestKeeps == MixInv /\ DropBackupManifest => MixInv'
  <1> SUFFICES ASSUME MixInv, DropBackupManifest PROVE MixInv'
    OBVIOUS
  <1>1. TypeOK'
    BY DEF DropBackupManifest, Goto, MixInv, TypeOK, File, Ops
  <1>2. QED
    BY <1>1 DEF DropBackupManifest, Goto, MixInv, TypeOK,
       OpFits, StagedFits, Cleared, PreviousFits, MovedFits, Unmixed, HasStaged

LEMMA DropBackupRecordsKeeps == MixInv /\ DropBackupRecords => MixInv'
  <1> SUFFICES ASSUME MixInv, DropBackupRecords PROVE MixInv'
    OBVIOUS
  <1>1. TypeOK'
    BY DEF DropBackupRecords, Goto, MixInv, TypeOK, File, Ops
  <1>2. QED
    BY <1>1 DEF DropBackupRecords, Goto, MixInv, TypeOK,
       OpFits, StagedFits, Cleared, PreviousFits, MovedFits, Unmixed, HasStaged

LEMMA RotateManifestKeeps == MixInv /\ RotateManifest => MixInv'
  <1> SUFFICES ASSUME MixInv, RotateManifest PROVE MixInv'
    OBVIOUS
  <1>1. TypeOK'
    BY DEF RotateManifest, Goto, MoveManifest, MixInv, TypeOK, File, Ops
  <1>2. QED
    BY <1>1 DEF RotateManifest, Goto, MoveManifest, MixInv, TypeOK,
       OpFits, StagedFits, Cleared, PreviousFits, MovedFits, Unmixed, HasStaged

LEMMA RotateRecordsKeeps == MixInv /\ RotateRecords => MixInv'
  <1> SUFFICES ASSUME MixInv, RotateRecords PROVE MixInv'
    OBVIOUS
  <1>1. TypeOK'
    BY DEF RotateRecords, MoveRecords, MixInv, TypeOK, File, Ops
  <1>2. QED
    BY <1>1 DEF RotateRecords, MoveRecords, MixInv, TypeOK,
       OpFits, StagedFits, Cleared, PreviousFits, MovedFits, Unmixed, HasStaged

LEMMA KeepInvalidManifestKeeps == MixInv /\ KeepInvalidManifest => MixInv'
  <1> SUFFICES ASSUME MixInv, KeepInvalidManifest PROVE MixInv'
    OBVIOUS
  <1>1. TypeOK'
    BY DEF KeepInvalidManifest, Goto, Keep, MixInv, TypeOK, File, Ops
  <1>2. QED
    BY <1>1 DEF KeepInvalidManifest, Goto, MixInv, TypeOK,
       OpFits, StagedFits, Cleared, PreviousFits, MovedFits, Unmixed, HasStaged

LEMMA KeepInvalidRecordsKeeps == MixInv /\ KeepInvalidRecords => MixInv'
  <1> SUFFICES ASSUME MixInv, KeepInvalidRecords PROVE MixInv'
    OBVIOUS
  <1>1. TypeOK'
    BY DEF KeepInvalidRecords, Goto, Keep, MixInv, TypeOK, File, Ops
  <1>2. OpFits'
    BY <1>1 DEF KeepInvalidRecords, Goto, MixInv, TypeOK, OpFits, StagedFits, Cleared,
       PreviousFits, MovedFits, Unmixed, HasStaged
  <1>3. StagedFits'
    BY <1>1 DEF KeepInvalidRecords, Goto, MixInv, TypeOK, OpFits, StagedFits, Cleared,
       PreviousFits, MovedFits, Unmixed, HasStaged
  <1>4. Cleared'
    BY <1>1 DEF KeepInvalidRecords, Goto, MixInv, TypeOK, OpFits, StagedFits, Cleared,
       PreviousFits, MovedFits, Unmixed, HasStaged
  <1>5. PreviousFits'
    BY <1>1 DEF KeepInvalidRecords, Goto, MixInv, TypeOK, OpFits, StagedFits, Cleared,
       PreviousFits, MovedFits, Unmixed, HasStaged
  <1>6. MovedFits'
    BY <1>1 DEF KeepInvalidRecords, Goto, MixInv, TypeOK, OpFits, StagedFits, Cleared,
       PreviousFits, MovedFits, Unmixed, HasStaged
  <1>7. Unmixed'
    BY <1>1 DEF KeepInvalidRecords, Goto, MixInv, TypeOK, OpFits, StagedFits, Cleared,
       PreviousFits, MovedFits, Unmixed, HasStaged
  <1>8. QED
    BY <1>1, <1>2, <1>3, <1>4, <1>5, <1>6, <1>7 DEF MixInv

LEMMA StageCopyKeeps == MixInv /\ StageCopy => MixInv'
  <1> SUFFICES ASSUME MixInv, StageCopy PROVE MixInv'
    OBVIOUS
  <1>1. TypeOK'
    BY DEF StageCopy, Staged, Present, MixInv, TypeOK, File, Ops
  <1>2. op.dst = "primary" \/ op.dst = "backup"
    BY DEF MixInv, TypeOK, Ops
  <1>3. OpFits'
    BY <1>2, <1>1 DEF StageCopy, Staged, Present, Ops, MixInv, TypeOK, OpFits, StagedFits,
       Cleared, PreviousFits, MovedFits, Unmixed, HasStaged
  <1>4. StagedFits'
    BY <1>2, <1>1 DEF StageCopy, Staged, Present, Ops, MixInv, TypeOK, OpFits, StagedFits,
       Cleared, PreviousFits, MovedFits, Unmixed, HasStaged
  <1>5. Cleared'
    BY <1>2, <1>1 DEF StageCopy, Staged, Present, Ops, MixInv, TypeOK, OpFits, StagedFits,
       Cleared, PreviousFits, MovedFits, Unmixed, HasStaged
  <1>6. PreviousFits'
    BY <1>2, <1>1 DEF StageCopy, Staged, Present, Ops, MixInv, TypeOK, OpFits, StagedFits,
       Cleared, PreviousFits, MovedFits, Unmixed, HasStaged
  <1>7. MovedFits'
    BY <1>2, <1>1 DEF StageCopy, Staged, Present, Ops, MixInv, TypeOK, OpFits, StagedFits,
       Cleared, PreviousFits, MovedFits, Unmixed, HasStaged
  <1>8. Unmixed'
    BY <1>2, <1>1 DEF StageCopy, Staged, Present, Ops, MixInv, TypeOK, OpFits, StagedFits,
       Cleared, PreviousFits, MovedFits, Unmixed, HasStaged
  <1>9. QED
    BY <1>1, <1>3, <1>4, <1>5, <1>6, <1>7, <1>8 DEF MixInv

LEMMA AsideManifestKeeps == MixInv /\ AsideManifest => MixInv'
  <1> SUFFICES ASSUME MixInv, AsideManifest PROVE MixInv'
    OBVIOUS
  <1>1. TypeOK'
    BY DEF AsideManifest, Goto, MoveManifest, MixInv, TypeOK, File, Ops
  <1>2. op.dst = "primary" \/ op.dst = "backup"
    BY DEF MixInv, TypeOK, Ops
  <1>3. OpFits'
    BY <1>2, <1>1 DEF AsideManifest, Goto, MoveManifest, MixInv, TypeOK, OpFits, StagedFits,
       Cleared, PreviousFits, MovedFits, Unmixed, HasStaged
  <1>4. StagedFits'
    BY <1>2, <1>1 DEF AsideManifest, Goto, MoveManifest, MixInv, TypeOK, OpFits, StagedFits,
       Cleared, PreviousFits, MovedFits, Unmixed, HasStaged
  <1>5. Cleared'
    BY <1>2, <1>1 DEF AsideManifest, Goto, MoveManifest, MixInv, TypeOK, OpFits, StagedFits,
       Cleared, PreviousFits, MovedFits, Unmixed, HasStaged
  <1>6. PreviousFits'
    BY <1>2, <1>1 DEF AsideManifest, Goto, MoveManifest, MixInv, TypeOK, OpFits, StagedFits,
       Cleared, PreviousFits, MovedFits, Unmixed, HasStaged
  <1>7. MovedFits'
    BY <1>2, <1>1 DEF AsideManifest, Goto, MoveManifest, MixInv, TypeOK, OpFits, StagedFits,
       Cleared, PreviousFits, MovedFits, Unmixed, HasStaged
  <1>8. Unmixed'
    BY <1>2, <1>1 DEF AsideManifest, Goto, MoveManifest, MixInv, TypeOK, OpFits, StagedFits,
       Cleared, PreviousFits, MovedFits, Unmixed, HasStaged
  <1>9. QED
    BY <1>1, <1>3, <1>4, <1>5, <1>6, <1>7, <1>8 DEF MixInv

LEMMA AsideRecordsKeeps == MixInv /\ AsideRecords => MixInv'
  <1> SUFFICES ASSUME MixInv, AsideRecords PROVE MixInv'
    OBVIOUS
  <1>1. TypeOK'
    BY DEF AsideRecords, Goto, MoveRecords, MixInv, TypeOK, File, Ops
  <1>2. op.dst = "primary" \/ op.dst = "backup"
    BY DEF MixInv, TypeOK, Ops
  <1>3. OpFits'
    BY <1>2, <1>1 DEF AsideRecords, Goto, MoveRecords, MixInv, TypeOK, OpFits, StagedFits,
       Cleared, PreviousFits, MovedFits, Unmixed, HasStaged
  <1>4. StagedFits'
    BY <1>2, <1>1 DEF AsideRecords, Goto, MoveRecords, MixInv, TypeOK, OpFits, StagedFits,
       Cleared, PreviousFits, MovedFits, Unmixed, HasStaged
  <1>5. Cleared'
    BY <1>2, <1>1 DEF AsideRecords, Goto, MoveRecords, MixInv, TypeOK, OpFits, StagedFits,
       Cleared, PreviousFits, MovedFits, Unmixed, HasStaged
  <1>6. PreviousFits'
    BY <1>2, <1>1 DEF AsideRecords, Goto, MoveRecords, MixInv, TypeOK, OpFits, StagedFits,
       Cleared, PreviousFits, MovedFits, Unmixed, HasStaged
  <1>7. MovedFits'
    BY <1>2, <1>1 DEF AsideRecords, Goto, MoveRecords, MixInv, TypeOK, OpFits, StagedFits,
       Cleared, PreviousFits, MovedFits, Unmixed, HasStaged
  <1>8. Unmixed'
    BY <1>2, <1>1 DEF AsideRecords, Goto, MoveRecords, MixInv, TypeOK, OpFits, StagedFits,
       Cleared, PreviousFits, MovedFits, Unmixed, HasStaged
  <1>9. QED
    BY <1>1, <1>3, <1>4, <1>5, <1>6, <1>7, <1>8 DEF MixInv

LEMMA InstallRecordsKeeps == MixInv /\ InstallRecords => MixInv'
  <1> SUFFICES ASSUME MixInv, InstallRecords PROVE MixInv'
    OBVIOUS
  <1>1. TypeOK'
    BY DEF InstallRecords, Goto, MoveRecords, MixInv, TypeOK, File, Ops
  <1>2. op.dst = "primary" \/ op.dst = "backup"
    BY DEF MixInv, TypeOK, Ops
  <1>3. OpFits'
    BY <1>2, <1>1 DEF InstallRecords, Goto, MoveRecords, MixInv, TypeOK, OpFits, StagedFits,
       Cleared, PreviousFits, MovedFits, Unmixed, HasStaged
  <1>4. StagedFits'
    BY <1>2, <1>1 DEF InstallRecords, Goto, MoveRecords, MixInv, TypeOK, OpFits, StagedFits,
       Cleared, PreviousFits, MovedFits, Unmixed, HasStaged
  <1>5. Cleared'
    BY <1>2, <1>1 DEF InstallRecords, Goto, MoveRecords, MixInv, TypeOK, OpFits, StagedFits,
       Cleared, PreviousFits, MovedFits, Unmixed, HasStaged
  <1>6. PreviousFits'
    BY <1>2, <1>1 DEF InstallRecords, Goto, MoveRecords, MixInv, TypeOK, OpFits, StagedFits,
       Cleared, PreviousFits, MovedFits, Unmixed, HasStaged
  <1>7. MovedFits'
    BY <1>2, <1>1 DEF InstallRecords, Goto, MoveRecords, MixInv, TypeOK, OpFits, StagedFits,
       Cleared, PreviousFits, MovedFits, Unmixed, HasStaged
  <1>8. Unmixed'
    BY <1>2, <1>1 DEF InstallRecords, Goto, MoveRecords, MixInv, TypeOK, OpFits, StagedFits,
       Cleared, PreviousFits, MovedFits, Unmixed, HasStaged
  <1>9. QED
    BY <1>1, <1>3, <1>4, <1>5, <1>6, <1>7, <1>8 DEF MixInv

LEMMA InstallManifestKeeps == MixInv /\ InstallManifest => MixInv'
  <1> SUFFICES ASSUME MixInv, InstallManifest PROVE MixInv'
    OBVIOUS
  <1>1. TypeOK'
    BY FinishFacts DEF InstallManifest, Goto, MoveManifest, MixInv, TypeOK, File, Ops
  <1>2. op.dst = "primary" \/ op.dst = "backup"
    BY DEF MixInv, TypeOK, Ops
  <1>3. OpFits'
    BY FinishFacts, <1>2, <1>1 DEF InstallManifest, Goto, MoveManifest, Ops, MixInv, TypeOK,
       OpFits, StagedFits, Cleared, PreviousFits, MovedFits, Unmixed, HasStaged
  <1>4. StagedFits'
    BY FinishFacts, <1>2, <1>1 DEF InstallManifest, Goto, MoveManifest, Ops, MixInv, TypeOK,
       OpFits, StagedFits, Cleared, PreviousFits, MovedFits, Unmixed, HasStaged
  <1>5. Cleared'
    BY FinishFacts, <1>2, <1>1 DEF InstallManifest, Goto, MoveManifest, Ops, MixInv, TypeOK,
       OpFits, StagedFits, Cleared, PreviousFits, MovedFits, Unmixed, HasStaged
  <1>6. PreviousFits'
    BY FinishFacts, <1>2, <1>1 DEF InstallManifest, Goto, MoveManifest, Ops, MixInv, TypeOK,
       OpFits, StagedFits, Cleared, PreviousFits, MovedFits, Unmixed, HasStaged
  <1>7. MovedFits'
    BY FinishFacts, <1>2, <1>1 DEF InstallManifest, Goto, MoveManifest, Ops, MixInv, TypeOK,
       OpFits, StagedFits, Cleared, PreviousFits, MovedFits, Unmixed, HasStaged
  <1>8. Unmixed'
    BY FinishFacts, <1>2, <1>1 DEF InstallManifest, Goto, MoveManifest, Ops, MixInv, TypeOK,
       OpFits, StagedFits, Cleared, PreviousFits, MovedFits, Unmixed, HasStaged
  <1>9. QED
    BY <1>1, <1>3, <1>4, <1>5, <1>6, <1>7, <1>8 DEF MixInv

LEMMA DropPreviousManifestKeeps == MixInv /\ DropPreviousManifest => MixInv'
  <1> SUFFICES ASSUME MixInv, DropPreviousManifest PROVE MixInv'
    OBVIOUS
  <1>1. TypeOK'
    BY DEF DropPreviousManifest, Goto, MixInv, TypeOK, File, Ops
  <1>2. QED
    BY <1>1 DEF DropPreviousManifest, Goto, MixInv, TypeOK,
       OpFits, StagedFits, Cleared, PreviousFits, MovedFits, Unmixed, HasStaged

LEMMA DropPreviousRecordsKeeps == MixInv /\ DropPreviousRecords => MixInv'
  <1> SUFFICES ASSUME MixInv, DropPreviousRecords PROVE MixInv'
    OBVIOUS
  <1>1. TypeOK'
    BY FinishFacts DEF DropPreviousRecords, MixInv, TypeOK, File, Ops
  <1>2. QED
    BY FinishFacts, <1>1 DEF DropPreviousRecords, MixInv, TypeOK,
       OpFits, StagedFits, Cleared, PreviousFits, MovedFits, Unmixed, HasStaged

LEMMA DamageKeeps == MixInv /\ Damage => MixInv'
  <1> SUFFICES ASSUME MixInv, Damage PROVE MixInv'
    OBVIOUS
  <1>1. Damaged \in File
    BY DEF File
  <1>2. PICK p \in {"primary", "backup"} :
          \/ man' = [man EXCEPT ![p] = Damaged] /\ UNCHANGED rec
          \/ rec' = [rec EXCEPT ![p] = Damaged] /\ UNCHANGED man
    BY DEF Damage
  <1>3. man' \in [Place -> File] /\ rec' \in [Place -> File]
    BY <1>1, <1>2 DEF MixInv, TypeOK
  <1>4. TypeOK'
    <2>1. damages' \in Nat
      <3>1. damages \in Nat /\ damages' = damages + 1
        BY DEF Damage, MixInv, TypeOK
      <3>2. QED
        BY <3>1
    <2>4. clean' \in BOOLEAN
      BY DEF Damage
    <2>2. UNCHANGED <<recovery, orphans, op, pc, committed, lastRev>>
      BY DEF Damage
    <2>3. QED
      BY <1>3, <2>1, <2>2, <2>4 DEF MixInv, TypeOK
  <1>5. QED
    BY <1>2, <1>4 DEF Damage, MixInv, TypeOK, OpFits, StagedFits, HasStaged, Cleared,
       PreviousFits, MovedFits, Unmixed

-----------------------------------------------------------------------------
\* An operation that fails ends idle.  All that matters is that the primary and
\* the backup the failing call leaves are unmixed.
LEMMA EndKeeps ==
  ASSUME MixInv,
         NEW m \in [Place -> File], NEW r \in [Place -> File],
         NEW leaked \in SUBSET Place, EndWith(m, r, leaked),
         \A p \in {"primary", "backup"} : Match(m[p], r[p]),
         recovery' = recovery, committed' = committed, lastRev' = lastRev,
         damages' = damages, clean' \in BOOLEAN
  PROVE  MixInv'
  <1>1. op' = Idle /\ pc' = "idle" /\ Settle(m, r, leaked)
    BY DEF EndWith, Begin
  <1>2. /\ man' \in [Place -> File] /\ rec' \in [Place -> File] /\ orphans' \subseteq File
        /\ man'["staged"] = Missing /\ rec'["staged"] = Missing
        /\ man'["previous"] = Missing /\ rec'["previous"] = Missing
        /\ \A p \in {"primary", "backup"} : man'[p] = m[p] /\ rec'[p] = r[p]
    BY <1>1, SettleFacts DEF MixInv, TypeOK
  <1>3. TypeOK'
    BY <1>1, <1>2 DEF MixInv, TypeOK, Idle, Ops
  <1>4. QED
    BY <1>1, <1>2, <1>3 DEF MixInv, OpFits, StagedFits, HasStaged, Cleared, PreviousFits,
       MovedFits, Unmixed, Idle

\* A removal cut short leaves records that do not assemble, hence no mix.
LEMMA HalfRemovedFacts ==
  ASSUME TypeOK, Unmixed, NEW p \in {"primary", "backup"}
  PROVE  /\ HalfRemoved(p) \in [Place -> File]
         /\ \A q \in {"primary", "backup"} : Match(man[q], HalfRemoved(p)[q])
  <1>1. Missing \in File /\ Damaged \in File
    BY DEF File
  <1>2. QED
    BY <1>1 DEF TypeOK, Unmixed, HalfRemoved

\* The failing calls and the end of the process preserve MixInv.
LEMMA FailEarlyKeeps == MixInv /\ FailEarly => MixInv'
  <1> SUFFICES ASSUME MixInv, FailEarly PROVE MixInv'
    OBVIOUS
  <1>1. man \in [Place -> File] /\ rec \in [Place -> File] /\ clean' \in BOOLEAN
    BY DEF MixInv, TypeOK, FailEarly
  <1>2. \A p \in {"primary", "backup"} : Match(man[p], rec[p])
    BY DEF MixInv, Unmixed
  <1>3. CASE EndWith(man, rec, {"staged"})
    BY <1>1, <1>2, <1>3, EndKeeps DEF FailEarly
  <1>4. CASE EndWith(man, HalfRemoved("backup"), {"staged"})
    BY <1>1, <1>4, EndKeeps, HalfRemovedFacts DEF FailEarly, MixInv
  <1>5. CASE EndWith(man, rec, {})
    BY <1>1, <1>2, <1>5, EndKeeps DEF FailEarly
  <1>6. QED
    BY <1>3, <1>4, <1>5 DEF FailEarly

LEMMA FailMoveRecordsKeeps == MixInv /\ FailMoveRecords => MixInv'
  <1> SUFFICES ASSUME MixInv, FailMoveRecords PROVE MixInv'
    OBVIOUS
  <1> DEFINE back == [man EXCEPT ![op.dst] = man[Kept], ![Kept] = Missing]
  <1>1. /\ man \in [Place -> File] /\ rec \in [Place -> File] /\ clean' \in BOOLEAN
        /\ op.dst \in {"primary", "backup"} /\ Kept \in {"backup", "previous"}
        /\ Missing \in File
    BY DEF MixInv, TypeOK, FailMoveRecords, Kept, Ops, File
  <1>2. \A p \in {"primary", "backup"} : Match(man[p], rec[p])
    BY DEF MixInv, Unmixed
  <1>3. back \in [Place -> File]
    BY <1>1
  <1>4. \A p \in {"primary", "backup"} : Match(back[p], rec[p])
    <2>1. CASE pc = "rotateRecords"
      <3>1. Kept = "backup" /\ op.dst = "primary" /\ Match(man["backup"], rec["primary"])
        BY <2>1 DEF MixInv, OpFits, MovedFits, Kept
      <3>2. QED
        BY <1>1, <3>1
    <2>2. CASE pc = "asideRecords"
      <3>1. Kept = "previous" /\ Match(man["previous"], rec[op.dst])
        BY <2>2 DEF MixInv, OpFits, MovedFits, Kept
      <3>2. QED
        BY <1>1, <1>2, <3>1
    <2>3. QED
      BY <2>1, <2>2 DEF FailMoveRecords
  <1> HIDE DEF back
  <1>5. CASE EndWith(back, rec, IF op.kind = "save" THEN {"staged"} ELSE {})
    BY <1>1, <1>3, <1>4, <1>5, EndKeeps DEF FailMoveRecords
  <1>6. CASE EndWith(man, rec, IF op.kind = "save" THEN {"staged"} ELSE {"previous"})
    BY <1>1, <1>2, <1>6, EndKeeps DEF FailMoveRecords
  <1>7. QED
    BY <1>5, <1>6 DEF FailMoveRecords, back

LEMMA FailInstallKeeps == MixInv /\ FailInstall => MixInv'
  <1> SUFFICES ASSUME MixInv, FailInstall PROVE MixInv'
    OBVIOUS
  <1> DEFINE emptied == [rec EXCEPT ![op.dst] = Missing]
             back == [man EXCEPT ![op.dst] = man[Kept], ![Kept] = Missing]
             recBack == [emptied EXCEPT ![op.dst] = rec[Kept], ![Kept] = Missing]
  <1>1. /\ man \in [Place -> File] /\ rec \in [Place -> File] /\ clean' \in BOOLEAN
        /\ op.dst \in {"primary", "backup"} /\ Kept \in {"backup", "previous"}
        /\ Missing \in File
    BY DEF MixInv, TypeOK, FailInstall, Kept, Ops, File
  <1>2. \A p \in {"primary", "backup", "previous"} : Match(man[p], rec[p])
    BY DEF MixInv, Unmixed
  <1>3. emptied \in [Place -> File] /\ back \in [Place -> File] /\ recBack \in [Place -> File]
    BY <1>1
  <1>4. \A p \in {"primary", "backup"} : Match(man[p], emptied[p])
    BY <1>1, <1>2
  <1>5. \A p \in {"primary", "backup"} : Match(back[p], recBack[p])
    BY <1>1, <1>2
  <1> HIDE DEF emptied, back, recBack
  <1>6. CASE EndWith(back, recBack, {})
    BY <1>1, <1>3, <1>5, <1>6, EndKeeps DEF FailInstall
  <1>7. CASE EndWith(man, emptied, {})
    BY <1>1, <1>3, <1>4, <1>7, EndKeeps DEF FailInstall
  <1>8. CASE EndWith(man, emptied, {"previous"})
    BY <1>1, <1>3, <1>4, <1>8, EndKeeps DEF FailInstall
  <1>9. CASE EndWith(man, rec, {"previous"})
    BY <1>1, <1>2, <1>9, EndKeeps DEF FailInstall
  <1>10. CASE EndWith(man, HalfRemoved(op.dst), {"previous"})
    BY <1>1, <1>10, EndKeeps, HalfRemovedFacts DEF FailInstall, MixInv
  <1>11. QED
    BY <1>6, <1>7, <1>8, <1>9, <1>10 DEF FailInstall, emptied, back, recBack

LEMMA FailDropPreviousKeeps == MixInv /\ FailDropPrevious => MixInv'
  <1> SUFFICES ASSUME MixInv, FailDropPrevious PROVE MixInv'
    OBVIOUS
  <1>1. /\ man' \in [Place -> File] /\ rec' \in [Place -> File] /\ orphans' \subseteq File
        /\ man'["staged"] = Missing /\ rec'["staged"] = Missing
        /\ man'["previous"] = Missing /\ rec'["previous"] = Missing
        /\ \A p \in {"primary", "backup"} : man'[p] = man[p] /\ rec'[p] = rec[p]
    BY SettleFacts DEF FailDropPrevious, MixInv, TypeOK
  <1>2. TypeOK'
    BY <1>1, FinishFacts DEF FailDropPrevious, MixInv, TypeOK
  <1>3. QED
    BY <1>1, <1>2, FinishFacts DEF FailDropPrevious, MixInv, OpFits, StagedFits, HasStaged,
       Cleared, PreviousFits, MovedFits, Unmixed

LEMMA CrashKeeps == MixInv /\ Crash => MixInv'
  <1> SUFFICES ASSUME MixInv, Crash PROVE MixInv'
    OBVIOUS
  <1>1. man \in [Place -> File] /\ rec \in [Place -> File] /\ clean' \in BOOLEAN
    BY DEF MixInv, TypeOK, Crash
  <1>2. \A p \in {"primary", "backup"} : Match(man[p], rec[p])
    BY DEF MixInv, Unmixed
  <1>3. CASE EndWith(man, rec, {"staged", "previous"})
    BY <1>1, <1>2, <1>3, EndKeeps DEF Crash
  <1>4. CASE EndWith(man, HalfRemoved("backup"), {"staged"})
    BY <1>1, <1>4, EndKeeps, HalfRemovedFacts DEF Crash, MixInv
  <1>5. QED
    BY <1>3, <1>4 DEF Crash

\* Every step preserves MixInv.
LEMMA MixInvStep == MixInv /\ [Next]_vars => MixInv'
  <1> SUFFICES ASSUME MixInv, [Next]_vars PROVE MixInv'
    OBVIOUS
  <1>1. CASE UNCHANGED vars
    BY <1>1 DEF vars, MixInv, TypeOK, OpFits, StagedFits, HasStaged, Cleared, PreviousFits,
       MovedFits, Unmixed
  <1>2. CASE Next
    BY <1>2, BeginSaveKeeps, BeginMigrateKeeps, BeginRestoreKeeps,
       DropBackupManifestKeeps, DropBackupRecordsKeeps, RotateManifestKeeps, RotateRecordsKeeps,
       KeepInvalidManifestKeeps, KeepInvalidRecordsKeeps, StageCopyKeeps,
       AsideManifestKeeps, AsideRecordsKeeps, InstallRecordsKeeps, InstallManifestKeeps,
       DropPreviousManifestKeeps, DropPreviousRecordsKeeps, DamageKeeps, CrashKeeps,
       FailEarlyKeeps, FailMoveRecordsKeeps, FailInstallKeeps, FailDropPreviousKeeps
       DEF Next
  <1>3. QED
    BY <1>1, <1>2

\* The variables keep their types, for any bounds and any number of saves,
\* failures and crashes.
THEOREM TypeCorrect == Spec => []TypeOK
  <1>1. MixInv => TypeOK
    BY DEF MixInv
  <1>2. QED
    BY MixInvInit, MixInvStep, <1>1, PTL DEF Spec

\* write_workspace, write_physical_copy, their rollbacks and a crash between
\* any two of their renames never leave a manifest next to the records of
\* another revision, which read_valid_stored_workspace would open as one.
THEOREM NeverMixed == Spec => []NoMixedRevision
  <1>1. MixInv => NoMixedRevision
    BY DEF MixInv, Unmixed, NoMixedRevision
  <1>2. QED
    BY MixInvInit, MixInvStep, <1>1, PTL DEF Spec

-----------------------------------------------------------------------------
(* What a save or a restore owes its user.  KeepInv records, beside MixInv,*)
(* where the last acknowledged revision is at every call.                  *)

DropPC == {"dropPreviousManifest", "dropPreviousRecords"}
InstallPC == {"installRecords", "installManifest"}

\* Manifest file m, next to records r, opens as revision v.
Opens(m, r, v) ==
    /\ m.kind = "document" \/ (m.kind = "manifest" /\ r.kind = "records")
    /\ m.rev = v

\* Nothing is pending between operations.
IdleFits == pc = "idle" => op.kind = "none" /\ op.dst = "primary"

\* A whole document never has a record directory beside it.
DocumentFits ==
    /\ \A p \in {"primary", "backup", "previous"} : man[p].kind = "document" => rec[p] = Missing
    /\ pc = "rotateRecords" /\ man["backup"].kind = "document" => rec["primary"] = Missing
    /\ pc = "asideRecords" /\ man["previous"].kind = "document" => rec[op.dst] = Missing

\* A backup is only rewritten when it is a document, of the revision written.
BackupFits ==
    op.dst = "backup" =>
      /\ op.kind \in {"migrate", "restore"}
      /\ pc \in {"stageCopy", "asideManifest"} =>
            man["backup"].kind = "document" /\ man["backup"].rev = op.rev
      /\ pc \in {"asideRecords"} \cup InstallPC =>
            op.moved /\ man["previous"].kind = "document" /\ man["previous"].rev = op.rev

\* A primary that is about to be replaced opens, or is not there.
PrimaryReady ==
    /\ pc \in {"dropBackupManifest", "dropBackupRecords", "rotateManifest"} => Valid("primary")
    /\ pc = "stageCopy" /\ op.dst = "primary" => ~Present("primary") \/ Valid("primary")
    /\ pc = "asideManifest" /\ op.dst = "primary" => Valid("primary")

\* Without damage the primary, or the copy taken from it, is the last
\* acknowledged revision.
Current(m) == m.kind \in {"document", "manifest"} /\ m.rev = committed
PrimaryFits ==
    damages = 0 =>
      /\ man["primary"] # Missing => Current(man["primary"])
      /\ pc = "rotateRecords" => Current(man["backup"])
      /\ pc = "asideRecords" /\ op.dst = "primary" => Current(man["previous"])
      /\ pc \in InstallPC /\ op.dst = "primary" /\ op.moved => Current(man[Kept])

\* A restore keeps its source.
RestoreFits ==
    op.kind = "restore" /\ (op.dst = "primary" \/ pc \in DropPC) =>
        Valid("backup") /\ RevOf("backup") = op.rev

\* As long as nothing went wrong, the last acknowledged revision opens: where
\* it was, or where a rollback fetches it from.
CleanFits ==
    clean /\ committed > 0 =>
      /\ pc \notin KeepPC
      /\ op.dst = "backup" \/ pc \notin {"rotateRecords", "asideRecords"} \cup InstallPC =>
            Opens(man["primary"], rec["primary"], committed)
      /\ pc = "rotateRecords" => Opens(man["backup"], rec["primary"], committed)
      /\ pc = "asideRecords" /\ op.dst = "primary" => Opens(man["previous"], rec["primary"], committed)
      /\ pc \in InstallPC /\ op.dst = "primary" => op.moved /\ Opens(man[Kept], rec[Kept], committed)

\* File f is on disk and neither written nor about to be removed by the
\* operation in flight.
Held(f) ==
    \/ f \in recovery \/ f \in orphans
    \/ \E p \in {"primary", "backup"} :
         man[p] = f \/ (rec[p] = f /\ ~(pc = "installManifest" /\ op.dst = p))
    \/ pc \notin DropPC /\ (man["previous"] = f \/ rec["previous"] = f)

WorkHeld ==
    damages = 0 /\ committed > 0 =>
        Held(Document(committed)) \/ (Held(Manifest(committed)) /\ Held(Records(committed)))

KeepInv ==
    /\ IdleFits
    /\ DocumentFits
    /\ BackupFits
    /\ PrimaryReady
    /\ PrimaryFits
    /\ RestoreFits
    /\ CleanFits
    /\ WorkHeld

USE DEF DropPC, InstallPC

LEMMA BeginSaveWorks == MixInv /\ KeepInv /\ BeginSave => KeepInv'
  <1> SUFFICES ASSUME MixInv, KeepInv, BeginSave PROVE KeepInv'
    OBVIOUS
  <1>1. op.dst \in {"primary", "backup"}
    BY DEF MixInv, TypeOK, Ops
  <1>2. IdleFits'
        BY DEF BeginSave, Staged, CopyOp, MixInv, TypeOK, KeepInv, IdleFits
  <1>3. DocumentFits'
        BY DEF BeginSave, Staged, CopyOp, MixInv, TypeOK, KeepInv, DocumentFits
  <1>4. BackupFits'
        BY DEF BeginSave, Staged, CopyOp, MixInv, TypeOK, KeepInv, BackupFits
  <1>5. PrimaryReady'
        BY DEF BeginSave, Staged, CopyOp, MixInv, TypeOK, KeepInv, PrimaryReady, Present, Valid
  <1>6. PrimaryFits'
        BY DEF BeginSave, Staged, CopyOp, MixInv, TypeOK, KeepInv, PrimaryFits, Current, Kept
  <1>7. RestoreFits'
        BY DEF BeginSave, Staged, CopyOp, MixInv, TypeOK, KeepInv, RestoreFits, Valid, RevOf
  <1>8. CleanFits'
        BY <1>1 DEF BeginSave, Staged, CopyOp, MixInv, TypeOK, KeepInv, CleanFits, PrimaryReady,
       Present, Valid, Opens, Kept
  <1>9. \A f : f # Missing /\ Held(f) => Held(f)'
        BY DEF BeginSave, Staged, CopyOp, MixInv, TypeOK, Held
  <1>10. WorkHeld'
        BY <1>9 DEF BeginSave, KeepInv, WorkHeld
  <1>11. QED
        BY <1>2, <1>3, <1>4, <1>5, <1>6, <1>7, <1>8, <1>9, <1>10 DEF KeepInv

LEMMA BeginMigrateWorks == MixInv /\ KeepInv /\ BeginMigrate => KeepInv'
  <1> SUFFICES ASSUME MixInv, KeepInv, BeginMigrate PROVE KeepInv'
    OBVIOUS
  <1>1. op.dst \in {"primary", "backup"}
    BY DEF MixInv, TypeOK, Ops
  <1>2. IdleFits'
        BY DEF BeginMigrate, Begin, CopyOp, RevOf, MixInv, TypeOK, KeepInv, IdleFits
  <1>3. DocumentFits'
        BY DEF BeginMigrate, Begin, CopyOp, RevOf, MixInv, TypeOK, KeepInv, DocumentFits
  <1>4. BackupFits'
        BY DEF BeginMigrate, Begin, CopyOp, RevOf, MixInv, TypeOK, KeepInv, BackupFits
  <1>5. PrimaryReady'
        BY DEF BeginMigrate, Begin, CopyOp, RevOf, MixInv, TypeOK, KeepInv, PrimaryReady, Present,
       Valid
  <1>6. PrimaryFits'
        BY DEF BeginMigrate, Begin, CopyOp, RevOf, MixInv, TypeOK, KeepInv, PrimaryFits, Current,
       Kept
  <1>7. RestoreFits'
        BY DEF BeginMigrate, Begin, CopyOp, RevOf, MixInv, TypeOK, KeepInv, RestoreFits, Valid
  <1>8. CleanFits'
        BY DEF BeginMigrate, Begin, CopyOp, RevOf, MixInv, TypeOK, KeepInv, CleanFits, Opens, Kept
  <1>9. \A f : f # Missing /\ Held(f) => Held(f)'
        BY DEF BeginMigrate, Begin, CopyOp, RevOf, MixInv, TypeOK, Held
  <1>10. WorkHeld'
        BY <1>9 DEF BeginMigrate, KeepInv, WorkHeld
  <1>11. QED
        BY <1>2, <1>3, <1>4, <1>5, <1>6, <1>7, <1>8, <1>9, <1>10 DEF KeepInv

LEMMA BeginRestoreWorks == MixInv /\ KeepInv /\ BeginRestore => KeepInv'
  <1> SUFFICES ASSUME MixInv, KeepInv, BeginRestore PROVE KeepInv'
    OBVIOUS
  <1>1. op.dst \in {"primary", "backup"}
    BY DEF MixInv, TypeOK, Ops
  <1>2. IdleFits'
        BY DEF BeginRestore, RestorePrimary, Begin, CopyOp, RevOf, MixInv, TypeOK, KeepInv,
       IdleFits
  <1>3. DocumentFits'
        BY DEF BeginRestore, RestorePrimary, Begin, CopyOp, RevOf, MixInv, TypeOK, KeepInv,
       DocumentFits
  <1>4. BackupFits'
        BY DEF BeginRestore, RestorePrimary, Begin, CopyOp, RevOf, MixInv, TypeOK, KeepInv,
       BackupFits
  <1>5. PrimaryReady'
        BY DEF BeginRestore, RestorePrimary, Begin, CopyOp, RevOf, MixInv, TypeOK, KeepInv,
       PrimaryReady, Present, Valid
  <1>6. PrimaryFits'
        BY DEF BeginRestore, RestorePrimary, Begin, CopyOp, RevOf, MixInv, TypeOK, KeepInv,
       PrimaryFits, Current, Kept
  <1>7. RestoreFits'
        BY DEF BeginRestore, RestorePrimary, Begin, CopyOp, RevOf, MixInv, TypeOK, KeepInv,
       RestoreFits, Valid
  <1>8. CleanFits'
        BY <1>1 DEF BeginRestore, RestorePrimary, Begin, CopyOp, RevOf, MixInv, TypeOK, KeepInv,
       CleanFits, PrimaryReady, Present, Valid, Opens, Kept
  <1>9. \A f : f # Missing /\ Held(f) => Held(f)'
        BY DEF BeginRestore, RestorePrimary, Begin, CopyOp, RevOf, MixInv, TypeOK, Held
  <1>10. WorkHeld'
        BY <1>9 DEF BeginRestore, KeepInv, WorkHeld
  <1>11. QED
        BY <1>2, <1>3, <1>4, <1>5, <1>6, <1>7, <1>8, <1>9, <1>10 DEF KeepInv

LEMMA RotateManifestWorks == MixInv /\ KeepInv /\ RotateManifest => KeepInv'
  <1> SUFFICES ASSUME MixInv, KeepInv, RotateManifest PROVE KeepInv'
    OBVIOUS
  <1>1. op.dst \in {"primary", "backup"}
    BY DEF MixInv, TypeOK, Ops
  <1>2. IdleFits'
        BY DEF RotateManifest, Goto, MoveManifest, MixInv, TypeOK, KeepInv, IdleFits
  <1>3. DocumentFits'
        BY <1>1 DEF RotateManifest, Goto, MoveManifest, MixInv, TypeOK, Cleared, KeepInv,
       DocumentFits
  <1>4. BackupFits'
        BY DEF RotateManifest, Goto, MoveManifest, MixInv, TypeOK, KeepInv, BackupFits
  <1>5. PrimaryReady'
        BY DEF RotateManifest, Goto, MoveManifest, MixInv, TypeOK, KeepInv, PrimaryReady, Present,
       Valid
  <1>6. PrimaryFits'
        BY <1>1 DEF RotateManifest, Goto, MoveManifest, MixInv, TypeOK, KeepInv, PrimaryFits,
       PrimaryReady, Present, Valid, Current, Kept
  <1>7. RestoreFits'
        BY <1>1 DEF RotateManifest, Goto, MoveManifest, MixInv, TypeOK, OpFits, KeepInv,
       RestoreFits, Valid, RevOf
  <1>8. CleanFits'
        BY <1>1 DEF RotateManifest, Goto, MoveManifest, MixInv, TypeOK, OpFits, KeepInv,
       CleanFits, Opens, Kept
  <1>9. \A f : f # Missing /\ Held(f) => Held(f)'
        BY <1>1 DEF RotateManifest, Goto, MoveManifest, MixInv, TypeOK, Cleared, Held
  <1>10. WorkHeld'
        BY <1>9 DEF RotateManifest, KeepInv, WorkHeld
  <1>11. QED
        BY <1>2, <1>3, <1>4, <1>5, <1>6, <1>7, <1>8, <1>9, <1>10 DEF KeepInv

LEMMA RotateRecordsWorks == MixInv /\ KeepInv /\ RotateRecords => KeepInv'
  <1> SUFFICES ASSUME MixInv, KeepInv, RotateRecords PROVE KeepInv'
    OBVIOUS
  <1>1. op.dst \in {"primary", "backup"}
    BY DEF MixInv, TypeOK, Ops
  <1>2. IdleFits'
        BY DEF RotateRecords, MoveRecords, Ops, MixInv, TypeOK, KeepInv, IdleFits
  <1>3. DocumentFits'
        BY DEF RotateRecords, MoveRecords, Ops, MixInv, TypeOK, KeepInv, DocumentFits
  <1>4. BackupFits'
        BY <1>1 DEF RotateRecords, MoveRecords, Ops, MixInv, TypeOK, OpFits, KeepInv, BackupFits
  <1>5. PrimaryReady'
        BY DEF RotateRecords, MoveRecords, Ops, MixInv, TypeOK, KeepInv, PrimaryReady, Present,
       Valid
  <1>6. PrimaryFits'
        BY <1>1 DEF RotateRecords, MoveRecords, Ops, MixInv, TypeOK, OpFits, KeepInv, PrimaryFits,
       Current, Kept
  <1>7. RestoreFits'
        BY <1>1 DEF RotateRecords, MoveRecords, Ops, MixInv, TypeOK, OpFits, KeepInv, RestoreFits,
       Valid, RevOf
  <1>8. CleanFits'
        BY <1>1 DEF RotateRecords, MoveRecords, Ops, MixInv, TypeOK, OpFits, KeepInv, CleanFits,
       Opens, Kept
  <1>9. \A f : f # Missing /\ Held(f) => Held(f)'
        BY <1>1 DEF RotateRecords, MoveRecords, Ops, MixInv, TypeOK, Cleared, Held
  <1>10. WorkHeld'
        BY <1>9 DEF RotateRecords, KeepInv, WorkHeld
  <1>11. QED
        BY <1>2, <1>3, <1>4, <1>5, <1>6, <1>7, <1>8, <1>9, <1>10 DEF KeepInv

LEMMA KeepInvalidManifestWorks == MixInv /\ KeepInv /\ KeepInvalidManifest => KeepInv'
  <1> SUFFICES ASSUME MixInv, KeepInv, KeepInvalidManifest PROVE KeepInv'
    OBVIOUS
  <1>1. op.dst \in {"primary", "backup"}
    BY DEF MixInv, TypeOK, Ops
  <1>2. IdleFits'
        BY DEF KeepInvalidManifest, Goto, MixInv, TypeOK, KeepInv, IdleFits
  <1>3. DocumentFits'
        BY DEF KeepInvalidManifest, Goto, MixInv, TypeOK, KeepInv, DocumentFits
  <1>4. BackupFits'
        BY DEF KeepInvalidManifest, Goto, MixInv, TypeOK, KeepInv, BackupFits
  <1>5. PrimaryReady'
        BY DEF KeepInvalidManifest, Goto, MixInv, TypeOK, KeepInv, PrimaryReady, Present, Valid
  <1>6. PrimaryFits'
        BY DEF KeepInvalidManifest, Goto, MixInv, TypeOK, KeepInv, PrimaryFits, Current, Kept
  <1>7. RestoreFits'
        BY DEF KeepInvalidManifest, Goto, MixInv, TypeOK, KeepInv, RestoreFits, Valid, RevOf
  <1>8. CleanFits'
        BY DEF KeepInvalidManifest, Goto, MixInv, TypeOK, KeepInv, CleanFits, Opens, Kept
  <1>9. \A f : f # Missing /\ Held(f) => Held(f)'
        BY DEF KeepInvalidManifest, Goto, MixInv, TypeOK, Held, Keep
  <1>10. WorkHeld'
        BY <1>9 DEF KeepInvalidManifest, KeepInv, WorkHeld
  <1>11. QED
        BY <1>2, <1>3, <1>4, <1>5, <1>6, <1>7, <1>8, <1>9, <1>10 DEF KeepInv

LEMMA KeepInvalidRecordsWorks == MixInv /\ KeepInv /\ KeepInvalidRecords => KeepInv'
  <1> SUFFICES ASSUME MixInv, KeepInv, KeepInvalidRecords PROVE KeepInv'
    OBVIOUS
  <1>1. op.dst \in {"primary", "backup"}
    BY DEF MixInv, TypeOK, Ops
  <1>2. IdleFits'
        BY DEF KeepInvalidRecords, Goto, MixInv, TypeOK, KeepInv, IdleFits
  <1>3. DocumentFits'
        BY DEF KeepInvalidRecords, Goto, MixInv, TypeOK, KeepInv, DocumentFits
  <1>4. BackupFits'
        BY <1>1 DEF KeepInvalidRecords, Goto, MixInv, TypeOK, OpFits, KeepInv, BackupFits
  <1>5. PrimaryReady'
        BY <1>1 DEF KeepInvalidRecords, Goto, MixInv, TypeOK, Cleared, KeepInv, PrimaryReady,
       Present, Valid
  <1>6. PrimaryFits'
        BY <1>1 DEF KeepInvalidRecords, Goto, MixInv, TypeOK, OpFits, PreviousFits, KeepInv,
       PrimaryFits, Current, Kept
  <1>7. RestoreFits'
        BY DEF KeepInvalidRecords, Goto, MixInv, TypeOK, KeepInv, RestoreFits, Valid, RevOf
  <1>8. CleanFits'
        BY DEF KeepInvalidRecords, Goto, MixInv, TypeOK, KeepInv, CleanFits, Opens, Kept
  <1>9. \A f : f # Missing /\ Held(f) => Held(f)'
        BY DEF KeepInvalidRecords, Goto, MixInv, TypeOK, Held, Keep
  <1>10. WorkHeld'
        BY <1>9 DEF KeepInvalidRecords, KeepInv, WorkHeld
  <1>11. QED
        BY <1>2, <1>3, <1>4, <1>5, <1>6, <1>7, <1>8, <1>9, <1>10 DEF KeepInv

LEMMA StageCopyWorks == MixInv /\ KeepInv /\ StageCopy => KeepInv'
  <1> SUFFICES ASSUME MixInv, KeepInv, StageCopy PROVE KeepInv'
    OBVIOUS
  <1>1. op.dst \in {"primary", "backup"}
    BY DEF MixInv, TypeOK, Ops
  <1>2. IdleFits'
        BY DEF StageCopy, Staged, Ops, MixInv, TypeOK, KeepInv, IdleFits
  <1>3. DocumentFits'
        BY DEF StageCopy, Staged, Ops, MixInv, TypeOK, KeepInv, DocumentFits
  <1>4. BackupFits'
        BY DEF StageCopy, Staged, Ops, MixInv, TypeOK, KeepInv, BackupFits, Present
  <1>5. PrimaryReady'
        BY DEF StageCopy, Staged, Ops, MixInv, TypeOK, KeepInv, PrimaryReady, Present, Valid
  <1>6. PrimaryFits'
        BY DEF StageCopy, Staged, Ops, MixInv, TypeOK, KeepInv, PrimaryFits, Current, Kept
  <1>7. RestoreFits'
        BY DEF StageCopy, Staged, Ops, MixInv, TypeOK, KeepInv, RestoreFits, Valid, RevOf
  <1>8. CleanFits'
        BY <1>1 DEF StageCopy, Staged, Ops, MixInv, TypeOK, KeepInv, CleanFits, PrimaryReady,
       Present, Valid, Opens, Kept
  <1>9. \A f : f # Missing /\ Held(f) => Held(f)'
        BY DEF StageCopy, Staged, Ops, MixInv, TypeOK, Held
  <1>10. WorkHeld'
        BY <1>9 DEF StageCopy, KeepInv, WorkHeld
  <1>11. QED
        BY <1>2, <1>3, <1>4, <1>5, <1>6, <1>7, <1>8, <1>9, <1>10 DEF KeepInv

LEMMA AsideManifestWorks == MixInv /\ KeepInv /\ AsideManifest => KeepInv'
  <1> SUFFICES ASSUME MixInv, KeepInv, AsideManifest PROVE KeepInv'
    OBVIOUS
  <1>1. op.dst \in {"primary", "backup"}
    BY DEF MixInv, TypeOK, Ops
  <1>2. IdleFits'
        BY DEF AsideManifest, Goto, MoveManifest, MixInv, TypeOK, KeepInv, IdleFits
  <1>3. DocumentFits'
        BY <1>1 DEF AsideManifest, Goto, MoveManifest, MixInv, TypeOK, OpFits, PreviousFits,
       KeepInv, DocumentFits
  <1>4. BackupFits'
        BY <1>1 DEF AsideManifest, Goto, MoveManifest, MixInv, TypeOK, OpFits, PreviousFits,
       KeepInv, BackupFits
  <1>5. PrimaryReady'
        BY DEF AsideManifest, Goto, MoveManifest, MixInv, TypeOK, KeepInv, PrimaryReady, Present,
       Valid
  <1>6. PrimaryFits'
        BY <1>1 DEF AsideManifest, Goto, MoveManifest, MixInv, TypeOK, KeepInv, PrimaryFits,
       PrimaryReady, Present, Valid, Current, Kept
  <1>7. RestoreFits'
        BY DEF AsideManifest, Goto, MoveManifest, MixInv, TypeOK, KeepInv, RestoreFits, Valid,
       RevOf
  <1>8. CleanFits'
        BY DEF AsideManifest, Goto, MoveManifest, MixInv, TypeOK, KeepInv, CleanFits, Opens, Kept
  <1>9. \A f : f # Missing /\ Held(f) => Held(f)'
        BY <1>1 DEF AsideManifest, Goto, MoveManifest, MixInv, TypeOK, OpFits, PreviousFits, Held
  <1>10. WorkHeld'
        BY <1>9 DEF AsideManifest, KeepInv, WorkHeld
  <1>11. QED
        BY <1>2, <1>3, <1>4, <1>5, <1>6, <1>7, <1>8, <1>9, <1>10 DEF KeepInv

LEMMA AsideRecordsWorks == MixInv /\ KeepInv /\ AsideRecords => KeepInv'
  <1> SUFFICES ASSUME MixInv, KeepInv, AsideRecords PROVE KeepInv'
    OBVIOUS
  <1>1. op.dst \in {"primary", "backup"}
    BY DEF MixInv, TypeOK, Ops
  <1>2. IdleFits'
        BY DEF AsideRecords, Goto, MoveRecords, MixInv, TypeOK, KeepInv, IdleFits
  <1>3. DocumentFits'
        BY DEF AsideRecords, Goto, MoveRecords, MixInv, TypeOK, KeepInv, DocumentFits
  <1>4. BackupFits'
        BY DEF AsideRecords, Goto, MoveRecords, MixInv, TypeOK, KeepInv, BackupFits
  <1>5. PrimaryReady'
        BY DEF AsideRecords, Goto, MoveRecords, MixInv, TypeOK, KeepInv, PrimaryReady, Present,
       Valid
  <1>6. PrimaryFits'
        BY <1>1 DEF AsideRecords, Goto, MoveRecords, MixInv, TypeOK, OpFits, KeepInv, PrimaryFits,
       Current, Kept
  <1>7. RestoreFits'
        BY DEF AsideRecords, Goto, MoveRecords, MixInv, TypeOK, KeepInv, RestoreFits, Valid, RevOf
  <1>8. CleanFits'
        BY <1>1 DEF AsideRecords, Goto, MoveRecords, MixInv, TypeOK, OpFits, PreviousFits,
       KeepInv, CleanFits, Opens, Kept
  <1>9. \A f : f # Missing /\ Held(f) => Held(f)'
        BY <1>1 DEF AsideRecords, Goto, MoveRecords, MixInv, TypeOK, OpFits, PreviousFits, Held
  <1>10. WorkHeld'
        BY <1>9 DEF AsideRecords, KeepInv, WorkHeld
  <1>11. QED
        BY <1>2, <1>3, <1>4, <1>5, <1>6, <1>7, <1>8, <1>9, <1>10 DEF KeepInv

LEMMA InstallRecordsWorks == MixInv /\ KeepInv /\ InstallRecords => KeepInv'
  <1> SUFFICES ASSUME MixInv, KeepInv, InstallRecords PROVE KeepInv'
    OBVIOUS
  <1>1. op.dst \in {"primary", "backup"}
    BY DEF MixInv, TypeOK, Ops
  <1>2. IdleFits'
        BY DEF InstallRecords, Goto, MoveRecords, MixInv, TypeOK, KeepInv, IdleFits
  <1>3. DocumentFits'
        BY <1>1 DEF InstallRecords, Goto, MoveRecords, MixInv, TypeOK, Cleared, KeepInv,
       DocumentFits
  <1>4. BackupFits'
        BY DEF InstallRecords, Goto, MoveRecords, MixInv, TypeOK, KeepInv, BackupFits
  <1>5. PrimaryReady'
        BY DEF InstallRecords, Goto, MoveRecords, MixInv, TypeOK, KeepInv, PrimaryReady, Present,
       Valid
  <1>6. PrimaryFits'
        BY DEF InstallRecords, Goto, MoveRecords, MixInv, TypeOK, KeepInv, PrimaryFits, Current,
       Kept
  <1>7. RestoreFits'
        BY DEF InstallRecords, Goto, MoveRecords, MixInv, TypeOK, KeepInv, RestoreFits, Valid,
       RevOf
  <1>8. CleanFits'
        BY DEF InstallRecords, Goto, MoveRecords, MixInv, TypeOK, KeepInv, CleanFits, Opens, Kept
  <1>9. \A f : f # Missing /\ Held(f) => Held(f)'
        BY DEF InstallRecords, Goto, MoveRecords, MixInv, TypeOK, Held
  <1>10. WorkHeld'
        BY <1>9 DEF InstallRecords, KeepInv, WorkHeld
  <1>11. QED
        BY <1>2, <1>3, <1>4, <1>5, <1>6, <1>7, <1>8, <1>9, <1>10 DEF KeepInv

LEMMA DropPreviousManifestWorks == MixInv /\ KeepInv /\ DropPreviousManifest => KeepInv'
  <1> SUFFICES ASSUME MixInv, KeepInv, DropPreviousManifest PROVE KeepInv'
    OBVIOUS
  <1>1. op.dst \in {"primary", "backup"}
    BY DEF MixInv, TypeOK, Ops
  <1>2. IdleFits'
        BY DEF DropPreviousManifest, Goto, MixInv, TypeOK, KeepInv, IdleFits
  <1>3. DocumentFits'
        BY DEF DropPreviousManifest, Goto, MixInv, TypeOK, KeepInv, DocumentFits
  <1>4. BackupFits'
        BY DEF DropPreviousManifest, Goto, MixInv, TypeOK, KeepInv, BackupFits
  <1>5. PrimaryReady'
        BY DEF DropPreviousManifest, Goto, MixInv, TypeOK, KeepInv, PrimaryReady, Present, Valid
  <1>6. PrimaryFits'
        BY DEF DropPreviousManifest, Goto, MixInv, TypeOK, KeepInv, PrimaryFits, Current, Kept
  <1>7. RestoreFits'
        BY DEF DropPreviousManifest, Goto, MixInv, TypeOK, KeepInv, RestoreFits, Valid, RevOf
  <1>8. CleanFits'
        BY DEF DropPreviousManifest, Goto, MixInv, TypeOK, KeepInv, CleanFits, Opens, Kept
  <1>9. \A f : f # Missing /\ Held(f) => Held(f)'
        BY DEF DropPreviousManifest, Goto, MixInv, TypeOK, Held
  <1>10. WorkHeld'
        BY <1>9 DEF DropPreviousManifest, KeepInv, WorkHeld
  <1>11. QED
        BY <1>2, <1>3, <1>4, <1>5, <1>6, <1>7, <1>8, <1>9, <1>10 DEF KeepInv

LEMMA DropPreviousRecordsWorks == MixInv /\ KeepInv /\ DropPreviousRecords => KeepInv'
  <1> SUFFICES ASSUME MixInv, KeepInv, DropPreviousRecords PROVE KeepInv'
    OBVIOUS
  <1>1. op.dst \in {"primary", "backup"}
    BY DEF MixInv, TypeOK, Ops
  <1>2. IdleFits'
        BY DEF DropPreviousRecords, Finish, RestorePrimary, Begin, CopyOp, Idle, RevOf, MixInv,
       TypeOK, KeepInv, IdleFits
  <1>3. DocumentFits'
        BY DEF DropPreviousRecords, Finish, RestorePrimary, Begin, CopyOp, Idle, RevOf, MixInv,
       TypeOK, KeepInv, DocumentFits
  <1>4. BackupFits'
        BY DEF DropPreviousRecords, Finish, RestorePrimary, Begin, CopyOp, Idle, RevOf, MixInv,
       TypeOK, KeepInv, BackupFits
  <1>5. PrimaryReady'
        BY DEF DropPreviousRecords, Finish, RestorePrimary, Begin, CopyOp, Idle, RevOf, MixInv,
       TypeOK, KeepInv, PrimaryReady, Present, Valid
  <1>6. PrimaryFits'
        BY DEF DropPreviousRecords, Finish, RestorePrimary, Begin, CopyOp, Idle, RevOf, MixInv,
       TypeOK, KeepInv, PrimaryFits, Current, Kept
  <1>7. RestoreFits'
        BY DEF DropPreviousRecords, Finish, RestorePrimary, Begin, CopyOp, Idle, RevOf, MixInv,
       TypeOK, KeepInv, RestoreFits, Valid
  <1>8. CleanFits'
        BY <1>1 DEF DropPreviousRecords, Finish, RestorePrimary, Begin, CopyOp, Idle, RevOf,
       MixInv, TypeOK, KeepInv, CleanFits, PrimaryReady, Present, Valid, Opens, Kept
  <1>9. \A f : f # Missing /\ Held(f) => Held(f)'
        BY DEF DropPreviousRecords, Finish, RestorePrimary, Begin, CopyOp, Idle, RevOf, MixInv,
       TypeOK, Held
  <1>10. WorkHeld'
        BY <1>9 DEF DropPreviousRecords, KeepInv, WorkHeld
  <1>11. QED
        BY <1>2, <1>3, <1>4, <1>5, <1>6, <1>7, <1>8, <1>9, <1>10 DEF KeepInv

\* A file is its kind and its revision.
LEMMA FileIs ==
  ASSUME NEW f \in File PROVE f = [kind |-> f.kind, rev |-> f.rev]
  BY DEF File

\* Without damage, a primary that opens is the last acknowledged revision.
LEMMA PrimaryHolds ==
  ASSUME MixInv, KeepInv, Valid("primary"), damages = 0
  PROVE  \/ Document(committed) = man["primary"]
         \/ Manifest(committed) = man["primary"] /\ Records(committed) = rec["primary"]
  <1>1. man["primary"] \in File /\ rec["primary"] \in File
    BY DEF MixInv, TypeOK
  <1>2. Current(man["primary"])
    BY DEF Valid, KeepInv, PrimaryFits
  <1>3. CASE man["primary"].kind = "document"
    BY <1>1, <1>2, <1>3, FileIs DEF Current
  <1>4. CASE man["primary"].kind = "manifest" /\ rec["primary"].kind = "records"
    <2>1. rec["primary"].rev = committed
      BY <1>2, <1>4 DEF MixInv, Unmixed, Current
    <2>2. QED
      BY <1>1, <1>2, <1>4, <2>1, FileIs DEF Current
  <1>5. QED
    BY <1>3, <1>4 DEF Valid

LEMMA DropBackupManifestWorks == MixInv /\ KeepInv /\ DropBackupManifest => KeepInv'
  <1> SUFFICES ASSUME MixInv, KeepInv, DropBackupManifest PROVE KeepInv'
    OBVIOUS
  <1>1. op.dst \in {"primary", "backup"}
    BY DEF MixInv, TypeOK, Ops
  <1>2. IdleFits'
        BY DEF DropBackupManifest, Goto, MixInv, TypeOK, KeepInv, IdleFits
  <1>3. DocumentFits'
        BY DEF DropBackupManifest, Goto, MixInv, TypeOK, KeepInv, DocumentFits
  <1>4. BackupFits'
        BY DEF DropBackupManifest, Goto, MixInv, TypeOK, KeepInv, BackupFits
  <1>5. PrimaryReady'
        BY DEF DropBackupManifest, Goto, MixInv, TypeOK, KeepInv, PrimaryReady, Present, Valid
  <1>6. PrimaryFits'
        BY DEF DropBackupManifest, Goto, MixInv, TypeOK, KeepInv, PrimaryFits, Current, Kept
  <1>7. RestoreFits'
        BY <1>1 DEF DropBackupManifest, Goto, MixInv, TypeOK, OpFits, KeepInv, RestoreFits, Valid,
       RevOf
  <1>8. CleanFits'
        BY DEF DropBackupManifest, Goto, MixInv, TypeOK, KeepInv, CleanFits, Opens, Kept
  <1>9. WorkHeld'
    <2>1. damages = 0 => \/ Document(committed) = man["primary"]
                         \/ Manifest(committed) = man["primary"] /\ Records(committed) = rec["primary"]
      BY PrimaryHolds DEF DropBackupManifest, KeepInv, PrimaryReady
    <2>2. committed' = committed /\ damages' = damages /\ pc' # "installManifest"
          /\ man'["primary"] = man["primary"] /\ rec'["primary"] = rec["primary"]
      BY DEF DropBackupManifest, Goto, MixInv, TypeOK
    <2>3. QED
      BY <2>1, <2>2 DEF WorkHeld, Held
  <1>10. QED
        BY <1>2, <1>3, <1>4, <1>5, <1>6, <1>7, <1>8, <1>9 DEF KeepInv

LEMMA DropBackupRecordsWorks == MixInv /\ KeepInv /\ DropBackupRecords => KeepInv'
  <1> SUFFICES ASSUME MixInv, KeepInv, DropBackupRecords PROVE KeepInv'
    OBVIOUS
  <1>1. op.dst \in {"primary", "backup"}
    BY DEF MixInv, TypeOK, Ops
  <1>2. IdleFits'
        BY DEF DropBackupRecords, Goto, MixInv, TypeOK, KeepInv, IdleFits
  <1>3. DocumentFits'
        BY DEF DropBackupRecords, Goto, MixInv, TypeOK, KeepInv, DocumentFits
  <1>4. BackupFits'
        BY DEF DropBackupRecords, Goto, MixInv, TypeOK, KeepInv, BackupFits
  <1>5. PrimaryReady'
        BY DEF DropBackupRecords, Goto, MixInv, TypeOK, KeepInv, PrimaryReady, Present, Valid
  <1>6. PrimaryFits'
        BY DEF DropBackupRecords, Goto, MixInv, TypeOK, KeepInv, PrimaryFits, Current, Kept
  <1>7. RestoreFits'
        BY <1>1 DEF DropBackupRecords, Goto, MixInv, TypeOK, OpFits, KeepInv, RestoreFits, Valid,
       RevOf
  <1>8. CleanFits'
        BY DEF DropBackupRecords, Goto, MixInv, TypeOK, KeepInv, CleanFits, Opens, Kept
  <1>9. WorkHeld'
    <2>1. damages = 0 => \/ Document(committed) = man["primary"]
                         \/ Manifest(committed) = man["primary"] /\ Records(committed) = rec["primary"]
      BY PrimaryHolds DEF DropBackupRecords, KeepInv, PrimaryReady
    <2>2. committed' = committed /\ damages' = damages /\ pc' # "installManifest"
          /\ man'["primary"] = man["primary"] /\ rec'["primary"] = rec["primary"]
      BY DEF DropBackupRecords, Goto, MixInv, TypeOK
    <2>3. QED
      BY <2>1, <2>2 DEF WorkHeld, Held
  <1>10. QED
        BY <1>2, <1>3, <1>4, <1>5, <1>6, <1>7, <1>8, <1>9 DEF KeepInv

LEMMA InstallManifestWorks == MixInv /\ KeepInv /\ InstallManifest => KeepInv'
  <1> SUFFICES ASSUME MixInv, KeepInv, InstallManifest PROVE KeepInv'
    OBVIOUS
  <1>1. op.dst \in {"primary", "backup"}
    BY DEF MixInv, TypeOK, Ops
  <1>2. IdleFits'
        BY DEF InstallManifest, Goto, MoveManifest, Finish, RestorePrimary, Begin, CopyOp, Idle,
       RevOf, MixInv, TypeOK, KeepInv, IdleFits
  <1>3. DocumentFits'
        BY <1>1 DEF InstallManifest, Goto, MoveManifest, Finish, RestorePrimary, Begin, CopyOp,
       Idle, RevOf, MixInv, TypeOK, OpFits, StagedFits, HasStaged, KeepInv, DocumentFits
  <1>4. BackupFits'
        BY DEF InstallManifest, Goto, MoveManifest, Finish, RestorePrimary, Begin, CopyOp, Idle,
       RevOf, MixInv, TypeOK, KeepInv, BackupFits
  <1>5. PrimaryReady'
        BY DEF InstallManifest, Goto, MoveManifest, Finish, RestorePrimary, Begin, CopyOp, Idle,
       RevOf, MixInv, TypeOK, KeepInv, PrimaryReady, Present, Valid
  <1>6. PrimaryFits'
        BY <1>1 DEF InstallManifest, Goto, MoveManifest, Finish, RestorePrimary, Begin, CopyOp,
       Idle, RevOf, MixInv, TypeOK, OpFits, StagedFits, HasStaged, KeepInv, PrimaryFits, Current,
       Kept
  <1>7. RestoreFits'
        BY <1>1 DEF InstallManifest, Goto, MoveManifest, Finish, RestorePrimary, Begin, CopyOp,
       Idle, RevOf, MixInv, TypeOK, OpFits, StagedFits, HasStaged, KeepInv, RestoreFits, Valid
  <1>8. CleanFits'
        BY <1>1 DEF InstallManifest, Goto, MoveManifest, Finish, RestorePrimary, Begin, CopyOp,
       Idle, RevOf, MixInv, TypeOK, OpFits, StagedFits, HasStaged, KeepInv, CleanFits,
       PrimaryReady, Present, Valid, Opens, Kept
  <1>9. WorkHeld'
    <2>1. CASE op.dst = "primary"
      <3>1. committed' = op.rev /\ man'["primary"] = Manifest(op.rev) /\ rec'["primary"] = Records(op.rev)
        BY <2>1 DEF InstallManifest, MoveManifest, MixInv, TypeOK, StagedFits, HasStaged
      <3>2. pc' # "installManifest"
        BY FinishFacts DEF InstallManifest, Goto, MixInv
      <3>3. QED
        BY <3>1, <3>2 DEF WorkHeld, Held
    <2>2. CASE op.dst = "backup"
      <3>1. /\ committed' = committed /\ damages' = damages /\ pc' # "installManifest"
            /\ man'["backup"] = Manifest(op.rev) /\ rec'["backup"] = Records(op.rev)
            /\ man'["primary"] = man["primary"] /\ rec' = rec
            /\ man["backup"] = Missing
            /\ recovery' = recovery /\ orphans' = orphans
        BY <2>2, FinishFacts DEF InstallManifest, Goto, MoveManifest, MixInv, TypeOK, StagedFits,
            HasStaged,
           Cleared
      <3>2. /\ man["previous"].kind = "document" /\ man["previous"].rev = op.rev
            /\ rec["previous"] = Missing
        BY <2>2 DEF InstallManifest, KeepInv, BackupFits, DocumentFits
      <3>3. \A f : f # Missing /\ f.kind # "document" /\ Held(f) => Held(f)'
        BY <2>2, <3>1, <3>2 DEF Held, InstallManifest
      <3>4. \A f : f # Missing /\ Held(f) => Held(f)' \/ f = man["previous"]
        BY <2>2, <3>1, <3>2 DEF Held, InstallManifest
      <3>5. CASE Document(committed) = man["previous"]
        <4>1. op.rev = committed
          BY <3>2, <3>5
        <4>2. QED
          BY <3>1, <4>1 DEF WorkHeld, Held
      <3>6. CASE Document(committed) # man["previous"]
        BY <3>1, <3>3, <3>4, <3>6 DEF KeepInv, WorkHeld
      <3>7. QED
        BY <3>5, <3>6
    <2>3. QED
      BY <1>1, <2>1, <2>2
  <1>10. QED
        BY <1>2, <1>3, <1>4, <1>5, <1>6, <1>7, <1>8, <1>9 DEF KeepInv

\* Damage ends all promises but those about the records of a document.
LEMMA DamageWorks == MixInv /\ KeepInv /\ Damage => KeepInv'
  <1> SUFFICES ASSUME MixInv, KeepInv, Damage PROVE KeepInv'
    OBVIOUS
  <1>1. pc = "idle" /\ pc' = "idle" /\ op' = op /\ op.kind = "none" /\ op.dst = "primary"
    BY DEF Damage, KeepInv, IdleFits
  <1>2. ~clean' /\ damages' # 0
    BY DEF Damage, MixInv, TypeOK
  <1>3. DocumentFits'
    BY <1>1 DEF Damage, MixInv, TypeOK, KeepInv, DocumentFits
  <1>4. QED
    BY <1>1, <1>2, <1>3 DEF KeepInv, IdleFits, BackupFits, PrimaryReady, PrimaryFits, RestoreFits,
       CleanFits, WorkHeld

\* File f is among the copies m and r that a failing call leaves, with the
\* hidden ones that leak, or was put away before.
Left(m, r, leaked, f) ==
    \/ f \in recovery \/ f \in orphans
    \/ \E p \in {"primary", "backup"} \cup leaked : m[p] = f \/ r[p] = f

\* What a failing call or a crash owes: the copies it leaves are what is
\* promised between operations.
LEMMA EndWorks ==
  ASSUME MixInv, KeepInv,
         NEW m \in [Place -> File], NEW r \in [Place -> File],
         NEW leaked \in SUBSET {"staged", "previous"}, EndWith(m, r, leaked),
         recovery' = recovery, committed' = committed, damages' = damages,
         \A p \in {"primary", "backup"} : m[p].kind = "document" => r[p] = Missing,
         damages = 0 /\ m["primary"] # Missing => Current(m["primary"]),
         clean' /\ committed > 0 => Opens(m["primary"], r["primary"], committed),
         damages = 0 /\ committed > 0 =>
            \/ Left(m, r, leaked, Document(committed))
            \/ Left(m, r, leaked, Manifest(committed)) /\ Left(m, r, leaked, Records(committed))
  PROVE  KeepInv'
  <1>1. op' = Idle /\ pc' = "idle" /\ Settle(m, r, leaked)
    BY DEF EndWith, Begin
  <1>2. /\ man'["previous"] = Missing /\ rec'["previous"] = Missing
        /\ \A p \in {"primary", "backup"} : man'[p] = m[p] /\ rec'[p] = r[p]
    BY <1>1, SettleFacts DEF MixInv, TypeOK
  <1>3. IdleFits' /\ BackupFits' /\ PrimaryReady' /\ RestoreFits'
    BY <1>1 DEF IdleFits, BackupFits, PrimaryReady, RestoreFits, Idle
  <1>4. DocumentFits'
    BY <1>1, <1>2 DEF DocumentFits
  <1>5. PrimaryFits'
    BY <1>1, <1>2 DEF PrimaryFits, Current
  <1>6. CleanFits'
    BY <1>1, <1>2 DEF CleanFits, Opens, Idle
  <1>7. \A f : f # Missing /\ Left(m, r, leaked, f) => Held(f)'
    <2> SUFFICES ASSUME NEW f, f # Missing, Left(m, r, leaked, f) PROVE Held(f)'
      OBVIOUS
    <2>1. CASE f \in recovery \/ f \in orphans
      BY <1>1, <2>1 DEF Held, Settle
    <2>2. CASE \E p \in {"primary", "backup"} : m[p] = f \/ r[p] = f
      BY <1>1, <1>2, <2>2 DEF Held
    <2>3. CASE \E p \in leaked : m[p] = f \/ r[p] = f
      <3>1. PICK p \in leaked : m[p] = f \/ r[p] = f
        BY <2>3
      <3>2. f \in Keep(m[p]) \cup Keep(r[p])
        BY <3>1 DEF Keep
      <3>3. f \in orphans'
        BY <1>1, <3>2 DEF Settle
      <3>4. QED
        BY <3>3 DEF Held
    <2>4. QED
      BY <2>1, <2>2, <2>3 DEF Left
  <1>8. WorkHeld'
    BY <1>7 DEF WorkHeld
  <1>9. QED
    BY <1>3, <1>4, <1>5, <1>6, <1>8 DEF KeepInv

\* The copies m and r hold every file the operation did not write itself.
LEMMA LeftSuffices ==
  ASSUME KeepInv, NEW m, NEW r, NEW leaked,
         \A f : f # Missing /\ Held(f) => Left(m, r, leaked, f)
  PROVE  damages = 0 /\ committed > 0 =>
            \/ Left(m, r, leaked, Document(committed))
            \/ Left(m, r, leaked, Manifest(committed)) /\ Left(m, r, leaked, Records(committed))
  BY DEF KeepInv, WorkHeld

\* Killed while the old backup's records are removed: the primary opens still.
LEMMA HalfRemovedWorks ==
  ASSUME MixInv, KeepInv, pc = "dropBackupRecords",
         EndWith(man, HalfRemoved("backup"), {"staged"}),
         recovery' = recovery, committed' = committed, damages' = damages,
         clean' => clean
  PROVE  KeepInv'
  <1> DEFINE half == HalfRemoved("backup")
  <1>1. man \in [Place -> File] /\ half \in [Place -> File]
    BY HalfRemovedFacts DEF MixInv, TypeOK
  <1>2. /\ half["primary"] = rec["primary"]
        /\ rec["backup"] = Missing => half["backup"] = Missing
    BY DEF HalfRemoved, MixInv, TypeOK
  <1> HIDE DEF half
  <1>3. \A p \in {"primary", "backup"} : man[p].kind = "document" => half[p] = Missing
    BY <1>2 DEF KeepInv, DocumentFits
  <1>4. /\ damages = 0 /\ man["primary"] # Missing => Current(man["primary"])
        /\ clean' /\ committed > 0 => Opens(man["primary"], half["primary"], committed)
    BY <1>2 DEF KeepInv, PrimaryFits, CleanFits
  <1>5. Valid("primary")
    BY DEF KeepInv, PrimaryReady
  <1>6. damages = 0 =>
          \/ Left(man, half, {"staged"}, Document(committed))
          \/ Left(man, half, {"staged"}, Manifest(committed)) /\ Left(man, half, {"staged"}, Records(committed))
    BY <1>2, <1>5, PrimaryHolds DEF Left
  <1>7. QED
    BY <1>1, <1>3, <1>4, <1>6, EndWorks DEF half

LEMMA FailEarlyWorks == MixInv /\ KeepInv /\ FailEarly => KeepInv'
  <1> SUFFICES ASSUME MixInv, KeepInv, FailEarly PROVE KeepInv'
    OBVIOUS
  <1>1. /\ man \in [Place -> File] /\ rec \in [Place -> File]
        /\ pc \notin InstallPC \cup DropPC \cup {"rotateRecords", "asideRecords"}
        /\ recovery' = recovery /\ committed' = committed /\ damages' = damages /\ clean' = clean
    BY DEF MixInv, TypeOK, FailEarly
  <1>2. /\ \A p \in {"primary", "backup"} : man[p].kind = "document" => rec[p] = Missing
        /\ damages = 0 /\ man["primary"] # Missing => Current(man["primary"])
        /\ clean /\ committed > 0 => Opens(man["primary"], rec["primary"], committed)
    BY <1>1 DEF KeepInv, DocumentFits, PrimaryFits, CleanFits
  <1>3. man["previous"] = Missing /\ rec["previous"] = Missing
    BY DEF FailEarly, MixInv, OpFits, PreviousFits
  <1>4. ASSUME NEW leaked PROVE \A f : f # Missing /\ Held(f) => Left(man, rec, leaked, f)
    BY <1>3 DEF Held, Left
  <1>5. CASE EndWith(man, rec, {"staged"})
    BY <1>1, <1>2, <1>4, <1>5, EndWorks, LeftSuffices
  <1>6. CASE pc = "dropBackupRecords" /\ EndWith(man, HalfRemoved("backup"), {"staged"})
    BY <1>1, <1>2, <1>6, HalfRemovedWorks
  <1>7. CASE EndWith(man, rec, {})
    BY <1>1, <1>2, <1>4, <1>7, EndWorks, LeftSuffices
  <1>8. QED
    BY <1>5, <1>6, <1>7 DEF FailEarly

LEMMA FailMoveRecordsWorks == MixInv /\ KeepInv /\ FailMoveRecords => KeepInv'
  <1> SUFFICES ASSUME MixInv, KeepInv, FailMoveRecords PROVE KeepInv'
    OBVIOUS
  <1> DEFINE back == [man EXCEPT ![op.dst] = man[Kept], ![Kept] = Missing]
  <1>1. /\ man \in [Place -> File] /\ rec \in [Place -> File]
        /\ pc \in {"rotateRecords", "asideRecords"}
        /\ recovery' = recovery /\ committed' = committed /\ damages' = damages
    BY DEF MixInv, TypeOK, FailMoveRecords
  <1>2. op.dst = "primary"
    <2>1. op.dst \in {"primary", "backup"} /\ rec[op.dst] # Missing
      BY DEF MixInv, TypeOK, Ops, FailMoveRecords
    <2>2. op.dst # "backup"
      BY <1>1, <2>1 DEF KeepInv, BackupFits, DocumentFits, MixInv, OpFits
    <2>3. QED
      BY <2>1, <2>2
  <1>3. /\ man["primary"] = Missing
        /\ rec["previous"] = Missing
        /\ pc = "rotateRecords" => Kept = "backup" /\ op.kind = "save" /\ man["previous"] = Missing
        /\ pc = "asideRecords" => Kept = "previous" /\ op.kind # "save"
    BY <1>1, <1>2 DEF MixInv, OpFits, Cleared, PreviousFits, Kept
  <1>4. /\ back \in [Place -> File]
        /\ back["primary"] = man[Kept] /\ back[Kept] = Missing
        /\ Kept # "backup" => back["backup"] = man["backup"]
    <2>1. Missing \in File /\ Kept \in {"backup", "previous"}
      BY DEF File, Kept
    <2>2. QED
      BY <1>1, <1>2, <2>1
  <1> HIDE DEF back
  <1>5. CASE /\ EndWith(back, rec, IF op.kind = "save" THEN {"staged"} ELSE {}) /\ clean' = clean
    <2>1. \A p \in {"primary", "backup"} : back[p].kind = "document" => rec[p] = Missing
      BY <1>1, <1>2, <1>3, <1>4 DEF KeepInv, DocumentFits
    <2>2. damages = 0 /\ back["primary"] # Missing => Current(back["primary"])
      BY <1>1, <1>2, <1>3, <1>4 DEF KeepInv, PrimaryFits
    <2>3. clean' /\ committed > 0 => Opens(back["primary"], rec["primary"], committed)
      BY <1>1, <1>2, <1>3, <1>4, <1>5 DEF KeepInv, CleanFits
    <2>4. ASSUME NEW leaked PROVE \A f : f # Missing /\ Held(f) => Left(back, rec, leaked, f)
      BY <1>1, <1>2, <1>3, <1>4 DEF Held, Left
    <2>5. CASE op.kind = "save"
      BY <1>1, <1>4, <1>5, <2>1, <2>2, <2>3, <2>4, <2>5, EndWorks, LeftSuffices
    <2>6. CASE op.kind # "save"
      BY <1>1, <1>4, <1>5, <2>1, <2>2, <2>3, <2>4, <2>6, EndWorks, LeftSuffices
    <2>7. QED
      BY <2>5, <2>6
  <1>6. CASE /\ EndWith(man, rec, IF op.kind = "save" THEN {"staged"} ELSE {"previous"})
             /\ clean' = FALSE
    <2>1. \A p \in {"primary", "backup"} : man[p].kind = "document" => rec[p] = Missing
      BY DEF KeepInv, DocumentFits
    <2>2. CASE op.kind = "save"
      <3>1. \A f : f # Missing /\ Held(f) => Left(man, rec, {"staged"}, f)
        BY <1>1, <1>3, <2>2 DEF Held, Left
      <3>2. QED
        BY <1>1, <1>3, <1>6, <2>1, <2>2, <3>1, EndWorks, LeftSuffices
    <2>3. CASE op.kind # "save"
      <3>1. \A f : f # Missing /\ Held(f) => Left(man, rec, {"previous"}, f)
        BY <1>1, <1>3, <2>3 DEF Held, Left
      <3>2. QED
        BY <1>1, <1>3, <1>6, <2>1, <2>3, <3>1, EndWorks, LeftSuffices
    <2>4. QED
      BY <2>2, <2>3
  <1>7. QED
    BY <1>5, <1>6 DEF FailMoveRecords, back

LEMMA FailInstallWorks == MixInv /\ KeepInv /\ FailInstall => KeepInv'
  <1> SUFFICES ASSUME MixInv, KeepInv, FailInstall PROVE KeepInv'
    OBVIOUS
  <1> DEFINE emptied == [rec EXCEPT ![op.dst] = Missing]
             back == [man EXCEPT ![op.dst] = man[Kept], ![Kept] = Missing]
             recBack == [emptied EXCEPT ![op.dst] = rec[Kept], ![Kept] = Missing]
  <1>1. /\ man \in [Place -> File] /\ rec \in [Place -> File]
        /\ pc \in InstallPC /\ op.dst \in {"primary", "backup"}
        /\ recovery' = recovery /\ committed' = committed /\ damages' = damages
    BY DEF MixInv, TypeOK, Ops, FailInstall
  <1>2. /\ man[op.dst] = Missing
        /\ op.kind = "save" => op.dst = "primary" /\ Kept = "backup"
        /\ op.kind # "save" => Kept = "previous"
        /\ op.kind = "save" \/ ~op.moved => man["previous"] = Missing /\ rec["previous"] = Missing
        /\ pc = "installRecords" => rec[op.dst] = Missing
    BY <1>1 DEF MixInv, OpFits, Cleared, PreviousFits, Kept
  <1>3. /\ emptied \in [Place -> File]
        /\ emptied[op.dst] = Missing
        /\ \A p \in Place \ {op.dst} : emptied[p] = rec[p]
    <2>1. Missing \in File
      BY DEF File
    <2>2. QED
      BY <1>1, <2>1
  <1>4. /\ back \in [Place -> File] /\ recBack \in [Place -> File]
        /\ back[op.dst] = man[Kept] /\ recBack[op.dst] = rec[Kept]
        /\ back[Kept] = Missing /\ recBack[Kept] = Missing
        /\ \A p \in Place \ {op.dst, Kept} : back[p] = man[p] /\ recBack[p] = rec[p]
    <2>1. Missing \in File /\ Kept \in Place /\ Kept # op.dst
      BY <1>1, <1>2 DEF File
    <2>2. QED
      BY <1>1, <1>3, <2>1
  <1> HIDE DEF emptied, back, recBack
  <1>5. /\ \A p \in {"primary", "backup", "previous"} : man[p].kind = "document" => rec[p] = Missing
        /\ damages = 0 /\ man["primary"] # Missing => Current(man["primary"])
        /\ damages = 0 /\ op.dst = "primary" /\ op.moved => Current(man[Kept])
        /\ clean /\ committed > 0 /\ op.dst = "primary" =>
              op.moved /\ Opens(man[Kept], rec[Kept], committed)
        /\ clean /\ committed > 0 /\ op.dst = "backup" =>
              Opens(man["primary"], rec["primary"], committed)
    BY <1>1 DEF KeepInv, DocumentFits, PrimaryFits, CleanFits
  <1>6. CASE op.moved /\ EndWith(back, recBack, {}) /\ clean' = clean
    <2>1. \A p \in {"primary", "backup"} : back[p].kind = "document" => recBack[p] = Missing
      BY <1>1, <1>2, <1>4, <1>5
    <2>2. damages = 0 /\ back["primary"] # Missing => Current(back["primary"])
      BY <1>1, <1>2, <1>4, <1>5, <1>6
    <2>3. clean' /\ committed > 0 => Opens(back["primary"], recBack["primary"], committed)
      BY <1>1, <1>2, <1>4, <1>5, <1>6
    <2>4. \A f : f # Missing /\ Held(f) => Left(back, recBack, {}, f)
      BY <1>1, <1>2, <1>4 DEF Held, Left
    <2>5. QED
      BY <1>1, <1>4, <1>6, <2>1, <2>2, <2>3, <2>4, EndWorks, LeftSuffices
  <1>7. CASE ~op.moved /\ EndWith(man, emptied, {}) /\ clean' = clean
    <2>1. \A p \in {"primary", "backup"} : man[p].kind = "document" => emptied[p] = Missing
      BY <1>1, <1>3, <1>5
    <2>2. clean' /\ committed > 0 => Opens(man["primary"], emptied["primary"], committed)
      BY <1>1, <1>3, <1>5, <1>7
    <2>3. \A f : f # Missing /\ Held(f) => Left(man, emptied, {}, f)
      BY <1>1, <1>2, <1>3, <1>7 DEF Held, Left
    <2>4. QED
      BY <1>1, <1>3, <1>5, <1>7, <2>1, <2>2, <2>3, EndWorks, LeftSuffices
  <1>8. CASE op.moved /\ EndWith(man, emptied, {"previous"}) /\ clean' = FALSE
    <2>1. \A p \in {"primary", "backup"} : man[p].kind = "document" => emptied[p] = Missing
      BY <1>1, <1>3, <1>5
    <2>2. \A f : f # Missing /\ Held(f) => Left(man, emptied, {"previous"}, f)
      BY <1>1, <1>2, <1>3 DEF Held, Left
    <2>3. QED
      BY <1>1, <1>3, <1>5, <1>8, <2>1, <2>2, EndWorks, LeftSuffices
  <1>9. CASE pc = "installManifest" /\ EndWith(man, rec, {"previous"}) /\ clean' = FALSE
    <2>1. \A f : f # Missing /\ Held(f) => Left(man, rec, {"previous"}, f)
      BY <1>1 DEF Held, Left
    <2>2. QED
      BY <1>1, <1>5, <1>9, <2>1, EndWorks, LeftSuffices
  <1>10. CASE /\ pc = "installManifest" /\ clean' = FALSE
              /\ EndWith(man, HalfRemoved(op.dst), {"previous"})
    <2> DEFINE half == HalfRemoved(op.dst)
    <2>1. /\ half \in [Place -> File]
          /\ \A p \in Place \ {op.dst} : half[p] = rec[p]
      BY <1>1, HalfRemovedFacts DEF MixInv, HalfRemoved
    <2> HIDE DEF half
    <2>2. \A p \in {"primary", "backup"} : man[p].kind = "document" => half[p] = Missing
      BY <1>1, <1>2, <1>5, <2>1
    <2>3. \A f : f # Missing /\ Held(f) => Left(man, half, {"previous"}, f)
      BY <1>1, <1>2, <1>10, <2>1 DEF Held, Left
    <2>4. QED
      BY <1>1, <1>5, <1>10, <2>1, <2>2, <2>3, EndWorks, LeftSuffices DEF half
  <1>11. QED
    BY <1>6, <1>7, <1>8, <1>9, <1>10 DEF FailInstall, emptied, back, recBack

LEMMA FailDropPreviousWorks == MixInv /\ KeepInv /\ FailDropPrevious => KeepInv'
  <1> SUFFICES ASSUME MixInv, KeepInv, FailDropPrevious PROVE KeepInv'
    OBVIOUS
  <1>1. /\ man'["previous"] = Missing /\ rec'["previous"] = Missing
        /\ \A p \in {"primary", "backup"} : man'[p] = man[p] /\ rec'[p] = rec[p]
        /\ pc \in DropPC /\ orphans \subseteq orphans'
        /\ recovery' = recovery /\ committed' = committed /\ damages' = damages /\ clean' = clean
    BY SettleFacts DEF FailDropPrevious, Settle, MixInv, TypeOK
  <1>2. \/ /\ op' = CopyOp("migrate", "backup", RevOf("backup")) /\ pc' = "stageCopy"
           /\ man["backup"].kind = "document"
        \/ /\ op.kind = "restore" /\ op.dst = "backup"
           /\ op' = CopyOp("restore", "primary", op.rev)
           /\ \/ pc' = "keepInvalidManifest" /\ Present("primary") /\ ~Valid("primary")
              \/ pc' = "stageCopy" /\ (~Present("primary") \/ Valid("primary"))
        \/ op' = Idle /\ pc' = "idle"
    BY DEF FailDropPrevious, Finish, RestorePrimary, Begin
  <1>3. IdleFits'
    BY <1>2 DEF IdleFits, Idle
  <1>4. DocumentFits'
    BY <1>1, <1>2 DEF KeepInv, DocumentFits
  <1>5. BackupFits'
    BY <1>1, <1>2 DEF BackupFits, CopyOp, RevOf, Idle
  <1>6. PrimaryReady'
    BY <1>1, <1>2 DEF PrimaryReady, CopyOp, Idle, Present, Valid
  <1>7. PrimaryFits'
    BY <1>1, <1>2 DEF KeepInv, PrimaryFits, Current
  <1>8. RestoreFits'
    BY <1>1, <1>2 DEF KeepInv, RestoreFits, CopyOp, Idle, Valid, RevOf
  <1>9. CleanFits'
    BY <1>1, <1>2 DEF KeepInv, CleanFits, Opens, Valid
  <1>10. \A f : f # Missing /\ Held(f) => Held(f)'
    BY <1>1, <1>2 DEF Held
  <1>11. WorkHeld'
    BY <1>1, <1>10 DEF KeepInv, WorkHeld
  <1>12. QED
    BY <1>3, <1>4, <1>5, <1>6, <1>7, <1>8, <1>9, <1>11 DEF KeepInv

LEMMA CrashWorks == MixInv /\ KeepInv /\ Crash => KeepInv'
  <1> SUFFICES ASSUME MixInv, KeepInv, Crash PROVE KeepInv'
    OBVIOUS
  <1>1. /\ man \in [Place -> File] /\ rec \in [Place -> File] /\ clean' = FALSE
        /\ recovery' = recovery /\ committed' = committed /\ damages' = damages
    BY DEF MixInv, TypeOK, Crash
  <1>2. /\ \A p \in {"primary", "backup"} : man[p].kind = "document" => rec[p] = Missing
        /\ damages = 0 /\ man["primary"] # Missing => Current(man["primary"])
    BY DEF KeepInv, DocumentFits, PrimaryFits
  <1>3. CASE EndWith(man, rec, {"staged", "previous"})
    <2>1. \A f : f # Missing /\ Held(f) => Left(man, rec, {"staged", "previous"}, f)
      BY DEF Held, Left
    <2>2. QED
      BY <1>1, <1>2, <1>3, <2>1, EndWorks, LeftSuffices
  <1>4. CASE pc = "dropBackupRecords" /\ EndWith(man, HalfRemoved("backup"), {"staged"})
    BY <1>1, <1>4, HalfRemovedWorks
  <1>5. QED
    BY <1>3, <1>4 DEF Crash

-----------------------------------------------------------------------------
\* The projects an earlier version left, and no project at all, satisfy KeepInv.
LEMMA KeepInvInit == Init => KeepInv
  <1> SUFFICES ASSUME Init PROVE KeepInv
    OBVIOUS
  <1>1. PICK n \in Legacy : /\ committed = n /\ lastRev = n
                            /\ man = CASE n = 0 -> NoFiles
                                       [] n = 1 -> [NoFiles EXCEPT !["primary"] = Document(1)]
                                       [] n = 2 -> [NoFiles EXCEPT !["primary"] = Document(2),
                                                                   !["backup"] = Document(1)]
    BY DEF Init
  <1>2. n = 0 \/ n = 1 \/ n = 2
    BY BoundsAssumption
  <1>3. pc = "idle" /\ op = Idle /\ rec = NoFiles
    BY DEF Init
  <1>4. IdleFits /\ BackupFits /\ PrimaryReady /\ RestoreFits
    BY <1>3 DEF IdleFits, BackupFits, PrimaryReady, RestoreFits, Idle
  <1>5. DocumentFits /\ PrimaryFits /\ CleanFits
    BY <1>1, <1>2, <1>3 DEF DocumentFits, PrimaryFits, CleanFits, Current, Opens, NoFiles, Idle
  <1>6. WorkHeld
    BY <1>1, <1>2, <1>3 DEF WorkHeld, Held, NoFiles
  <1>7. QED
    BY <1>4, <1>5, <1>6 DEF KeepInv

\* Every step preserves KeepInv.
LEMMA KeepInvStep == MixInv /\ KeepInv /\ [Next]_vars => KeepInv'
  <1> SUFFICES ASSUME MixInv, KeepInv, [Next]_vars PROVE KeepInv'
    OBVIOUS
  <1>1. CASE UNCHANGED vars
    BY <1>1 DEF vars, KeepInv, IdleFits, DocumentFits, BackupFits, PrimaryReady, PrimaryFits,
        Current,
       RestoreFits, CleanFits, Opens, WorkHeld, Held, Present, Valid, RevOf, Kept
  <1>2. CASE Next
    BY <1>2, BeginSaveWorks, BeginMigrateWorks, BeginRestoreWorks,
       DropBackupManifestWorks, DropBackupRecordsWorks, RotateManifestWorks, RotateRecordsWorks,
       KeepInvalidManifestWorks, KeepInvalidRecordsWorks, StageCopyWorks,
       AsideManifestWorks, AsideRecordsWorks, InstallRecordsWorks, InstallManifestWorks,
       DropPreviousManifestWorks, DropPreviousRecordsWorks, DamageWorks, CrashWorks,
       FailEarlyWorks, FailMoveRecordsWorks, FailInstallWorks, FailDropPreviousWorks
       DEF Next
  <1>3. QED
    BY <1>1, <1>2

\* Only the installation of a manifest acknowledges a revision.
LEMMA OnlyInstallCommits ==
  ASSUME [Next]_vars, committed' # committed PROVE InstallManifest
  BY DEF vars, Next, BeginSave, BeginMigrate, BeginRestore, DropBackupManifest, DropBackupRecords,
     RotateManifest, RotateRecords, KeepInvalidManifest, KeepInvalidRecords, StageCopy,
     AsideManifest, AsideRecords, InstallRecords, DropPreviousManifest, DropPreviousRecords,
     Damage, Crash, FailEarly, FailMoveRecords, FailInstall, FailDropPrevious

\* write_workspace, write_physical_copy, restore_backup and the migration of
\* documents, killed or failing at any call, for any number of saves: the last
\* acknowledged revision is on disk until its successor is complete, a failure
\* that is rolled back leaves it the primary, a restore keeps the backup it
\* reads, and a save leaves the revision it replaced as the backup.
THEOREM WorkIsKept == Spec => StoreKeepsWork
  <1>1. MixInv /\ KeepInv => TypeOK
    BY DEF MixInv
  <1>2. KeepInv => CommittedOnDisk
    <2> SUFFICES ASSUME KeepInv, damages = 0, committed > 0
                 PROVE  \/ Document(committed) \in OnDisk
                        \/ {Manifest(committed), Records(committed)} \subseteq OnDisk
      BY DEF CommittedOnDisk
    <2>1. \A f : Held(f) => f \in OnDisk
      BY DEF Held, OnDisk
    <2>2. QED
      BY <2>1 DEF KeepInv, WorkHeld
  <1>3. KeepInv => FailureKeepsPrimary
    BY DEF KeepInv, CleanFits, FailureKeepsPrimary, Opens, Valid, RevOf
  <1>4. KeepInv => RestoreKeepsBackup
    BY DEF KeepInv, RestoreFits, RestoreKeepsBackup
  <1>5. MixInv /\ KeepInv /\ [Next]_vars =>
          [committed' # committed /\ op.kind = "save" /\ clean /\ committed > 0 =>
              Valid("backup")' /\ RevOf("backup")' = committed]_vars
    <2> SUFFICES ASSUME MixInv, KeepInv, [Next]_vars, committed' # committed,
                        op.kind = "save", clean, committed > 0
                 PROVE  Valid("backup")' /\ RevOf("backup")' = committed
      OBVIOUS
    <2>1. pc = "installManifest"
      BY OnlyInstallCommits DEF InstallManifest
    <2>2. op.dst = "primary" /\ Kept = "backup"
      BY DEF MixInv, OpFits, Kept
    <2>3. Opens(man["backup"], rec["backup"], committed)
      BY <2>1, <2>2 DEF KeepInv, CleanFits
    <2>4. man'["backup"] = man["backup"] /\ rec' = rec
      BY <2>2, OnlyInstallCommits DEF InstallManifest, MoveManifest, MixInv, TypeOK, Place
    <2>5. QED
      BY <2>3, <2>4 DEF Opens, Valid, RevOf
  <1>6. QED
    BY MixInvInit, MixInvStep, KeepInvInit, KeepInvStep, <1>1, <1>2, <1>3, <1>4, <1>5, PTL
       DEF Spec, StoreKeepsWork, SaveRotatesBackup

-----------------------------------------------------------------------------
(* Proof of SyncLosesNothing, for any devices and bounds.                  *)

Shared == [rev : Nat, data : SUBSET Nat, readers : SUBSET Devices]
Copies == [data : SUBSET Nat, base : Nat, uncommitted : BOOLEAN, seen : Nat]
Pushes == [rev : Nat, data : SUBSET Nat, step : {"push"}, force : BOOLEAN, roster : SUBSET Devices]
Polls == [rev : Nat, data : SUBSET Nat, step : {"idle", "pull", "apply"}]

SyncTypeOK ==
    /\ file \in Shared /\ dev \in [Devices -> Copies]
    /\ pushing \in [Devices -> Pushes \cup {IdleOp}] /\ polling \in [Devices -> Polls]
    /\ edits \in Nat /\ raced \in BOOLEAN

\* A poll runs on a clean workspace, and never beside a push; what a push
\* sends stays in the workspace until it is over.
OperationsFit ==
    \A d \in Devices :
      /\ polling[d].step # "idle" => ~dev[d].uncommitted /\ pushing[d] = IdleOp
      /\ pushing[d] # IdleOp => pushing[d].data \subseteq dev[d].data

\* Whoever knows the revision of the file holds what is in it, and nobody
\* knows a later one.
Knows(rev, data) == rev <= file.rev /\ (rev = file.rev => file.data \subseteq data)
RevisionsKnown ==
    \A d \in Devices :
      /\ Knows(dev[d].base, dev[d].data)
      /\ pushing[d] # IdleOp /\ ~pushing[d].force => Knows(pushing[d].rev, pushing[d].data)
      /\ polling[d].step = "apply" => Knows(polling[d].rev, polling[d].data)

SyncInv == SyncTypeOK /\ OperationsFit /\ (~raced => RevisionsKnown /\ (file.rev = 0 => file.data = {}))

LEMMA SyncInvInit == SyncInit => SyncInv
  <1> SUFFICES ASSUME SyncInit PROVE SyncInv
    OBVIOUS
  <1>1. SyncTypeOK
    BY DEF SyncInit, SyncTypeOK, IdleOp, Shared, Copies, Polls
  <1>2. OperationsFit /\ RevisionsKnown
    BY DEF SyncInit, OperationsFit, RevisionsKnown, Knows, IdleOp
  <1>3. QED
    BY <1>1, <1>2 DEF SyncInv, SyncInit

\* The effect that polls is torn down.
LEMMA PollCancelled ==
  ASSUME SyncTypeOK, NEW d \in Devices, CancelPoll(d)
  PROVE  /\ polling' \in [Devices -> Polls] /\ polling'[d] = IdleOp
         /\ \A e \in Devices \ {d} : polling'[e] = polling[e]
  <1>1. IdleOp \in Polls
    BY DEF IdleOp, Polls
  <1>2. QED
    BY <1>1 DEF SyncTypeOK, CancelPoll

\* A device changes its copy to one that holds no less and is not newer, and
\* stops polling: what the invariant says of the others stays.
LEMMA CopyChanges ==
  ASSUME SyncInv, NEW d \in Devices, CancelPoll(d), NEW copy \in Copies,
         dev' = [dev EXCEPT ![d] = copy], dev[d].data \subseteq copy.data, copy.base = dev[d].base,
         edits' \in Nat, UNCHANGED <<file, pushing, raced>>
  PROVE  SyncInv'
  <1>1. /\ polling' \in [Devices -> Polls] /\ polling'[d] = IdleOp
        /\ \A e \in Devices \ {d} : polling'[e] = polling[e]
    BY PollCancelled DEF SyncInv
  <1>2. dev' \in [Devices -> Copies] /\ dev'[d] = copy /\ \A e \in Devices \ {d} : dev'[e] = dev[e]
    BY DEF SyncInv, SyncTypeOK
  <1>3. SyncTypeOK'
    BY <1>1, <1>2 DEF SyncInv, SyncTypeOK
  <1>4. OperationsFit'
    BY <1>1, <1>2 DEF SyncInv, OperationsFit, IdleOp
  <1>5. ~raced => RevisionsKnown'
    BY <1>1, <1>2 DEF SyncInv, RevisionsKnown, Knows, IdleOp
  <1>6. QED
    BY <1>3, <1>4, <1>5 DEF SyncInv

LEMMA PushWritesKeeps ==
  ASSUME SyncInv, NEW d \in Devices, PushWrites(d)
  PROVE  SyncInv'
  <1> DEFINE p == pushing[d]
  <1>1. p \in Pushes /\ p # IdleOp
    BY DEF PushWrites, SyncInv, SyncTypeOK
  <1>2. /\ file' = [rev |-> p.rev + 1, data |-> p.data, readers |-> p.roster]
        /\ raced' = (raced \/ file.rev # p.rev \/ p.force) /\ UNCHANGED edits
    BY DEF PushWrites
  <1>3. dev[d] \in Copies /\ p.rev + 1 \in Nat
    BY <1>1 DEF SyncInv, SyncTypeOK, Pushes
  <1>4. /\ dev'[d] = [dev[d] EXCEPT !.base = p.rev + 1, !.seen = p.rev + 1]
        /\ \A e \in Devices \ {d} : dev'[e] = dev[e]
    BY DEF PushWrites, SyncInv, SyncTypeOK
  <1>5. dev'[d] \in Copies /\ dev'[d].base = p.rev + 1 /\ dev'[d].data = dev[d].data
        /\ dev'[d].uncommitted = dev[d].uncommitted
    BY <1>3, <1>4 DEF Copies
  <1>6. dev' \in [Devices -> Copies]
    BY <1>4, <1>5 DEF PushWrites, SyncInv, SyncTypeOK
  <1>7. /\ polling' \in [Devices -> Polls] /\ polling'[d] = IdleOp
        /\ \A e \in Devices \ {d} : polling'[e] = polling[e]
    BY PollCancelled DEF PushWrites, SyncInv
  <1>8. /\ pushing' \in [Devices -> Pushes \cup {IdleOp}] /\ pushing'[d] = IdleOp
        /\ \A e \in Devices \ {d} : pushing'[e] = pushing[e]
    BY DEF PushWrites, SyncInv, SyncTypeOK
  <1>9. file' \in Shared /\ raced' \in BOOLEAN
    BY <1>1, <1>2, <1>3 DEF Shared, Pushes, SyncInv, SyncTypeOK
  <1>10. SyncTypeOK'
    BY <1>2, <1>6, <1>7, <1>8, <1>9 DEF SyncInv, SyncTypeOK
  <1>11. OperationsFit'
    BY <1>4, <1>7, <1>8 DEF SyncInv, OperationsFit, IdleOp
  <1>12. ASSUME ~raced' PROVE RevisionsKnown' /\ (file'.rev = 0 => file'.data = {})
    <2>1. /\ ~raced /\ file.rev = p.rev /\ ~p.force
          /\ file.rev \in Nat /\ file'.rev = file.rev + 1 /\ file'.data = p.data
      BY <1>1, <1>2, <1>12 DEF SyncInv, SyncTypeOK, Shared
    <2>2. p.data \subseteq dev[d].data
      BY <1>1 DEF SyncInv, OperationsFit
    <2>3. Knows(dev[d].base, dev[d].data)'
      BY <1>5, <2>1, <2>2 DEF Knows
    <2>4. \A rev \in Nat : \A data : Knows(rev, data) => rev <= file'.rev /\ rev # file'.rev
      BY <2>1 DEF Knows
    <2>5. \A e \in Devices \ {d} : Knows(dev[e].base, dev[e].data)'
      BY <1>4, <2>1, <2>4 DEF SyncInv, SyncTypeOK, RevisionsKnown, Copies, Knows
    <2>6. \A e \in Devices \ {d} :
             pushing[e] # IdleOp /\ ~pushing[e].force => Knows(pushing[e].rev, pushing[e].data)'
      BY <1>8, <2>1, <2>4 DEF SyncInv, SyncTypeOK, RevisionsKnown, Pushes, Knows
    <2>7. \A e \in Devices \ {d} : polling[e].step = "apply" => Knows(polling[e].rev, polling[e].data)'
      BY <1>7, <2>1, <2>4 DEF SyncInv, SyncTypeOK, RevisionsKnown, Polls, Knows
    <2>8. QED
      BY <1>7, <1>8, <2>1, <2>3, <2>5, <2>6, <2>7 DEF RevisionsKnown, IdleOp
  <1>13. QED
    BY <1>10, <1>11, <1>12 DEF SyncInv

\* sync_pull and the automatic pull replace the workspace by what was read.
LEMMA MergeKeeps ==
  ASSUME SyncInv, NEW d \in Devices, pushing[d] = IdleOp, CancelPoll(d), NEW rev \in Nat, NEW data \in SUBSET Nat,
         ~raced => Knows(rev, data), dev' = Merged(d, rev, data), UNCHANGED <<file, pushing, edits, raced>>
  PROVE  SyncInv'
  <1>1. /\ polling' \in [Devices -> Polls] /\ polling'[d] = IdleOp
        /\ \A e \in Devices \ {d} : polling'[e] = polling[e]
    BY PollCancelled DEF SyncInv
  <1> DEFINE copy == [data |-> data, base |-> rev, uncommitted |-> FALSE, seen |-> rev]
  <1>2. copy \in Copies
    BY DEF Copies
  <1>3. dev' \in [Devices -> Copies] /\ dev'[d] = copy /\ \A e \in Devices \ {d} : dev'[e] = dev[e]
    BY <1>2 DEF SyncInv, SyncTypeOK, Merged
  <1>4. SyncTypeOK'
    BY <1>1, <1>3 DEF SyncInv, SyncTypeOK
  <1>5. OperationsFit'
    BY <1>1, <1>3 DEF SyncInv, OperationsFit, IdleOp
  <1>6. ~raced => RevisionsKnown'
    BY <1>1, <1>3 DEF SyncInv, RevisionsKnown, Knows, IdleOp
  <1>7. QED
    BY <1>4, <1>5, <1>6 DEF SyncInv

LEMMA PollStatusKeeps ==
  ASSUME SyncInv, NEW d \in Devices, PollStatus(d)
  PROVE  SyncInv'
  <1>1. UNCHANGED <<file, pushing, edits, raced>> /\ pushing[d] = IdleOp /\ file.rev \in Nat
    BY DEF PollStatus, SyncInv, SyncTypeOK, Shared
  <1>2. CASE dev[d].seen = 0
    <2>1. dev'[d] = [dev[d] EXCEPT !.seen = file.rev] /\ UNCHANGED polling
          /\ \A e \in Devices \ {d} : dev'[e] = dev[e]
      BY <1>2 DEF PollStatus, SyncInv, SyncTypeOK
    <2>2. /\ dev'[d] \in Copies /\ dev'[d].data = dev[d].data /\ dev'[d].base = dev[d].base
          /\ dev'[d].uncommitted = dev[d].uncommitted
      BY <1>1, <2>1 DEF SyncInv, SyncTypeOK, Copies
    <2>3. dev' \in [Devices -> Copies]
      BY <1>2, <2>1, <2>2 DEF PollStatus, SyncInv, SyncTypeOK
    <2>4. SyncTypeOK' /\ OperationsFit'
      BY <1>1, <2>1, <2>2, <2>3 DEF SyncInv, SyncTypeOK, OperationsFit
    <2>5. ~raced => RevisionsKnown'
      BY <1>1, <2>1, <2>2 DEF SyncInv, RevisionsKnown, Knows
    <2>6. QED
      BY <1>1, <2>4, <2>5 DEF SyncInv
  <1>3. CASE dev[d].seen # 0
    <2> DEFINE poll == [IdleOp EXCEPT !.step = "pull"]
    <2>1. poll \in Polls /\ poll.step = "pull"
      BY DEF IdleOp, Polls
    <2>2. ~dev[d].uncommitted /\ polling' = [polling EXCEPT ![d] = poll] /\ UNCHANGED dev
      BY <1>3 DEF PollStatus
    <2>3. /\ polling' \in [Devices -> Polls] /\ polling'[d] = poll
          /\ \A e \in Devices \ {d} : polling'[e] = polling[e]
      BY <2>1, <2>2 DEF SyncInv, SyncTypeOK
    <2>4. SyncTypeOK' /\ OperationsFit'
      BY <1>1, <2>1, <2>2, <2>3 DEF SyncInv, SyncTypeOK, OperationsFit
    <2>5. ~raced => RevisionsKnown'
      BY <1>1, <2>1, <2>2, <2>3 DEF SyncInv, RevisionsKnown, Knows
    <2>6. QED
      BY <1>1, <2>4, <2>5 DEF SyncInv
  <1>4. QED
    BY <1>2, <1>3

LEMMA PollReadsKeeps ==
  ASSUME SyncInv, NEW d \in Devices, PollReads(d)
  PROVE  SyncInv'
  <1> DEFINE poll == IF MayRead(d) THEN [rev |-> file.rev, data |-> file.data, step |-> "apply"] ELSE IdleOp
  <1>1. poll \in Polls /\ polling[d].step = "pull"
    BY DEF PollReads, SyncInv, SyncTypeOK, Shared, Polls, IdleOp
  <1>2. /\ polling' \in [Devices -> Polls] /\ polling'[d] = poll
        /\ \A e \in Devices \ {d} : polling'[e] = polling[e]
    BY <1>1 DEF PollReads, SyncInv, SyncTypeOK
  <1>3. UNCHANGED <<file, dev, pushing, edits, raced>>
    BY DEF PollReads
  <1>4. SyncTypeOK' /\ OperationsFit'
    BY <1>1, <1>2, <1>3 DEF SyncInv, SyncTypeOK, OperationsFit
  <1>5. poll.step = "apply" => poll.rev = file.rev /\ poll.data = file.data /\ file.rev \in Nat
    BY DEF IdleOp, SyncInv, SyncTypeOK, Shared
  <1>6. ~raced => RevisionsKnown'
    BY <1>2, <1>3, <1>5 DEF SyncInv, RevisionsKnown, Knows
  <1>7. QED
    BY <1>3, <1>4, <1>6 DEF SyncInv

LEMMA PollAppliesKeeps ==
  ASSUME SyncInv, NEW d \in Devices, PollApplies(d)
  PROVE  SyncInv'
  <1>1. /\ polling[d].step = "apply" /\ CancelPoll(d) /\ pushing[d] = IdleOp
        /\ UNCHANGED <<file, pushing, edits, raced>> /\ polling[d] \in Polls /\ dev[d] \in Copies
    BY DEF PollApplies, SyncInv, SyncTypeOK, OperationsFit
  <1>2. polling[d].rev \in Nat /\ polling[d].data \in SUBSET Nat /\ edits \in Nat
    BY <1>1 DEF Polls, SyncInv, SyncTypeOK
  <1>3. CASE polling[d].rev > dev[d].base
    <2>1. dev' = Merged(d, polling[d].rev, polling[d].data)
      BY <1>3 DEF PollApplies
    <2>2. ~raced => Knows(polling[d].rev, polling[d].data)
      BY <1>1 DEF SyncInv, RevisionsKnown
    <2>3. QED
      BY <1>1, <1>2, <2>1, <2>2, MergeKeeps
  <1>4. CASE ~(polling[d].rev > dev[d].base)
    <2> DEFINE copy == [dev[d] EXCEPT !.seen = polling[d].rev]
    <2>1. copy \in Copies /\ dev[d].data \subseteq copy.data /\ copy.base = dev[d].base
      BY <1>1, <1>2 DEF Copies
    <2>2. dev' = [dev EXCEPT ![d] = copy]
      BY <1>4 DEF PollApplies
    <2> HIDE DEF copy
    <2>3. QED
      BY <1>1, <1>2, <2>1, <2>2, CopyChanges
  <1>5. QED
    BY <1>3, <1>4

LEMMA PushReadsKeeps ==
  ASSUME SyncInv, NEW d \in Devices, NEW force \in BOOLEAN, NEW roster \in SUBSET Devices,
         PushReads(d, force, roster)
  PROVE  SyncInv'
  <1> DEFINE p == [rev |-> file.rev, data |-> dev[d].data, step |-> "push", force |-> force, roster |-> roster]
  <1>1. p \in Pushes /\ file.rev \in Nat
    BY DEF Pushes, SyncInv, SyncTypeOK, Shared, Copies
  <1>2. /\ pushing' \in [Devices -> Pushes \cup {IdleOp}] /\ pushing'[d] = p
        /\ \A e \in Devices \ {d} : pushing'[e] = pushing[e]
    BY <1>1 DEF PushReads, SyncInv, SyncTypeOK
  <1>3. /\ polling' \in [Devices -> Polls] /\ polling'[d] = IdleOp
        /\ \A e \in Devices \ {d} : polling'[e] = polling[e]
    BY PollCancelled DEF PushReads, SyncInv
  <1>4. UNCHANGED <<file, dev, edits, raced>>
    BY DEF PushReads
  <1>5. SyncTypeOK' /\ OperationsFit'
    BY <1>2, <1>3, <1>4 DEF SyncInv, SyncTypeOK, OperationsFit, IdleOp
  <1>6. ASSUME ~raced, ~force PROVE Knows(file.rev, dev[d].data)
    <2>1. file.rev > 0 => file.rev = dev[d].base
      BY <1>6 DEF PushReads
    <2>2. Knows(dev[d].base, dev[d].data) /\ (file.rev = 0 => file.data = {})
      BY <1>6 DEF SyncInv, RevisionsKnown
    <2>3. QED
      BY <1>1, <2>1, <2>2 DEF Knows
  <1>7. ~raced => RevisionsKnown'
    BY <1>2, <1>3, <1>4, <1>6 DEF SyncInv, RevisionsKnown, Knows, IdleOp
  <1>8. QED
    BY <1>4, <1>5, <1>7 DEF SyncInv

LEMMA SyncInvStep ==
  ASSUME SyncInv, [SyncNext]_syncVars
  PROVE  SyncInv'
  <1>1. CASE UNCHANGED syncVars
    BY <1>1 DEF syncVars, SyncInv, SyncTypeOK, OperationsFit, RevisionsKnown, Knows
  <1>2. ASSUME NEW d \in Devices, EditShared(d) PROVE SyncInv'
    <2> DEFINE copy == [dev[d] EXCEPT !.data = @ \cup {edits + 1}, !.uncommitted = TRUE]
    <2>1. dev[d] \in Copies /\ edits + 1 \in Nat
      BY DEF SyncInv, SyncTypeOK
    <2>2. copy \in Copies /\ copy.base = dev[d].base /\ dev[d].data \subseteq copy.data
      BY <2>1 DEF Copies
    <2>3. dev' = [dev EXCEPT ![d] = copy]
      <3>1. dev' = [dev EXCEPT ![d].data = @ \cup {edits + 1}, ![d].uncommitted = TRUE]
        BY <1>2 DEF EditShared
      <3>2. dev[d] = [data |-> dev[d].data, base |-> dev[d].base, uncommitted |-> dev[d].uncommitted, seen |-> dev[d].seen]
        BY <2>1 DEF Copies
      <3>3. QED
        BY <3>1, <3>2 DEF SyncInv, SyncTypeOK
    <2>4. CancelPoll(d) /\ edits' \in Nat /\ UNCHANGED <<file, pushing, raced>>
      BY <1>2, <2>1 DEF EditShared
    <2> HIDE DEF copy
    <2>5. QED
      BY <2>2, <2>3, <2>4, CopyChanges
  <1>3. ASSUME NEW d \in Devices, CommitShared(d) PROVE SyncInv'
    <2> DEFINE copy == [dev[d] EXCEPT !.uncommitted = FALSE]
    <2>1. /\ dev' = [dev EXCEPT ![d] = copy] /\ copy \in Copies /\ copy.base = dev[d].base
          /\ dev[d].data \subseteq copy.data /\ edits' \in Nat
      BY <1>3 DEF CommitShared, SyncInv, SyncTypeOK, Copies
    <2> HIDE DEF copy
    <2>2. QED
      BY <1>3, <2>1, CopyChanges DEF CommitShared
  <1>4. ASSUME NEW d \in Devices, Pull(d) PROVE SyncInv'
    <2>1. file.rev \in Nat /\ file.data \in SUBSET Nat /\ Knows(file.rev, file.data)
      BY DEF SyncInv, SyncTypeOK, Shared, Knows
    <2>2. QED
      BY <1>4, <2>1, MergeKeeps DEF Pull
  <1>5. QED
    BY <1>1, <1>2, <1>3, <1>4, PushWritesKeeps, PollStatusKeeps, PollReadsKeeps, PollAppliesKeeps,
       PushReadsKeeps DEF SyncNext

LEMMA PushKeepsEdits ==
  ASSUME SyncInv, [SyncNext]_syncVars, ~raced'
  PROVE  file.data \subseteq file'.data
  <1>1. file' = file \/ \E d \in Devices : PushWrites(d)
    BY DEF SyncNext, syncVars, EditShared, CommitShared, Pull, PollStatus, PollReads, PollApplies, PushReads
  <1>2. ASSUME NEW d \in Devices, PushWrites(d) PROVE file.data \subseteq file'.data
    <2>1. ~raced /\ file.rev = pushing[d].rev /\ ~pushing[d].force /\ pushing[d] # IdleOp /\ file'.data = pushing[d].data
      BY <1>2 DEF PushWrites
    <2>2. QED
      BY <2>1 DEF SyncInv, RevisionsKnown, Knows
  <1>3. QED
    BY <1>1, <1>2

LEMMA PollKeepsWork ==
  ASSUME SyncInv, [SyncNext]_syncVars,
         NEW d \in Devices, dev[d].uncommitted, ~(dev[d].data \subseteq dev'[d].data)
  PROVE  polling[d].step # "apply"
  BY DEF SyncInv, SyncTypeOK, OperationsFit, Polls

\* sync_push and the polling effect, for any number of devices, edits and
\* revisions: no edit is lost before two pushes overlap or one is forced.
THEOREM NoEditLost == SyncSpec => SyncLosesNothing
  <1>1. SyncInv /\ [SyncNext]_syncVars =>
          [/\ ~raced' => file.data \subseteq file'.data
           /\ \A d \in Devices : dev[d].uncommitted /\ ~(dev[d].data \subseteq dev'[d].data) =>
                 polling[d].step # "apply"]_syncVars
    BY PushKeepsEdits, PollKeepsWork
  <1>2. QED
    BY SyncInvInit, SyncInvStep, <1>1, PTL DEF SyncSpec, SyncLosesNothing

-----------------------------------------------------------------------------
(* Proof of GroupsExact, for any files, branches, plans and bounds.        *)

\* Commits are numbered in the order they were made and know only earlier ones.
CommitsFit ==
    /\ gitCommits \in Seq({gitCommits[c] : c \in DOMAIN gitCommits})
    /\ \A c \in DOMAIN gitCommits :
         /\ gitCommits[c].parent \in Nat /\ gitCommits[c].parent < c /\ \A p \in Past(c) : p \in Nat /\ p <= c
         /\ \A f \in GitFiles \ gitCommits[c].planned :
              gitCommits[c].parent # 0 /\ gitCommits[c].contents[f] = Contents(gitCommits[c].parent)[f]

\* What refers to a commit refers to one that was made.
HeadsFit ==
    /\ current \in GitBranches /\ gitHeads[current] # 0 /\ DOMAIN gitHeads = GitBranches
    /\ \A b \in GitBranches : gitHeads[b] \in DOMAIN gitCommits \cup {0}
    /\ origin \in DOMAIN gitCommits /\ merging \in DOMAIN gitCommits \cup {0}

\* The operation under way fits the buttons: nothing else moves a branch meanwhile.
GitOpFits ==
    /\ DOMAIN gitOp = DOMAIN NoOp
    /\ gitOp.kind \in {"checkout", "merge"} => gitOp.branch \in GitBranches /\ gitHeads[gitOp.branch] # 0
    /\ gitOp.kind = "create" => gitOp.branch \in GitBranches
    /\ gitOp.kind = "delete" => gitOp.branch # current

\* Outside these files the index is what the next commit starts from.
IndexClean(files) == \A f \in GitFiles \ files : index[f] = HeadContents[f]

\* The commits on this branch since the grouped commit started.
MadeSince == {c \in gitOp.from + 1 .. Len(gitCommits) : c \in Past(gitHeads[current])}

\* A grouped commit whose status was current goes from a clean index to a
\* clean index, and has made the commits it counts.
GroupedFits ==
    gitOp.kind = "grouped" =>
      /\ gitOp.step \in {"preflight", "git"} => gitOp.done = 0 /\ (gitOp.fresh => IndexClean(gitOp.files))
      /\ gitOp.step = "stage" /\ gitOp.fresh => IndexClean({})
      /\ gitOp.step = "commit" => gitOp.left # <<>> /\ (gitOp.fresh => IndexClean(Head(gitOp.left)))
      /\ gitOp.step \in {"stage", "commit"} =>
           gitOp.from \in Nat /\ gitOp.from <= Len(gitCommits) /\ merging <= gitOp.from /\ gitOp.done = Cardinality(MadeSince)

GitInv == CommitsFit /\ HeadsFit /\ GitOpFits /\ GroupedFits

LEMMA LengthFits ==
  ASSUME CommitsFit
  PROVE  Len(gitCommits) \in Nat /\ DOMAIN gitCommits = 1 .. Len(gitCommits)
  BY DEF CommitsFit

LEMMA AppendAny ==
  ASSUME NEW S, NEW s \in Seq(S), NEW x
  PROVE  /\ Append(s, x) \in Seq(S \cup {x}) /\ Len(Append(s, x)) = Len(s) + 1
         /\ DOMAIN Append(s, x) = DOMAIN s \cup {Len(s) + 1}
         /\ Append(s, x)[Len(s) + 1] = x /\ \A i \in DOMAIN s : Append(s, x)[i] = s[i]
  <1>1. s \in Seq(S \cup {x}) /\ x \in S \cup {x}
    OBVIOUS
  <1>2. QED
    BY <1>1

\* A commit is added.
LEMMA CommitAdded ==
  ASSUME CommitsFit, NEW x, gitCommits' = Append(gitCommits, x), x.parent \in DOMAIN gitCommits,
         \A p \in x.past : p \in Nat /\ p <= Len(gitCommits) + 1,
         \A f \in GitFiles \ x.planned : x.contents[f] = Contents(x.parent)[f]
  PROVE  /\ CommitsFit' /\ Len(gitCommits') = Len(gitCommits) + 1
         /\ DOMAIN gitCommits' = DOMAIN gitCommits \cup {Len(gitCommits) + 1}
         /\ gitCommits'[Len(gitCommits) + 1] = x /\ \A c \in DOMAIN gitCommits : gitCommits'[c] = gitCommits[c]
  <1> DEFINE S == {gitCommits[c] : c \in DOMAIN gitCommits}
  <1>1. gitCommits \in Seq(S)
    BY DEF CommitsFit
  <1>2. Len(gitCommits) \in Nat /\ DOMAIN gitCommits = 1 .. Len(gitCommits)
    BY LengthFits
  <1>3. /\ gitCommits' \in Seq(S \cup {x}) /\ Len(gitCommits') = Len(gitCommits) + 1
        /\ DOMAIN gitCommits' = DOMAIN gitCommits \cup {Len(gitCommits) + 1}
        /\ gitCommits'[Len(gitCommits) + 1] = x /\ \A c \in DOMAIN gitCommits : gitCommits'[c] = gitCommits[c]
    BY <1>1, AppendAny
  <1>4. S \cup {x} = {gitCommits'[c] : c \in DOMAIN gitCommits'}
    BY <1>3
  <1>5. gitCommits' \in Seq({gitCommits'[c] : c \in DOMAIN gitCommits'})
    BY <1>3, <1>4
  <1>6. ASSUME NEW c \in DOMAIN gitCommits'
        PROVE  /\ gitCommits'[c].parent \in Nat /\ gitCommits'[c].parent < c
               /\ \A p \in gitCommits'[c].past : p \in Nat /\ p <= c
               /\ \A f \in GitFiles \ gitCommits'[c].planned :
                    /\ gitCommits'[c].parent # 0
                    /\ gitCommits'[c].contents[f] = gitCommits'[gitCommits'[c].parent].contents[f]
    <2>1. CASE c = Len(gitCommits) + 1
      BY <1>2, <1>3, <2>1 DEF Contents
    <2>2. CASE c \in DOMAIN gitCommits
      <3>1. /\ gitCommits[c].parent \in Nat /\ gitCommits[c].parent < c /\ \A p \in gitCommits[c].past : p \in Nat /\ p <= c
            /\ \A f \in GitFiles \ gitCommits[c].planned :
                 /\ gitCommits[c].parent # 0
                 /\ gitCommits[c].contents[f] = gitCommits[gitCommits[c].parent].contents[f]
        BY <2>2 DEF CommitsFit, Past, Contents
      <3>2. gitCommits[c].parent # 0 => gitCommits[c].parent \in DOMAIN gitCommits
        BY <1>2, <2>2, <3>1
      <3>3. QED
        BY <1>3, <2>2, <3>1, <3>2
    <2>3. QED
      BY <1>3, <2>1, <2>2
  <1>7. CommitsFit'
    BY <1>5, <1>6 DEF CommitsFit, Past, Contents
  <1>8. QED
    BY <1>3, <1>7

\* GitCommits adds a commit to the current branch.
LEMMA GitCommitsKeeps ==
  ASSUME CommitsFit, HeadsFit, NEW planned, GitCommits(planned),
         \A f \in GitFiles \ planned : index[f] = HeadContents[f]
  PROVE  /\ CommitsFit' /\ HeadsFit' /\ Len(gitCommits') = Len(gitCommits) + 1 /\ IndexClean({})' /\ merging' = 0
         /\ \A b \in GitBranches \ {current} : gitHeads'[b] = gitHeads[b]
         /\ gitHeads'[current'] = Len(gitCommits) + 1 /\ current' = current
         /\ Past(gitHeads[current])' = Past(gitHeads[current]) \cup (IF merging = 0 THEN {} ELSE Past(merging)) \cup {Len(gitCommits) + 1}
  <1> DEFINE new == Len(gitCommits) + 1
             past == Past(gitHeads[current]) \cup (IF merging = 0 THEN {} ELSE Past(merging)) \cup {new}
             x == [contents |-> index, past |-> past, parent |-> gitHeads[current], planned |-> planned]
  <1>1. /\ gitCommits' = Append(gitCommits, x) /\ gitHeads' = [gitHeads EXCEPT ![current] = new] /\ merging' = 0
        /\ UNCHANGED <<tree, index, unmerged, current, origin>>
    BY DEF GitCommits
  <1>2. Len(gitCommits) \in Nat /\ DOMAIN gitCommits = 1 .. Len(gitCommits)
    BY LengthFits
  <1>3. /\ current \in GitBranches /\ gitHeads[current] \in DOMAIN gitCommits /\ merging \in DOMAIN gitCommits \cup {0}
        /\ DOMAIN gitHeads = GitBranches
    BY DEF HeadsFit
  <1>4. \A p \in past : p \in Nat /\ p <= Len(gitCommits) + 1
    <2>1. \A c \in DOMAIN gitCommits : c <= Len(gitCommits) /\ \A p \in Past(c) : p \in Nat /\ p <= c
      BY <1>2 DEF CommitsFit
    <2>2. \A p \in Past(gitHeads[current]) : p \in Nat /\ p <= Len(gitCommits) + 1
      BY <1>2, <1>3, <2>1
    <2>3. merging # 0 => \A p \in Past(merging) : p \in Nat /\ p <= Len(gitCommits) + 1
      BY <1>2, <1>3, <2>1
    <2>4. QED
      BY <1>2, <2>2, <2>3
  <1>5. x.parent = gitHeads[current] /\ x.past = past /\ x.planned = planned /\ x.contents = index
    OBVIOUS
  <1> HIDE DEF x, past
  <1>6. /\ CommitsFit' /\ Len(gitCommits') = Len(gitCommits) + 1
        /\ DOMAIN gitCommits' = DOMAIN gitCommits \cup {Len(gitCommits) + 1}
        /\ gitCommits'[Len(gitCommits) + 1] = x /\ \A c \in DOMAIN gitCommits : gitCommits'[c] = gitCommits[c]
    BY <1>1, <1>3, <1>4, <1>5, CommitAdded DEF HeadContents
  <1>7. /\ gitHeads'[current] = new /\ DOMAIN gitHeads' = GitBranches
        /\ \A b \in GitBranches \ {current} : gitHeads'[b] = gitHeads[b]
    BY <1>1, <1>3
  <1>8. HeadsFit'
    BY <1>1, <1>2, <1>3, <1>6, <1>7 DEF HeadsFit
  <1>9. IndexClean({})'
    BY <1>1, <1>5, <1>6, <1>7 DEF IndexClean, HeadContents, Contents
  <1>10. Past(gitHeads[current])' = past
    BY <1>1, <1>5, <1>6, <1>7 DEF Past
  <1>11. QED
    BY <1>1, <1>6, <1>7, <1>8, <1>9, <1>10 DEF past

\* git pull.
LEMMA GitPullsKeeps ==
  ASSUME CommitsFit, HeadsFit, GitPulls
  PROVE  CommitsFit' /\ HeadsFit' /\ current' = current
  <1>1. Len(gitCommits) \in Nat /\ DOMAIN gitCommits = 1 .. Len(gitCommits)
    BY LengthFits
  <1>2. /\ current \in GitBranches /\ gitHeads[current] \in DOMAIN gitCommits /\ origin \in DOMAIN gitCommits
        /\ DOMAIN gitHeads = GitBranches
    BY DEF HeadsFit
  <1>3. CASE UNCHANGED <<merging, gitCommits, current, origin>> /\ (gitHeads' = gitHeads \/ gitHeads' = [gitHeads EXCEPT ![current] = origin])
    BY <1>1, <1>2, <1>3 DEF CommitsFit, HeadsFit, Past, Contents
  <1>4. CASE GitMerges(origin)
    BY <1>2, <1>4 DEF GitMerges, CommitsFit, HeadsFit, Past, Contents
  <1>5. ASSUME NEW y, gitHeads' = [gitHeads EXCEPT ![current] = Len(gitCommits) + 1],
               gitCommits' = Append(gitCommits, [contents |-> y, past |-> Past(gitHeads[current]) \cup Past(origin) \cup {Len(gitCommits) + 1},
                                                 parent |-> gitHeads[current], planned |-> GitFiles]),
               UNCHANGED <<merging, current, origin>>
        PROVE  CommitsFit' /\ HeadsFit'
    <2> DEFINE past == Past(gitHeads[current]) \cup Past(origin) \cup {Len(gitCommits) + 1}
               x == [contents |-> y, past |-> past, parent |-> gitHeads[current], planned |-> GitFiles]
    <2>1. \A c \in DOMAIN gitCommits : c <= Len(gitCommits) /\ \A p \in Past(c) : p \in Nat /\ p <= c
      BY <1>1 DEF CommitsFit
    <2>2. \A p \in past : p \in Nat /\ p <= Len(gitCommits) + 1
      BY <1>1, <1>2, <2>1
    <2>3. x.parent = gitHeads[current] /\ x.past = past /\ x.planned = GitFiles
      OBVIOUS
    <2>4. gitCommits' = Append(gitCommits, x)
      BY <1>5
    <2> HIDE DEF x, past
    <2>5. CommitsFit' /\ DOMAIN gitCommits' = DOMAIN gitCommits \cup {Len(gitCommits) + 1}
      BY <1>2, <2>2, <2>3, <2>4, CommitAdded
    <2>6. HeadsFit'
      BY <1>1, <1>2, <1>5, <2>5 DEF HeadsFit
    <2>7. QED
      BY <2>5, <2>6
  <1>6. QED
    BY <1>3, <1>4, <1>5 DEF GitPulls, GitMerges


LEMMA SameCommits ==
  ASSUME CommitsFit, UNCHANGED gitCommits
  PROVE  CommitsFit'
  BY DEF CommitsFit, Past, Contents

\* Every command of an operation.
LEMMA PerformsKeeps ==
  ASSUME GitInv, Performs
  PROVE  CommitsFit' /\ HeadsFit'
  <1>1. /\ CommitsFit /\ HeadsFit
        /\ gitOp.kind \in {"checkout", "merge"} => gitOp.branch \in GitBranches /\ gitHeads[gitOp.branch] # 0
        /\ gitOp.kind = "create" => gitOp.branch \in GitBranches
        /\ gitOp.kind = "delete" => gitOp.branch # current
    BY DEF GitInv, GitOpFits
  <1>2. CASE UNCHANGED repository
    BY <1>1, <1>2, SameCommits DEF repository, HeadsFit
  <1>3. CASE UNCHANGED <<merging, gitCommits, gitHeads, current, origin>>
    BY <1>1, <1>3, SameCommits DEF HeadsFit
  <1>4. CASE gitOp.kind = "commit" /\ GitCommits(GitFiles)
    BY <1>1, <1>4, GitCommitsKeeps
  <1>5. CASE gitOp.kind = "checkout" /\ GitChecksOut(gitOp.branch)
    BY <1>1, <1>5, SameCommits DEF GitChecksOut, HeadsFit
  <1>6. CASE /\ gitOp.kind = "create" /\ gitHeads' = [gitHeads EXCEPT ![gitOp.branch] = gitHeads[current]] /\ current' = gitOp.branch
             /\ UNCHANGED <<merging, gitCommits, origin>>
    BY <1>1, <1>6, SameCommits DEF HeadsFit
  <1>7. CASE /\ gitOp.kind = "delete" /\ gitHeads' = [gitHeads EXCEPT ![gitOp.branch] = 0]
             /\ UNCHANGED <<merging, gitCommits, current, origin>>
    BY <1>1, <1>7, SameCommits DEF HeadsFit
  <1>8. CASE gitOp.kind = "merge" /\ GitMerges(gitHeads[gitOp.branch])
    BY <1>1, <1>8, SameCommits DEF GitMerges, HeadsFit
  <1>9. CASE merging' = 0 /\ UNCHANGED <<gitCommits, gitHeads, current, origin>>
    BY <1>1, <1>9, SameCommits DEF HeadsFit
  <1>10. CASE gitOp.kind = "pull" /\ GitPulls
    BY <1>1, <1>10, GitPullsKeeps
  <1>11. QED
    BY <1>2, <1>3, <1>4, <1>5, <1>6, <1>7, <1>8, <1>9, <1>10 DEF Performs

\* No operation under way.
LEMMA NoneUnderWay ==
  ASSUME gitOp' = NoOp
  PROVE  GitOpFits' /\ GroupedFits'
  <1>1. DOMAIN gitOp' = DOMAIN NoOp
    OBVIOUS
  <1>2. gitOp'.kind = "none"
    BY DEF NoOp
  <1>3. GitOpFits'
    BY <1>1, <1>2 DEF GitOpFits, NoOp
  <1>4. GroupedFits'
    BY <1>2 DEF GroupedFits
  <1>5. QED
    BY <1>3, <1>4

\* A command ends its operation, or leaves it to read the folder or to push.
LEMMA GitCommandKeeps ==
  ASSUME GitInv, GitCommand
  PROVE  GitInv'
  <1>1. CommitsFit' /\ HeadsFit'
    BY PerformsKeeps DEF GitCommand
  <1>2. CASE gitOp' = NoOp
    BY <1>1, <1>2, NoneUnderWay DEF GitInv
  <1>3. ASSUME NEW s \in {"read", "push"}, gitOp' = [gitOp EXCEPT !.step = s], s = "read" => Reloads(gitOp.kind)
        PROVE  GitInv'
    <2>1. /\ DOMAIN gitOp = DOMAIN NoOp
          /\ gitOp.kind \in {"checkout", "merge"} => gitOp.branch \in GitBranches /\ gitHeads[gitOp.branch] # 0
          /\ gitOp.kind = "create" => gitOp.branch \in GitBranches
          /\ gitOp.kind = "delete" => gitOp.branch # current
      BY DEF GitInv, GitOpFits
    <2>2. gitOp'.kind = gitOp.kind /\ gitOp'.branch = gitOp.branch /\ DOMAIN gitOp' = DOMAIN gitOp
      BY <1>3, <2>1 DEF NoOp
    <2>3. gitOp.kind \in {"checkout", "merge"} => gitHeads' = gitHeads
      BY DEF GitCommand, Performs, GitChecksOut, GitMerges
    <2>4. gitOp.kind = "delete" => current' = current
      BY DEF GitCommand, Performs
    <2>5. GitOpFits'
      BY <2>1, <2>2, <2>3, <2>4 DEF GitOpFits, NoOp
    <2>6. GroupedFits'
      BY <2>2 DEF GroupedFits, GitCommand
    <2>7. QED
      BY <1>1, <2>5, <2>6 DEF GitInv
  <1>4. QED
    BY <1>2, <1>3 DEF GitCommand

\* What the rest of the editor does leaves the operation as it is.
LEMMA QuietKeeps ==
  ASSUME GitInv, UNCHANGED <<repository, gitOp>>
  PROVE  GitInv'
  <1>1. UNCHANGED <<index, merging, gitCommits, gitHeads, current, origin, gitOp>>
    BY DEF repository
  <1>2. CommitsFit' /\ HeadsFit' /\ GitOpFits'
    BY <1>1, SameCommits DEF GitInv, HeadsFit, GitOpFits, NoOp
  <1>3. UNCHANGED <<HeadContents, MadeSince>>
    BY <1>1 DEF HeadContents, Contents, MadeSince, Past
  <1>4. GroupedFits'
    BY <1>1, <1>3 DEF GitInv, GroupedFits, IndexClean
  <1>5. QED
    BY <1>2, <1>4 DEF GitInv

\* A button starts an operation.
LEMMA BeginKeeps ==
  ASSUME GitInv, NEW o, BeginGit(o), DOMAIN o = DOMAIN NoOp,
         o.kind \in {"checkout", "merge"} => o.branch \in GitBranches /\ gitHeads[o.branch] # 0,
         o.kind = "create" => o.branch \in GitBranches,
         o.kind = "delete" => o.branch # current,
         o.kind = "grouped" => o.step \in {"preflight", "git"} /\ o.done = 0 /\ (o.fresh => IndexClean(o.files))
  PROVE  GitInv'
  <1>1. gitOp' = o /\ UNCHANGED <<index, merging, gitCommits, gitHeads, current, origin>>
    BY DEF BeginGit, repository
  <1>2. CommitsFit' /\ HeadsFit'
    BY <1>1, SameCommits DEF GitInv, HeadsFit
  <1>3. GitOpFits'
    BY <1>1 DEF GitOpFits, NoOp
  <1>4. o.fresh /\ o.kind = "grouped" => IndexClean(o.files)'
    BY <1>1 DEF IndexClean, HeadContents, Contents
  <1>5. GroupedFits'
    BY <1>1, <1>4 DEF GroupedFits
  <1>6. QED
    BY <1>2, <1>3, <1>5 DEF GitInv

\* A step of an operation that is not the start or the end of it.
LEMMA GoesOn ==
  ASSUME GitInv, CommitsFit', HeadsFit', UNCHANGED <<gitHeads, current>>, GroupedFits',
         DOMAIN gitOp' = DOMAIN gitOp, gitOp'.kind = gitOp.kind, gitOp'.branch = gitOp.branch
  PROVE  GitInv'
  <1>1. GitOpFits'
    BY DEF GitInv, GitOpFits, NoOp
  <1>2. QED
    BY <1>1 DEF GitInv

LEMMA GroupUnstagesKeeps ==
  ASSUME GitInv, GroupUnstages
  PROVE  GitInv'
  <1>1. /\ gitOp.kind = "grouped" /\ gitOp.step = "git" /\ index' = OnFiles(index, HeadContents)
        /\ gitOp' = [gitOp EXCEPT !.step = "stage", !.from = Len(gitCommits)]
        /\ UNCHANGED <<unmerged, merging, gitCommits, gitHeads, current, origin>>
    BY DEF GroupUnstages
  <1>2. /\ DOMAIN gitOp = DOMAIN NoOp /\ gitOp.done = 0 /\ (gitOp.fresh => IndexClean(gitOp.files))
        /\ merging \in DOMAIN gitCommits \cup {0}
    BY <1>1 DEF GitInv, GitOpFits, GroupedFits, HeadsFit
  <1>3. Len(gitCommits) \in Nat /\ DOMAIN gitCommits = 1 .. Len(gitCommits)
    BY LengthFits DEF GitInv
  <1>4. /\ DOMAIN gitOp' = DOMAIN gitOp /\ gitOp'.step = "stage" /\ gitOp'.from = Len(gitCommits)
        /\ gitOp'.kind = gitOp.kind /\ gitOp'.branch = gitOp.branch /\ gitOp'.done = gitOp.done /\ gitOp'.fresh = gitOp.fresh
    BY <1>1, <1>2 DEF NoOp
  <1>5. CommitsFit' /\ HeadsFit'
    BY <1>1, SameCommits DEF GitInv, HeadsFit
  <1>6. gitOp.fresh => IndexClean({})'
    BY <1>1, <1>2 DEF IndexClean, OnFiles, HeadContents, Contents
  <1>7. MadeSince' = {}
    <2>1. gitOp'.from + 1 .. Len(gitCommits') = {}
      BY <1>1, <1>3, <1>4
    <2>2. QED
      BY <2>1 DEF MadeSince
  <1>8. Cardinality(MadeSince') = 0
    BY <1>7, FS_EmptySet
  <1>9. GroupedFits'
    BY <1>1, <1>2, <1>3, <1>4, <1>6, <1>8 DEF GroupedFits
  <1>10. QED
    BY <1>1, <1>4, <1>5, <1>9, GoesOn

LEMMA GroupStagesKeeps ==
  ASSUME GitInv, GroupStages
  PROVE  GitInv'
  <1>1. /\ gitOp.kind = "grouped" /\ gitOp.step = "stage" /\ gitOp.left # <<>>
        /\ index' = [f \in GitFiles |-> IF f \in Head(gitOp.left) THEN tree[f] ELSE index[f]]
        /\ gitOp' = [gitOp EXCEPT !.step = "commit"]
        /\ UNCHANGED <<unmerged, merging, gitCommits, gitHeads, current, origin>>
    BY DEF GroupStages
  <1>2. /\ DOMAIN gitOp = DOMAIN NoOp /\ (gitOp.fresh => IndexClean({}))
        /\ gitOp.from \in Nat /\ gitOp.from <= Len(gitCommits) /\ merging <= gitOp.from /\ gitOp.done = Cardinality(MadeSince)
    BY <1>1 DEF GitInv, GitOpFits, GroupedFits
  <1>3. /\ DOMAIN gitOp' = DOMAIN gitOp /\ gitOp'.step = "commit" /\ gitOp'.from = gitOp.from /\ gitOp'.left = gitOp.left
        /\ gitOp'.kind = gitOp.kind /\ gitOp'.branch = gitOp.branch /\ gitOp'.done = gitOp.done /\ gitOp'.fresh = gitOp.fresh
    BY <1>1, <1>2 DEF NoOp
  <1>4. CommitsFit' /\ HeadsFit'
    BY <1>1, SameCommits DEF GitInv, HeadsFit
  <1>5. gitOp.fresh => IndexClean(Head(gitOp.left))'
    BY <1>1, <1>2, <1>3 DEF IndexClean, HeadContents, Contents
  <1>6. MadeSince' = MadeSince
    BY <1>1, <1>3 DEF MadeSince, Past
  <1>7. GroupedFits'
    <2>1. gitOp'.fresh => IndexClean(Head(gitOp.left))'
      BY <1>3, <1>5
    <2>2. gitOp'.from \in Nat /\ gitOp'.from <= Len(gitCommits') /\ merging' <= gitOp'.from /\ gitOp'.done = Cardinality(MadeSince')
      BY <1>1, <1>2, <1>3, <1>6
    <2>3. gitOp'.step = "commit" /\ gitOp'.left # <<>>
      BY <1>1, <1>3
    <2>4. QED
      BY <2>1, <2>2, <2>3 DEF GroupedFits
  <1>8. QED
    BY <1>1, <1>3, <1>4, <1>7, GoesOn

LEMMA GroupCommitsKeeps ==
  ASSUME GitInv, GroupCommits
  PROVE  GitInv'
  <1> DEFINE planned == IF gitOp.fresh THEN Head(gitOp.left) ELSE GitFiles
             new == Len(gitCommits) + 1
  <1>1. /\ gitOp.kind = "grouped" /\ gitOp.step = "commit" /\ GitCommits(planned)
        /\ gitOp' = [gitOp EXCEPT !.step = "stage", !.left = Tail(@), !.done = @ + 1]
    BY DEF GroupCommits
  <1>2. /\ DOMAIN gitOp = DOMAIN NoOp /\ (gitOp.fresh => IndexClean(Head(gitOp.left)))
        /\ gitOp.from \in Nat /\ gitOp.from <= Len(gitCommits) /\ merging <= gitOp.from /\ gitOp.done = Cardinality(MadeSince)
        /\ CommitsFit /\ HeadsFit
    BY <1>1 DEF GitInv, GitOpFits, GroupedFits
  <1>3. \A f \in GitFiles \ planned : index[f] = HeadContents[f]
    BY <1>2 DEF IndexClean
  <1>4. Len(gitCommits) \in Nat /\ DOMAIN gitCommits = 1 .. Len(gitCommits)
    BY <1>2, LengthFits
  <1> HIDE DEF planned
  <1>5. /\ CommitsFit' /\ HeadsFit' /\ Len(gitCommits') = new /\ IndexClean({})' /\ merging' = 0
        /\ \A b \in GitBranches \ {current} : gitHeads'[b] = gitHeads[b]
        /\ gitHeads'[current'] = new /\ current' = current
        /\ Past(gitHeads[current])' = Past(gitHeads[current]) \cup (IF merging = 0 THEN {} ELSE Past(merging)) \cup {new}
    BY <1>1, <1>2, <1>3, GitCommitsKeeps
  <1>6. /\ DOMAIN gitOp' = DOMAIN gitOp /\ gitOp'.step = "stage" /\ gitOp'.from = gitOp.from
        /\ gitOp'.kind = gitOp.kind /\ gitOp'.branch = gitOp.branch /\ gitOp'.done = gitOp.done + 1 /\ gitOp'.fresh = gitOp.fresh
    BY <1>1, <1>2 DEF NoOp
  <1>7. MadeSince' = MadeSince \cup {new}
    <2>1. merging # 0 => \A p \in Past(merging) : p \in Nat /\ p <= gitOp.from
      BY <1>2, <1>4 DEF CommitsFit, HeadsFit
    <2>2. \A c \in gitOp.from + 1 .. new : c \in Past(gitHeads[current])' <=> c \in Past(gitHeads[current]) \/ c = new
      BY <1>2, <1>4, <1>5, <2>1
    <2>3. MadeSince' = {c \in gitOp.from + 1 .. new : c \in Past(gitHeads[current])'}
      BY <1>5, <1>6 DEF MadeSince
    <2>4. gitOp.from + 1 .. new = (gitOp.from + 1 .. Len(gitCommits)) \cup {new}
      BY <1>2, <1>4
    <2>5. new \notin Past(gitHeads[current])
      BY <1>2, <1>4 DEF CommitsFit, HeadsFit
    <2>6. QED
      BY <2>2, <2>3, <2>4 DEF MadeSince
  <1>8. IsFiniteSet(MadeSince) /\ new \notin MadeSince
    <2>1. MadeSince \subseteq gitOp.from + 1 .. Len(gitCommits) /\ new \notin gitOp.from + 1 .. Len(gitCommits)
      BY <1>2, <1>4 DEF MadeSince
    <2>2. IsFiniteSet(gitOp.from + 1 .. Len(gitCommits))
      BY <1>2, <1>4, FS_Interval
    <2>3. QED
      BY <2>1, <2>2, FS_Subset
  <1>9. Cardinality(MadeSince') = gitOp'.done
    <2>1. Cardinality(MadeSince \cup {new}) = Cardinality(MadeSince) + 1
      BY <1>8, FS_AddElement
    <2>2. QED
      BY <1>2, <1>6, <1>7, <2>1
  <1>10. GroupedFits'
    BY <1>2, <1>4, <1>5, <1>6, <1>9 DEF GroupedFits
  <1>11. GitOpFits'
    BY <1>1, <1>2, <1>6 DEF GitOpFits
  <1>12. QED
    BY <1>5, <1>10, <1>11 DEF GitInv

\* A commit pushed by somebody else is on no branch of this repository.
LEMMA OthersPushKeeps ==
  ASSUME GitInv, NEW g \in GitFiles, OthersPush(g)
  PROVE  GitInv'
  <1> DEFINE new == Len(gitCommits) + 1
             x == [contents |-> [Contents(origin) EXCEPT ![g] = gitEdits + 1], past |-> Past(origin) \cup {new}, parent |-> origin, planned |-> GitFiles]
  <1>1. /\ gitCommits' = Append(gitCommits, x) /\ origin' = new
        /\ UNCHANGED <<index, merging, gitHeads, current, gitOp>>
    BY DEF OthersPush
  <1>2. CommitsFit /\ HeadsFit /\ GitOpFits /\ GroupedFits
    BY DEF GitInv
  <1>3. Len(gitCommits) \in Nat /\ DOMAIN gitCommits = 1 .. Len(gitCommits)
    BY <1>2, LengthFits
  <1>4. /\ current \in GitBranches /\ gitHeads[current] \in DOMAIN gitCommits /\ origin \in DOMAIN gitCommits
    BY <1>2 DEF HeadsFit
  <1>5. \A p \in x.past : p \in Nat /\ p <= Len(gitCommits) + 1
    <2>1. \A p \in Past(origin) : p \in Nat /\ p <= origin
      BY <1>2, <1>4 DEF CommitsFit
    <2>2. QED
      BY <1>3, <1>4, <2>1
  <1>6. x.parent = origin /\ x.planned = GitFiles
    OBVIOUS
  <1> HIDE DEF x
  <1>7. /\ CommitsFit' /\ Len(gitCommits') = Len(gitCommits) + 1
        /\ DOMAIN gitCommits' = DOMAIN gitCommits \cup {Len(gitCommits) + 1}
        /\ \A c \in DOMAIN gitCommits : gitCommits'[c] = gitCommits[c]
    BY <1>1, <1>2, <1>4, <1>5, <1>6, CommitAdded
  <1>8. HeadsFit'
    BY <1>1, <1>2, <1>3, <1>7 DEF HeadsFit
  <1>9. GitOpFits'
    BY <1>1, <1>2 DEF GitOpFits, NoOp
  <1>10. HeadContents' = HeadContents /\ Past(gitHeads[current])' = Past(gitHeads[current])
    BY <1>1, <1>4, <1>7 DEF HeadContents, Contents, Past
  <1>11. ASSUME gitOp.kind = "grouped", gitOp.step \in {"stage", "commit"}
         PROVE  MadeSince' = MadeSince
    <2>1. gitOp.from \in Nat
      BY <1>2, <1>11 DEF GroupedFits
    <2>2. gitOp.from + 1 .. Len(gitCommits) \subseteq gitOp.from + 1 .. new
      BY <1>3, <2>1
    <2>3. \A c \in Past(gitHeads[current]) : c \in gitOp.from + 1 .. new => c \in gitOp.from + 1 .. Len(gitCommits)
      <3>1. \A c \in Past(gitHeads[current]) : c \in Nat /\ c <= gitHeads[current]
        BY <1>2, <1>4 DEF CommitsFit
      <3>2. QED
        BY <1>3, <1>4, <2>1, <3>1
    <2>4. MadeSince' = {c \in gitOp.from + 1 .. new : c \in Past(gitHeads[current])}
      BY <1>1, <1>7, <1>10 DEF MadeSince
    <2>5. QED
      BY <2>2, <2>3, <2>4 DEF MadeSince
  <1>12. \A files : IndexClean(files) => IndexClean(files)'
    BY <1>1, <1>10 DEF IndexClean
  <1>13. GroupedFits'
    <2>1. CASE gitOp.kind # "grouped"
      BY <1>1, <2>1 DEF GroupedFits
    <2>2. CASE gitOp.kind = "grouped" /\ gitOp.step \in {"preflight", "git"}
      BY <1>1, <1>2, <1>12, <2>2 DEF GroupedFits
    <2>3. CASE gitOp.kind = "grouped" /\ gitOp.step \in {"stage", "commit"}
      <3>1. gitOp.from \in Nat /\ gitOp.from <= Len(gitCommits') /\ merging <= gitOp.from /\ gitOp.done = Cardinality(MadeSince')
        BY <1>2, <1>3, <1>7, <1>11, <2>3 DEF GroupedFits
      <3>2. QED
        BY <1>1, <1>2, <1>12, <2>3, <3>1 DEF GroupedFits
    <2>4. QED
      BY <1>1, <2>1, <2>2, <2>3 DEF GroupedFits
  <1>14. QED
    BY <1>7, <1>8, <1>9, <1>13 DEF GitInv

LEMMA GitInitHolds ==
  ASSUME GitInit
  PROVE  GitInv
  <1>1. /\ index = memory /\ merging = 0 /\ current = "main" /\ gitOp = NoOp /\ current \in GitBranches
    BY GitAssumptions DEF GitInit
  <1>2. CommitsFit /\ HeadsFit
    <2>1. CASE /\ gitCommits = <<FirstCommit(Blank, {1})>>
               /\ gitHeads = [b \in GitBranches |-> IF b = "main" THEN 1 ELSE 0] /\ origin = 1
      <3>1. DOMAIN gitCommits = {1} /\ gitCommits[1] = FirstCommit(Blank, {1}) /\ gitCommits \in Seq({gitCommits[1]})
        BY <2>1
      <3>2. {gitCommits[1]} = {gitCommits[c] : c \in DOMAIN gitCommits}
        BY <3>1
      <3>3. gitCommits[1].parent = 0 /\ gitCommits[1].past = {1} /\ gitCommits[1].planned = GitFiles
        BY <3>1 DEF FirstCommit
      <3>4. QED
        BY <1>1, <2>1, <3>1, <3>2, <3>3 DEF CommitsFit, HeadsFit, Past
    <2>2. ASSUME NEW x, NEW y, gitCommits = <<FirstCommit(Blank, {1}), FirstCommit(x, {1, 2}), FirstCommit(y, {1, 3})>>,
                 gitHeads = [b \in GitBranches |-> IF b = "main" THEN 2 ELSE 3], origin = 2
          PROVE  CommitsFit /\ HeadsFit
      <3>1. /\ DOMAIN gitCommits = {1, 2, 3} /\ gitCommits \in Seq({gitCommits[1], gitCommits[2], gitCommits[3]})
            /\ gitCommits[1] = FirstCommit(Blank, {1}) /\ gitCommits[2] = FirstCommit(x, {1, 2}) /\ gitCommits[3] = FirstCommit(y, {1, 3})
        BY <2>2
      <3>2. {gitCommits[1], gitCommits[2], gitCommits[3]} = {gitCommits[c] : c \in DOMAIN gitCommits}
        BY <3>1
      <3>3. /\ gitCommits[1].past = {1} /\ gitCommits[2].past = {1, 2} /\ gitCommits[3].past = {1, 3}
            /\ \A c \in DOMAIN gitCommits : gitCommits[c].parent = 0 /\ gitCommits[c].planned = GitFiles
        BY <3>1 DEF FirstCommit
      <3>4. CommitsFit
        BY <3>1, <3>2, <3>3 DEF CommitsFit, Past
      <3>5. HeadsFit
        BY <1>1, <2>2, <3>1 DEF HeadsFit
      <3>6. QED
        BY <3>4, <3>5
    <2>3. QED
      BY <2>1, <2>2 DEF GitInit
  <1>3. DOMAIN gitOp = DOMAIN NoOp /\ gitOp.kind = "none"
    BY <1>1 DEF NoOp
  <1>4. GitOpFits /\ GroupedFits
    BY <1>3 DEF GitOpFits, GroupedFits
  <1>5. QED
    BY <1>2, <1>4 DEF GitInv

\* Pressing a button.
LEMMA ButtonsKeep ==
  ASSUME GitInv,
         \/ RefreshStatus \/ SaveYaml \/ StageFiles \/ UnstageFiles \/ DiscardFiles \/ AbortMerge \/ PullProject \/ PushProject
         \/ \E b \in GitBranches : SwitchBranch(b) \/ CreateGitBranch(b) \/ DeleteGitBranch(b) \/ MergeBranch(b)
         \/ \E f \in GitFiles, side \in {"ours", "theirs"} : ResolveConflict(f, side)
         \/ \E push \in BOOLEAN : CreateCommit(push) \/ CreateGroupedCommits(push)
  PROVE  GitInv'
  <1>1. ASSUME NEW kind \in {"refresh", "save", "stage", "unstage", "discard", "commit", "abort", "resolve", "pull", "push"},
               NEW step, NEW files, NEW branch, NEW push, BeginGit(Begins(kind, step, files, branch, push))
        PROVE  GitInv'
    <2> DEFINE o == Begins(kind, step, files, branch, push)
    <2>1. DOMAIN o = DOMAIN NoOp /\ o.kind = kind
      BY DEF Begins, NoOp
    <2> HIDE DEF o
    <2>2. BeginGit(o)
      BY <1>1 DEF o
    <2>3. QED
      BY <2>1, <2>2, BeginKeeps
  <1>2. ASSUME NEW b \in GitBranches, NEW kind \in {"checkout", "create", "delete", "merge"}, BeginGit(Begins(kind, "git", {}, b, FALSE)),
               kind # "create" => gitHeads[b] # 0 /\ b # current
        PROVE  GitInv'
    <2> DEFINE o == Begins(kind, "git", {}, b, FALSE)
    <2>1. DOMAIN o = DOMAIN NoOp /\ o.kind = kind /\ o.branch = b
      BY DEF Begins, NoOp
    <2> HIDE DEF o
    <2>2. BeginGit(o)
      BY <1>2 DEF o
    <2>3. QED
      BY <1>2, <2>1, <2>2, BeginKeeps
  <1>3. ASSUME NEW push \in BOOLEAN, CreateGroupedCommits(push)
        PROVE  GitInv'
    <2> DEFINE o == [Begins("grouped", IF push THEN "preflight" ELSE "git", Unstageable, "", push) EXCEPT !.left = groups, !.fresh = (shown.staged = StatusNow.staged)]
    <2>1. shown.conflicted = {} /\ BeginGit(o)
      BY <1>3 DEF CreateGroupedCommits
    <2>2. DOMAIN o = DOMAIN NoOp
      BY DEF Begins, NoOp
    <2>3. o.kind = "grouped" /\ o.step = (IF push THEN "preflight" ELSE "git") /\ o.files = Unstageable /\ o.done = 0
      BY DEF Begins, NoOp
    <2>4. o.fresh <=> shown.staged = StatusNow.staged
      BY DEF Begins, NoOp
    <2>5. Unstageable = shown.staged
      BY <2>1 DEF Unstageable
    <2> HIDE DEF o
    <2>6. ASSUME o.fresh
          PROVE  IndexClean(o.files)
      <3>1. \A f \in GitFiles : index[f] # HeadContents[f] => f \in StatusNow.staged
        BY DEF StatusNow, GitStatus
      <3>2. o.files = StatusNow.staged
        BY <2>3, <2>4, <2>5, <2>6
      <3>3. QED
        BY <3>1, <3>2 DEF IndexClean
    <2>7. o.step \in {"preflight", "git"} /\ o.kind \notin {"checkout", "merge", "create", "delete"}
      BY <2>3
    <2>8. QED
      BY <2>1, <2>2, <2>3, <2>6, <2>7, BeginKeeps
  <1>4. CASE RefreshStatus \/ SaveYaml \/ StageFiles \/ UnstageFiles \/ DiscardFiles \/ AbortMerge \/ PullProject \/ PushProject
    BY <1>1, <1>4 DEF RefreshStatus, SaveYaml, StageFiles, UnstageFiles, DiscardFiles, AbortMerge, PullProject, PushProject
  <1>5. ASSUME NEW b \in GitBranches, SwitchBranch(b) \/ CreateGitBranch(b) \/ DeleteGitBranch(b) \/ MergeBranch(b)
        PROVE  GitInv'
    BY <1>2, <1>5 DEF SwitchBranch, CreateGitBranch, DeleteGitBranch, MergeBranch
  <1>6. ASSUME NEW f \in GitFiles, NEW side \in {"ours", "theirs"}, ResolveConflict(f, side)
        PROVE  GitInv'
    BY <1>1, <1>6 DEF ResolveConflict
  <1>7. ASSUME NEW push \in BOOLEAN, CreateCommit(push)
        PROVE  GitInv'
    BY <1>1, <1>7 DEF CreateCommit
  <1>8. QED
    BY <1>3, <1>4, <1>5, <1>6, <1>7

\* The steps of an operation that leave the repository alone.
LEMMA OtherStepsKeep ==
  ASSUME GitInv, ReadsFolder \/ SetsWorkspace \/ GroupsDone \/ GroupFails \/ PreflightPasses \/ PushLands \/ OpFails
  PROVE  GitInv'
  <1>1. /\ UNCHANGED <<index, merging, gitCommits, gitHeads, current>> /\ (origin' = origin \/ origin' = gitHeads[current])
    BY DEF ReadsFolder, SetsWorkspace, GroupsDone, GroupFails, PreflightPasses, PushLands, OpFails, repository
  <1>2. CommitsFit' /\ HeadsFit'
    BY <1>1, SameCommits DEF GitInv, HeadsFit
  <1>3. DOMAIN gitOp = DOMAIN NoOp
    BY DEF GitInv, GitOpFits
  <1>4. CASE gitOp' = NoOp
    BY <1>2, <1>4, NoneUnderWay DEF GitInv
  <1>5. CASE ReadsFolder
    <2>1. gitOp.step = "read" /\ gitOp' = [gitOp EXCEPT !.step = "set", !.loaded = tree]
      BY <1>5 DEF ReadsFolder
    <2>2. DOMAIN gitOp' = DOMAIN gitOp /\ gitOp'.kind = gitOp.kind /\ gitOp'.branch = gitOp.branch /\ gitOp'.step = "set"
      BY <1>3, <2>1 DEF NoOp
    <2>3. GroupedFits'
      BY <2>2 DEF GroupedFits
    <2>4. QED
      BY <1>1, <1>2, <2>2, <2>3, GoesOn
  <1>6. CASE GroupsDone /\ gitOp' # NoOp
    <2>1. gitOp' = [gitOp EXCEPT !.step = "push"]
      BY <1>6 DEF GroupsDone
    <2>2. DOMAIN gitOp' = DOMAIN gitOp /\ gitOp'.kind = gitOp.kind /\ gitOp'.branch = gitOp.branch /\ gitOp'.step = "push"
      BY <1>3, <2>1 DEF NoOp
    <2>3. GroupedFits'
      BY <2>2 DEF GroupedFits
    <2>4. QED
      BY <1>1, <1>2, <2>2, <2>3, GoesOn
  <1>7. CASE PreflightPasses
    <2>1. gitOp.step = "preflight" /\ gitOp' = [gitOp EXCEPT !.step = "git"]
      BY <1>7 DEF PreflightPasses
    <2>2. /\ DOMAIN gitOp' = DOMAIN gitOp /\ gitOp'.kind = gitOp.kind /\ gitOp'.branch = gitOp.branch /\ gitOp'.step = "git"
          /\ gitOp'.files = gitOp.files /\ gitOp'.done = gitOp.done /\ gitOp'.fresh = gitOp.fresh
      BY <1>3, <2>1 DEF NoOp
    <2>3. gitOp.kind = "grouped" => gitOp.done = 0 /\ (gitOp.fresh => IndexClean(gitOp.files))
      BY <2>1 DEF GitInv, GroupedFits
    <2>4. IndexClean(gitOp.files)' <=> IndexClean(gitOp.files)
      BY <1>1, <2>2 DEF IndexClean, HeadContents, Contents
    <2>5. GroupedFits'
      BY <2>2, <2>3, <2>4 DEF GroupedFits
    <2>6. QED
      BY <1>1, <1>2, <2>2, <2>5, GoesOn
  <1>8. QED
    BY <1>4, <1>5, <1>6, <1>7 DEF SetsWorkspace, GroupFails, PushLands, OpFails

LEMMA GitNextKeeps ==
  ASSUME GitInv, [GitNext]_gitVars
  PROVE  GitInv'
  <1>1. CASE UNCHANGED gitVars
    BY <1>1, QuietKeeps DEF gitVars, repository
  <1>2. ASSUME NEW f \in GitFiles, EditFile(f) \/ OthersPush(f)
        PROVE  GitInv'
    BY <1>2, QuietKeeps, OthersPushKeeps DEF EditFile
  <1>3. CASE SaveStarts \/ SaveEnds \/ \E plan \in Plans : SuggestCommits(plan)
    BY <1>3, QuietKeeps DEF SaveStarts, SaveEnds, SuggestCommits
  <1>4. CASE GitCommand \/ GroupUnstages \/ GroupStages \/ GroupCommits
    BY <1>4, GitCommandKeeps, GroupUnstagesKeeps, GroupStagesKeeps, GroupCommitsKeeps
  <1>5. CASE ReadsFolder \/ SetsWorkspace \/ GroupsDone \/ GroupFails \/ PreflightPasses \/ PushLands \/ OpFails
    BY <1>5, OtherStepsKeep
  <1>6. QED
    BY <1>1, <1>2, <1>3, <1>4, <1>5, ButtonsKeep DEF GitNext

(* Every commit of a reviewed plan changes the files of its group only,    *)
(* and the groups reported as done are the commits on the branch, in every *)
(* behaviour: however many files, branches, groups and edits, with other   *)
(* people pushing, saves writing the folder between the steps and any step *)
(* failing (ProjectWorkbench.tsx createGroupedCommits).                    *)
THEOREM GroupsStayExact == GitSpec => []GroupsExact
  <1>1. GitInit => GitInv
    BY GitInitHolds
  <1>2. GitInv /\ [GitNext]_gitVars => GitInv'
    BY GitNextKeeps
  <1>3. GitInv => GroupsExact
    <2> SUFFICES ASSUME GitInv
                 PROVE  GroupsExact
      OBVIOUS
    <2>1. \A c \in DOMAIN gitCommits : \A f \in GitFiles \ gitCommits[c].planned :
             gitCommits[c].contents[f] = Contents(gitCommits[c].parent)[f]
      BY DEF GitInv, CommitsFit
    <2>2. gitOp.kind = "grouped" /\ gitOp.step \in {"stage", "commit"} => gitOp.done = Cardinality(MadeSince)
      BY DEF GitInv, GroupedFits
    <2>3. QED
      BY <2>1, <2>2 DEF GroupsExact, MadeSince
  <1>4. QED
    BY <1>1, <1>2, <1>3, PTL DEF GitSpec

(***************************************************************************)
(* The pull of control planes: KonnectSound.                               *)
(***************************************************************************)

PulledProjects == [plane : Planes \cup {"none"}, requests : [Routes -> {"absent", "pulled", "edited"}]]
PullStates == [stage : {"idle", "regions", "planes", "delete"}, regions : SUBSET Regions,
               region : Regions \cup {"none"}, planes : SUBSET Planes, read : SUBSET PulledIds,
               unread : SUBSET PulledIds, discovered : SUBSET Planes, successful : SUBSET Regions,
               removing : SUBSET PulledIds]

KonnectTypeOK ==
    /\ gateway \in [Planes -> [there : BOOLEAN, routes : SUBSET Routes]]
    /\ projects \in [PulledIds -> PulledProjects] /\ pull \in PullStates
    /\ \A i \in Live : projects[i].plane \in Planes

Pulling == pull.stage \in {"regions", "planes"}
HasProject(p) == \E i \in Live : projects[i].plane = p
Created == Live \ pull.read

\* While planes are pulled, every project that was read is still there; what
\* the pull has created is of planes it had no project for, one of each, in
\* regions it has dealt with.
ReadFits == Pulling => pull.read \subseteq Live
CreatedFits ==
    Pulling /\ pull.unread = {} =>
        /\ \A i, j \in Created : projects[i].plane = projects[j].plane => i = j
        /\ \A i \in Created : /\ \A j \in pull.read : projects[j].plane # projects[i].plane
                              /\ RegionOf[projects[i].plane] \notin pull.regions
                              /\ projects[i].plane \notin pull.planes

\* A region that was seen in full has a project for each plane discovered there.
RegionsFit ==
    /\ Pulling => /\ pull.regions \cap pull.successful = {}
                  /\ \A p \in pull.discovered :
                        /\ RegionOf[p] \notin pull.regions
                        /\ RegionOf[p] \in pull.successful => HasProject(p)
    /\ pull.stage = "regions" => pull.planes = {}
    /\ pull.stage = "planes" =>
         /\ pull.region \in Regions \ (pull.regions \cup pull.successful)
         /\ \A p \in pull.planes : RegionOf[p] = pull.region
         /\ \A p \in pull.discovered : RegionOf[p] = pull.region => p \in pull.planes \/ HasProject(p)

\* What is still to be deleted is of a region seen in full, and not needed;
\* what stays is, if nothing was skipped, one project of each plane.
RemovalFits ==
    pull.stage = "delete" =>
        /\ \A i \in pull.removing :
             /\ i \in Live /\ RegionOf[projects[i].plane] \in pull.successful
             /\ \/ projects[i].plane \notin pull.discovered
                \/ \E j \in Live \ pull.removing : j < i /\ projects[j].plane = projects[i].plane
        /\ pull.unread = {} /\ pull.successful = Regions =>
             \A p \in pull.discovered :
                /\ \E i \in Live \ pull.removing : projects[i].plane = p
                /\ \A i, j \in Live \ pull.removing : projects[i].plane = p /\ projects[j].plane = p => i = j

KonnectInv == KonnectTypeOK /\ ReadFits /\ CreatedFits /\ RegionsFit /\ RemovalFits

LEMMA LeastOf ==
  ASSUME NEW S \in SUBSET PulledIds, S # {}
  PROVE  \E i \in S : \A j \in S : i <= j
<1>1. S \in SUBSET Nat
  BY DEF PulledIds
<1>2. PICK i \in S : \A j \in S : ~ (<<j, i>> \in OpToRel(<, Nat))
  BY <1>1, WFMin, NatLessThanWellFounded, Zenon
<1>3. \A j \in S : ~ (j < i)
  BY <1>1, <1>2, Zenon DEF OpToRel
<1>4. QED
  BY <1>1, <1>3

\* The project kept of a plane, where one was read.
LEMMA FirstFits ==
  ASSUME KonnectInv, NEW p
  PROVE  /\ \A i \in FirstOf(pull.read, p) : i \in pull.read /\ projects[i].plane = p
         /\ \A i \in pull.read : projects[i].plane = p =>
               \E j \in FirstOf(pull.read, p) : j <= i
         /\ \A i, j \in FirstOf(pull.read, p) : i = j
<1> DEFINE candidates == {i \in pull.read : projects[i].plane = p}
<1>1. candidates \in SUBSET PulledIds
  BY DEF KonnectInv, KonnectTypeOK, PullStates
<1>2. FirstOf(pull.read, p) = {i \in candidates : \A j \in candidates : i <= j}
  BY DEF FirstOf
<1>3. ASSUME NEW i \in candidates  PROVE \E j \in FirstOf(pull.read, p) : j <= i
  <2>1. PICK j \in candidates : \A k \in candidates : j <= k
    BY <1>1, <1>3, LeastOf
  <2>2. QED
    BY <1>2, <2>1
<1>4. ASSUME NEW i \in FirstOf(pull.read, p), NEW j \in FirstOf(pull.read, p)  PROVE i = j
  <2>1. i \in Nat /\ j \in Nat /\ i <= j /\ j <= i
    BY <1>1, <1>2 DEF PulledIds
  <2>2. QED
    BY <2>1
<1>5. QED
  BY <1>2, <1>3, <1>4

LEMMA NoProjectFits == NoProject \in PulledProjects /\ NoProject.plane = "none"
                       /\ \A r \in Routes : NoProject.requests[r] = "absent"
BY DEF NoProject, PulledProjects

LEMMA ReconciledFits ==
  ASSUME NEW project \in PulledProjects, NEW p \in Planes, NEW received \in SUBSET Routes
  PROVE  /\ Reconciled(project, p, received) \in PulledProjects
         /\ Reconciled(project, p, received).plane = p
         /\ \A r \in received : project.requests[r] = "edited" =>
                                  Reconciled(project, p, received).requests[r] = "edited"
<1>1. project.requests \in [Routes -> {"absent", "pulled", "edited"}]
  BY DEF PulledProjects
<1>2. RequestsFor(project.requests, received) \in [Routes -> {"absent", "pulled", "edited"}]
  BY <1>1 DEF RequestsFor, LocalPart
<1>3. \A r \in received : project.requests[r] = "edited" => RequestsFor(project.requests, received)[r] = "edited"
  BY <1>1 DEF RequestsFor, LocalPart
<1>4. QED
  BY <1>2, <1>3 DEF Reconciled, PulledProjects

\* A step of the pull that leaves the projects alone.
LEMMA ProjectsStay ==
  ASSUME KonnectInv, projects' = projects
  PROVE  Live' = Live /\ \A p : HasProject(p)' = HasProject(p)
BY DEF Live, HasProject

LEMMA KonnectInvInit == KonnectInit => KonnectInv
<1> SUFFICES ASSUME KonnectInit PROVE KonnectInv
  OBVIOUS
<1>1. projects = [i \in PulledIds |-> NoProject] /\ Live = {}
  BY DEF KonnectInit, Live
<1>2. gateway \in [Planes -> [there : BOOLEAN, routes : SUBSET Routes]]
  BY DEF KonnectInit
<1>3. pull = NoPull /\ pull \in PullStates /\ pull.stage = "idle"
  BY DEF KonnectInit, NoPull, PullStates
<1>4. QED
  BY <1>1, <1>2, <1>3, NoProjectFits
     DEF KonnectInv, KonnectTypeOK, ReadFits, CreatedFits, RegionsFit, RemovalFits, Pulling

LEMMA StartPullKeeps ==
  ASSUME KonnectInv, NEW unreadable \in SUBSET Live, StartPull(unreadable)
  PROVE  KonnectInv'
<1>1. /\ pull' = [NoPull EXCEPT !.stage = "regions", !.regions = Regions, !.read = Live \ unreadable, !.unread = unreadable]
      /\ projects' = projects /\ gateway' = gateway
  BY DEF StartPull
<1>2. Live' = Live /\ Live \subseteq PulledIds
  BY <1>1, ProjectsStay DEF Live
<1>3. /\ pull'.stage = "regions" /\ pull'.regions = Regions /\ pull'.read = Live \ unreadable
      /\ pull'.unread = unreadable /\ pull'.planes = {} /\ pull'.discovered = {} /\ pull'.successful = {}
      /\ pull' \in PullStates
  BY <1>1, <1>2 DEF NoPull, PullStates
<1>4. KonnectTypeOK'
  BY <1>1, <1>2, <1>3 DEF KonnectInv, KonnectTypeOK
<1>5. ReadFits' /\ CreatedFits'
  BY <1>2, <1>3 DEF ReadFits, CreatedFits, Created
<1>6. RegionsFit' /\ RemovalFits'
  BY <1>3 DEF RegionsFit, RemovalFits
<1>7. QED
  BY <1>4, <1>5, <1>6 DEF KonnectInv

LEMMA RegionListedKeeps ==
  ASSUME KonnectInv, NEW region \in Regions, RegionListed(region)
  PROVE  KonnectInv'
<1> DEFINE listed == {p \in Planes : RegionOf[p] = region /\ gateway[p].there}
<1>1. /\ pull.stage = "regions" /\ region \in pull.regions /\ projects' = projects /\ gateway' = gateway
      /\ pull' = [pull EXCEPT !.stage = "planes", !.region = region, !.regions = @ \ {region}, !.planes = listed,
                               !.discovered = @ \cup listed]
  BY DEF RegionListed
<1>2. listed \in SUBSET Planes /\ \A p \in listed : RegionOf[p] = region
  OBVIOUS
<1> HIDE DEF listed
<1>3. pull \in PullStates
  BY DEF KonnectInv, KonnectTypeOK
<1>4. /\ pull'.stage = "planes" /\ pull'.region = region /\ pull'.regions = pull.regions \ {region}
      /\ pull'.planes = listed /\ pull'.discovered = pull.discovered \cup listed
      /\ pull'.read = pull.read /\ pull'.unread = pull.unread /\ pull'.successful = pull.successful
      /\ pull' \in PullStates
  BY <1>1, <1>2, <1>3 DEF PullStates
<1>5. Live' = Live /\ Created' = Created /\ \A p : HasProject(p)' = HasProject(p)
  BY <1>1, <1>4, ProjectsStay DEF Created
<1>6. KonnectTypeOK'
  BY <1>1, <1>4, <1>5 DEF KonnectInv, KonnectTypeOK
<1>7. ReadFits' /\ CreatedFits'
  BY <1>1, <1>2, <1>4, <1>5 DEF KonnectInv, ReadFits, CreatedFits, Pulling
<1>8. RegionsFit'
  BY <1>1, <1>2, <1>4, <1>5 DEF KonnectInv, RegionsFit, Pulling
<1>9. RemovalFits'
  BY <1>4 DEF RemovalFits
<1>10. QED
  BY <1>6, <1>7, <1>8, <1>9 DEF KonnectInv

\* A region is left: refused, seen as empty, cut short or seen in full.
NotPulled(regions, seen) ==
    \/ pull' = [pull EXCEPT !.regions = regions, !.successful = seen] /\ pull.stage = "regions"
    \/ /\ pull' = [pull EXCEPT !.stage = "regions", !.region = "none", !.planes = {}, !.successful = seen]
       /\ pull.stage = "planes" /\ regions = pull.regions

LEMMA RegionLeft ==
  ASSUME KonnectInv, Pulling, projects' = projects, gateway' = gateway, NEW regions, NEW seen, NotPulled(regions, seen),
         regions \subseteq pull.regions, seen \subseteq Regions,
         pull.successful \subseteq seen, regions \cap seen = {},
         \A p \in pull.discovered : RegionOf[p] \in seen => HasProject(p)
  PROVE  KonnectInv'
<1>1. pull \in PullStates
  BY DEF KonnectInv, KonnectTypeOK
<1>2. "none" \in Regions \cup {"none"} /\ {} \in SUBSET Planes /\ regions \in SUBSET Regions
  BY <1>1 DEF PullStates
<1>3. /\ pull'.stage = "regions" /\ pull'.regions = regions /\ pull'.planes = {}
      /\ pull'.discovered = pull.discovered /\ pull'.read = pull.read /\ pull'.unread = pull.unread
      /\ pull'.successful = seen /\ pull' \in PullStates
  <2>1. CASE pull' = [pull EXCEPT !.regions = regions, !.successful = seen] /\ pull.stage = "regions"
    <3>1. pull.planes = {}
      BY <2>1 DEF KonnectInv, RegionsFit
    <3>2. QED
      BY <1>1, <1>2, <2>1, <3>1 DEF PullStates
  <2>2. CASE /\ pull' = [pull EXCEPT !.stage = "regions", !.region = "none", !.planes = {}, !.successful = seen]
             /\ pull.stage = "planes" /\ regions = pull.regions
    BY <1>1, <1>2, <2>2 DEF PullStates
  <2>3. QED
    BY <2>1, <2>2 DEF NotPulled
<1>4. Live' = Live /\ Created' = Created /\ \A p : HasProject(p)' = HasProject(p)
  BY <1>3, ProjectsStay DEF Created
<1>5. KonnectTypeOK'
  BY <1>3, <1>4 DEF KonnectInv, KonnectTypeOK
<1>6. ReadFits' /\ CreatedFits'
  BY <1>3, <1>4 DEF KonnectInv, ReadFits, CreatedFits, Pulling
<1>7. RegionsFit'
  BY <1>3, <1>4 DEF KonnectInv, RegionsFit, Pulling
<1>8. RemovalFits'
  BY <1>3 DEF RemovalFits
<1>9. QED
  BY <1>5, <1>6, <1>7, <1>8 DEF KonnectInv

LEMMA RegionsKeep ==
  ASSUME KonnectInv,
         (\E region \in Regions : RegionFails(region)) \/ RegionGap \/ (\E p \in Planes : PlaneFails(p)) \/ RegionDone
  PROVE  KonnectInv'
<1>1. pull \in PullStates
  BY DEF KonnectInv, KonnectTypeOK
<1>2. projects' = projects /\ gateway' = gateway /\ Pulling
  BY DEF RegionFails, RegionGap, PlaneFails, RegionDone, Pulling
<1>3. /\ pull.regions \cap pull.successful = {} /\ pull.regions \subseteq Regions /\ pull.successful \subseteq Regions
      /\ \A p \in pull.discovered : RegionOf[p] \notin pull.regions /\ (RegionOf[p] \in pull.successful => HasProject(p))
  BY <1>1, <1>2 DEF KonnectInv, RegionsFit, PullStates
<1>4. ASSUME NEW region \in Regions, RegionFails(region)  PROVE KonnectInv'
  <2>1. pull' = [pull EXCEPT !.regions = pull.regions \ {region}] /\ pull.stage = "regions"
    BY <1>4 DEF RegionFails
  <2>2. NotPulled(pull.regions \ {region}, pull.successful)
    BY <1>1, <2>1 DEF PullStates, NotPulled
  <2>3. QED
    BY <1>2, <1>3, <2>1, <2>2, RegionLeft
<1>5. CASE RegionGap
  <2>1. /\ pull' = [pull EXCEPT !.regions = pull.regions \ {Gap}, !.successful = pull.successful \cup {Gap}]
        /\ pull.stage = "regions" /\ Gap \in pull.regions
    BY <1>5 DEF RegionGap
  <2>2. \A p \in pull.discovered : RegionOf[p] \in pull.successful \cup {Gap} => HasProject(p)
    BY <1>3, <2>1
  <2>3. NotPulled(pull.regions \ {Gap}, pull.successful \cup {Gap})
    BY <2>1 DEF NotPulled
  <2>4. QED
    BY <1>2, <1>3, <2>1, <2>2, <2>3, RegionLeft
<1>6. ASSUME NEW p \in Planes, PlaneFails(p)  PROVE KonnectInv'
  <2>1. pull' = [pull EXCEPT !.stage = "regions", !.planes = {}, !.region = "none"] /\ pull.stage = "planes"
    BY <1>6 DEF PlaneFails
  <2>2. NotPulled(pull.regions, pull.successful)
    BY <1>1, <2>1 DEF PullStates, NotPulled
  <2>3. QED
    BY <1>2, <1>3, <2>1, <2>2, RegionLeft
<1>7. CASE RegionDone
  <2>1. /\ pull' = [pull EXCEPT !.stage = "regions", !.region = "none", !.successful = pull.successful \cup {pull.region}]
        /\ pull.stage = "planes" /\ pull.planes = {}
    BY <1>7 DEF RegionDone
  <2>2. NotPulled(pull.regions, pull.successful \cup {pull.region})
    BY <1>1, <2>1 DEF PullStates, NotPulled
  <2>3. /\ pull.region \in Regions \ (pull.regions \cup pull.successful)
        /\ \A p \in pull.discovered : RegionOf[p] = pull.region => HasProject(p)
    BY <2>1 DEF KonnectInv, RegionsFit
  <2>4. \A p \in pull.discovered : RegionOf[p] \in pull.successful \cup {pull.region} => HasProject(p)
    BY <1>3, <2>3
  <2>5. QED
    BY <1>2, <1>3, <2>1, <2>2, <2>3, <2>4, RegionLeft
<1>8. QED
  BY <1>4, <1>5, <1>6, <1>7

\* The project a plane is pulled into, and what becomes of the others.
LEMMA PlanePulledEffect ==
  ASSUME KonnectInv, NEW p \in Planes, PlanePulled(p)
  PROVE  \E i \in PulledIds :
            /\ projects' = [projects EXCEPT ![i] = Reconciled(projects[i], p, gateway[p].routes)]
            /\ \/ i \in pull.read /\ projects[i].plane = p
               \/ projects[i] = NoProject /\ \A j \in pull.read : projects[j].plane # p
<1> DEFINE known == FirstOf(pull.read, p)
           new == {n \in NewId : \A j \in NewId : n <= j}
<1>1. PICK i \in IF known # {} THEN known ELSE new :
         projects' = [projects EXCEPT ![i] = Reconciled(@, p, gateway[p].routes)]
  BY DEF PlanePulled
<1>2. CASE known # {}
  <2>1. i \in known
    BY <1>1, <1>2
  <2>2. i \in pull.read /\ projects[i].plane = p
    BY <2>1, FirstFits
  <2>3. i \in PulledIds
    BY <2>2 DEF KonnectInv, KonnectTypeOK, PullStates
  <2>4. QED
    BY <1>1, <2>2, <2>3
<1>3. CASE known = {}
  <2>1. i \in NewId
    BY <1>1, <1>3
  <2>2. i \in PulledIds /\ \A j \in PulledIds : (j >= i) => projects[j] = NoProject
    BY <2>1 DEF NewId
  <2>3. i >= i
    BY <2>2 DEF PulledIds
  <2>4. \A j \in pull.read : projects[j].plane # p
    BY <1>3, FirstFits
  <2>5. QED
    BY <1>1, <2>2, <2>3, <2>4
<1>4. QED
  BY <1>2, <1>3

LEMMA PlanePulledKeeps ==
  ASSUME KonnectInv, NEW p \in Planes, PlanePulled(p)
  PROVE  KonnectInv'
<1>1. PICK i \in PulledIds :
            /\ projects' = [projects EXCEPT ![i] = Reconciled(projects[i], p, gateway[p].routes)]
            /\ \/ i \in pull.read /\ projects[i].plane = p
               \/ projects[i] = NoProject /\ \A j \in pull.read : projects[j].plane # p
  BY PlanePulledEffect
<1>2. /\ pull.stage = "planes" /\ p \in pull.planes /\ pull' = [pull EXCEPT !.planes = pull.planes \ {p}]
      /\ gateway' = gateway
  BY DEF PlanePulled
<1>3. /\ pull \in PullStates /\ projects \in [PulledIds -> PulledProjects] /\ "none" \notin Planes
      /\ \A j \in Live : projects[j].plane \in Planes
  BY KonnectAssumption DEF KonnectInv, KonnectTypeOK
<1>4. /\ pull'.stage = "planes" /\ pull'.planes = pull.planes \ {p} /\ pull'.region = pull.region
      /\ pull'.regions = pull.regions /\ pull'.discovered = pull.discovered /\ pull'.read = pull.read
      /\ pull'.unread = pull.unread /\ pull'.successful = pull.successful /\ pull' \in PullStates
  BY <1>2, <1>3 DEF PullStates
<1>5. /\ Reconciled(projects[i], p, gateway[p].routes) \in PulledProjects
      /\ Reconciled(projects[i], p, gateway[p].routes).plane = p
  BY <1>3, ReconciledFits DEF KonnectInv, KonnectTypeOK
<1>6. /\ projects' \in [PulledIds -> PulledProjects] /\ projects'[i].plane = p
      /\ \A j \in PulledIds : j # i => projects'[j] = projects[j]
  BY <1>1, <1>3, <1>5
<1>7. Live' = Live \cup {i}
  <2>1. projects'[i] # NoProject
    BY <1>3, <1>6, NoProjectFits
  <2>2. QED
    BY <1>6, <2>1 DEF Live
<1>8. \A q : HasProject(q) => HasProject(q)'
  <2>1. ASSUME NEW q, NEW j \in Live, projects[j].plane = q  PROVE HasProject(q)'
    <3>1. j # i \/ p = q
      BY <1>1, <2>1, <1>3 DEF Live
    <3>2. j \in PulledIds
      BY DEF Live
    <3>3. QED
      BY <1>6, <1>7, <2>1, <3>1, <3>2 DEF HasProject
  <2>2. QED
    BY <2>1 DEF HasProject
<1>9. HasProject(p)'
  BY <1>6, <1>7 DEF HasProject
<1>10. KonnectTypeOK'
  <2>1. \A j \in Live' : projects'[j].plane \in Planes
    BY <1>3, <1>6, <1>7 DEF Live
  <2>2. QED
    BY <1>2, <1>4, <1>6, <2>1 DEF KonnectInv, KonnectTypeOK
<1>11. pull.read \subseteq Live /\ ReadFits'
  BY <1>2, <1>4, <1>7 DEF KonnectInv, ReadFits, Pulling
<1>12. RegionsFit'
  BY <1>2, <1>4, <1>8, <1>9 DEF KonnectInv, RegionsFit, Pulling
<1>13. CreatedFits'
  <2>1. CASE i \in pull.read /\ projects[i].plane = p
    <3>1. Created' = Created /\ \A j \in PulledIds : projects'[j].plane = projects[j].plane
      BY <1>4, <1>6, <1>7, <1>11, <2>1 DEF Created
    <3>2. Created \subseteq PulledIds /\ pull.read \subseteq PulledIds
      BY <1>11 DEF Created, Live
    <3>3. QED
      BY <1>2, <1>4, <3>1, <3>2 DEF KonnectInv, CreatedFits, Pulling
  <2>2. CASE projects[i] = NoProject /\ \A j \in pull.read : projects[j].plane # p
    <3>1. i \notin pull.read /\ i \notin Created /\ Created' = Created \cup {i}
      BY <1>4, <1>7, <1>11, <2>2 DEF Created, Live
    <3>2. Created \subseteq PulledIds /\ pull.read \subseteq PulledIds
      BY <1>11 DEF Created, Live
    <3>3. /\ \A j \in Created \cup pull.read : projects'[j].plane = projects[j].plane
          /\ projects'[i].plane = p
      BY <1>6, <3>1, <3>2
    <3>4. RegionOf[p] \notin pull.regions
      BY <1>2 DEF KonnectInv, RegionsFit
    <3>5. SUFFICES ASSUME pull.unread = {}
                   PROVE  /\ \A j, k \in Created' : projects'[j].plane = projects'[k].plane => j = k
                          /\ \A j \in Created' : /\ \A k \in pull.read : projects'[k].plane # projects'[j].plane
                                                 /\ RegionOf[projects'[j].plane] \notin pull.regions
                                                 /\ projects'[j].plane \notin pull.planes \ {p}
      BY <1>4 DEF CreatedFits
    <3>6. /\ \A j, k \in Created : projects[j].plane = projects[k].plane => j = k
          /\ \A j \in Created : /\ \A k \in pull.read : projects[k].plane # projects[j].plane
                                /\ RegionOf[projects[j].plane] \notin pull.regions
                                /\ projects[j].plane \notin pull.planes
      BY <1>2, <3>5 DEF KonnectInv, CreatedFits, Pulling
    <3>7. QED
      BY <1>2, <2>2, <3>1, <3>3, <3>4, <3>6
  <2>3. QED
    BY <1>1, <2>1, <2>2
<1>14. RemovalFits'
  BY <1>4 DEF RemovalFits
<1>15. QED
  BY <1>10, <1>11, <1>12, <1>13, <1>14 DEF KonnectInv

LEMMA PlanDeletionsKeeps ==
  ASSUME KonnectInv, PlanDeletions
  PROVE  KonnectInv'
<1> DEFINE removing == ToDelete(pull.read, pull.discovered, pull.successful)
<1>1. /\ pull.stage = "regions" /\ pull.regions = {} /\ projects' = projects /\ gateway' = gateway
      /\ pull' = [pull EXCEPT !.stage = "delete", !.removing = removing]
  BY DEF PlanDeletions
<1>2. pull \in PullStates /\ projects \in [PulledIds -> PulledProjects] /\ pull.read \subseteq Live /\ Live \subseteq PulledIds
  BY <1>1 DEF KonnectInv, KonnectTypeOK, ReadFits, Pulling, Live
<1>3. \A i : i \in removing <=> /\ i \in pull.read /\ RegionOf[projects[i].plane] \in pull.successful
                                /\ \A p \in pull.discovered : i \notin FirstOf(pull.read, p)
  BY DEF ToDelete, Retained
<1> HIDE DEF removing
<1>4. removing \in SUBSET PulledIds
  BY <1>2, <1>3
<1>5. /\ pull'.stage = "delete" /\ pull'.removing = removing /\ pull'.read = pull.read /\ pull'.unread = pull.unread
      /\ pull'.discovered = pull.discovered /\ pull'.successful = pull.successful /\ pull' \in PullStates
  BY <1>1, <1>2, <1>4 DEF PullStates
<1>6. Live' = Live
  BY <1>1, ProjectsStay
<1>7. KonnectTypeOK'
  BY <1>1, <1>5, <1>6 DEF KonnectInv, KonnectTypeOK
<1>8. ReadFits' /\ CreatedFits' /\ RegionsFit'
  BY <1>5 DEF ReadFits, CreatedFits, RegionsFit, Pulling
<1>9. ASSUME NEW i \in pull.read, projects[i].plane \in pull.discovered
      PROVE  \E j \in Live \ removing : projects[j].plane = projects[i].plane /\ j <= i /\ (i \in removing => j # i)
  <2>1. PICK j \in FirstOf(pull.read, projects[i].plane) : j <= i
    BY <1>9, FirstFits
  <2>2. j \in pull.read /\ projects[j].plane = projects[i].plane
    BY <2>1, FirstFits
  <2>3. QED
    BY <1>2, <1>3, <1>9, <2>1, <2>2
<1>10. ASSUME NEW i \in removing
       PROVE  /\ i \in Live /\ RegionOf[projects[i].plane] \in pull.successful
              /\ \/ projects[i].plane \notin pull.discovered
                 \/ \E j \in Live \ removing : j < i /\ projects[j].plane = projects[i].plane
  <2>1. i \in pull.read /\ i \in Live /\ RegionOf[projects[i].plane] \in pull.successful
    BY <1>2, <1>3
  <2>2. CASE projects[i].plane \in pull.discovered
    <3>1. PICK j \in Live \ removing : projects[j].plane = projects[i].plane /\ j <= i /\ j # i
      BY <1>9, <1>10, <2>1, <2>2
    <3>2. i \in PulledIds /\ j \in PulledIds
      BY <1>2, <2>1
    <3>3. j < i
      BY <3>1, <3>2 DEF PulledIds
    <3>4. QED
      BY <2>1, <3>1, <3>3
  <2>3. QED
    BY <2>1, <2>2
<1>11. ASSUME pull.unread = {}, pull.successful = Regions, NEW p \in pull.discovered
       PROVE  /\ \E i \in Live \ removing : projects[i].plane = p
              /\ \A i, j \in Live \ removing : projects[i].plane = p /\ projects[j].plane = p => i = j
  <2>1. RegionOf[p] \in pull.successful /\ HasProject(p)
    BY <1>1, <1>2, <1>11 DEF KonnectInv, RegionsFit, Pulling, PullStates, Regions
  <2>2. \E i \in Live \ removing : projects[i].plane = p
    <3>1. PICK i \in Live : projects[i].plane = p
      BY <2>1 DEF HasProject
    <3>2. CASE i \in pull.read
      BY <1>9, <1>11, <3>1, <3>2
    <3>3. CASE i \notin pull.read
      BY <1>3, <3>1, <3>3
    <3>4. QED
      BY <3>2, <3>3
  <2>3. ASSUME NEW i \in Live \ removing, NEW j \in Live \ removing, projects[i].plane = p, projects[j].plane = p
        PROVE  i = j
    <3>1. /\ \A k, l \in Created : projects[k].plane = projects[l].plane => k = l
          /\ \A k \in Created : \A l \in pull.read : projects[l].plane # projects[k].plane
      BY <1>1, <1>11 DEF KonnectInv, CreatedFits, Pulling
    <3>2. CASE i \in pull.read /\ j \in pull.read
      <4>1. i \in FirstOf(pull.read, p) /\ j \in FirstOf(pull.read, p)
        <5>1. ASSUME NEW k \in pull.read, k \notin removing, projects[k].plane = p
              PROVE  k \in FirstOf(pull.read, p)
          <6>1. PICK q \in pull.discovered : k \in FirstOf(pull.read, q)
            BY <1>3, <2>1, <5>1
          <6>2. projects[k].plane = q
            BY <6>1, FirstFits
          <6>3. QED
            BY <5>1, <6>1, <6>2
        <5>2. QED
          BY <2>3, <3>2, <5>1
      <4>2. QED
        BY <4>1, FirstFits
    <3>3. CASE i \notin pull.read \/ j \notin pull.read
      BY <2>3, <3>1, <3>3 DEF Created
    <3>4. QED
      BY <3>2, <3>3
  <2>4. QED
    BY <2>2, <2>3
<1>12. RemovalFits'
  BY <1>1, <1>5, <1>6, <1>10, <1>11 DEF RemovalFits
<1>13. QED
  BY <1>7, <1>8, <1>12 DEF KonnectInv

LEMMA DeletePulledProjectKeeps ==
  ASSUME KonnectInv, NEW i \in PulledIds, DeletePulledProject(i)
  PROVE  KonnectInv'
<1>1. /\ pull.stage = "delete" /\ i \in pull.removing /\ projects' = [projects EXCEPT ![i] = NoProject]
      /\ pull' = [pull EXCEPT !.removing = pull.removing \ {i}] /\ gateway' = gateway
  BY DEF DeletePulledProject
<1>2. pull \in PullStates /\ projects \in [PulledIds -> PulledProjects] /\ pull.removing \subseteq PulledIds
  BY DEF KonnectInv, KonnectTypeOK, PullStates
<1>3. /\ pull'.stage = "delete" /\ pull'.removing = pull.removing \ {i} /\ pull'.unread = pull.unread
      /\ pull'.discovered = pull.discovered /\ pull'.successful = pull.successful /\ pull' \in PullStates
  BY <1>1, <1>2 DEF PullStates
<1>4. /\ projects' \in [PulledIds -> PulledProjects] /\ projects'[i] = NoProject
      /\ \A j \in PulledIds : j # i => projects'[j] = projects[j]
  BY <1>1, <1>2, NoProjectFits
<1>5. Live' = Live \ {i} /\ Live \subseteq PulledIds
  BY <1>4 DEF Live
<1>6. KonnectTypeOK'
  BY <1>1, <1>3, <1>4, <1>5 DEF KonnectInv, KonnectTypeOK
<1>7. ReadFits' /\ CreatedFits' /\ RegionsFit'
  BY <1>3 DEF ReadFits, CreatedFits, RegionsFit, Pulling
<1>8. Live' \ pull'.removing = Live \ pull.removing
  BY <1>1, <1>3, <1>5
<1>9. \A j \in Live \ pull.removing : projects'[j] = projects[j]
  BY <1>1, <1>4, <1>5
<1>10. \A j \in pull'.removing : j \in pull.removing /\ j # i /\ j \in PulledIds /\ projects'[j] = projects[j]
  BY <1>2, <1>3, <1>4
<1>11. RemovalFits'
  BY <1>1, <1>3, <1>5, <1>8, <1>9, <1>10 DEF KonnectInv, RemovalFits
<1>12. QED
  BY <1>6, <1>7, <1>11 DEF KonnectInv

LEMMA PullEndsKeeps ==
  ASSUME KonnectInv, FinishPull \/ PullAborts
  PROVE  KonnectInv'
<1>1. pull' = NoPull /\ projects' = projects /\ gateway' = gateway
  BY DEF FinishPull, PullAborts
<1>2. Live' = Live
  BY <1>1, ProjectsStay
<1>3. pull' \in PullStates /\ pull'.stage = "idle"
  BY <1>1 DEF NoPull, PullStates
<1>4. QED
  BY <1>1, <1>2, <1>3 DEF KonnectInv, KonnectTypeOK, ReadFits, CreatedFits, RegionsFit, RemovalFits, Pulling

LEMMA EditRequestKeeps ==
  ASSUME KonnectInv, NEW i \in PulledIds, NEW r \in Routes, EditRequest(i, r)
  PROVE  KonnectInv'
<1>1. /\ pull.stage = "idle" /\ projects[i].requests[r] = "pulled" /\ gateway' = gateway /\ pull' = pull
      /\ projects' = [projects EXCEPT ![i].requests[r] = "edited"]
  BY DEF EditRequest
<1>2. projects \in [PulledIds -> PulledProjects] /\ "none" \notin Planes
  BY KonnectAssumption DEF KonnectInv, KonnectTypeOK
<1>3. /\ projects' \in [PulledIds -> PulledProjects]
      /\ \A j \in PulledIds : projects'[j].plane = projects[j].plane /\ (j # i => projects'[j] = projects[j])
  BY <1>1, <1>2 DEF PulledProjects
<1>4. i \in Live
  BY <1>1, NoProjectFits DEF Live
<1>5. Live' = Live
  <2>1. projects'[i] # NoProject
    BY <1>2, <1>3, <1>4, NoProjectFits DEF KonnectInv, KonnectTypeOK
  <2>2. QED
    BY <1>3, <1>4, <2>1 DEF Live
<1>6. QED
  BY <1>1, <1>3, <1>5 DEF KonnectInv, KonnectTypeOK, ReadFits, CreatedFits, RegionsFit, RemovalFits, Pulling, Live

LEMMA GatewayKeeps ==
  ASSUME KonnectInv, NEW p \in Planes, NEW new \in [there : BOOLEAN, routes : SUBSET Routes], ChangeGateway(p, new)
  PROVE  KonnectInv'
<1>1. pull' = pull /\ projects' = projects /\ gateway' = [gateway EXCEPT ![p] = new]
  BY DEF ChangeGateway
<1>2. Live' = Live /\ Created' = Created /\ \A q : HasProject(q)' = HasProject(q)
  BY <1>1, ProjectsStay DEF Created
<1>3. KonnectTypeOK'
  BY <1>1, <1>2 DEF KonnectInv, KonnectTypeOK
<1>4. ReadFits' /\ CreatedFits' /\ RegionsFit' /\ RemovalFits'
  BY <1>1, <1>2 DEF KonnectInv, ReadFits, CreatedFits, RegionsFit, RemovalFits, Pulling
<1>5. QED
  BY <1>3, <1>4 DEF KonnectInv

LEMMA KonnectInvStep == KonnectInv /\ [KonnectNext]_konnectVars => KonnectInv'
<1> SUFFICES ASSUME KonnectInv, [KonnectNext]_konnectVars PROVE KonnectInv'
  OBVIOUS
<1>1. CASE UNCHANGED konnectVars
  <2>1. pull' = pull /\ projects' = projects /\ gateway' = gateway
    BY <1>1 DEF konnectVars
  <2>2. Live' = Live /\ Created' = Created /\ \A q : HasProject(q)' = HasProject(q)
    BY <2>1, ProjectsStay DEF Created
  <2>3. QED
    BY <2>1, <2>2 DEF KonnectInv, KonnectTypeOK, ReadFits, CreatedFits, RegionsFit, RemovalFits, Pulling
<1>2. ASSUME NEW p \in Planes, ChangeGateway(p, NoPlane) \/ \E routes \in SUBSET Routes : ChangeGateway(p, [there |-> TRUE, routes |-> routes])
      PROVE  KonnectInv'
  BY <1>2, GatewayKeeps DEF NoPlane
<1>3. CASE KonnectNext
  BY <1>2, <1>3, StartPullKeeps, RegionListedKeeps, RegionsKeep, PlanePulledKeeps, PlanDeletionsKeeps,
     DeletePulledProjectKeeps, PullEndsKeeps, EditRequestKeeps DEF KonnectNext
<1>4. QED
  BY <1>1, <1>3

\* A step of the pull costs a project, or what was changed in it, only where it may.
LEMMA DeletesOnlyGone == KonnectInv /\ [KonnectNext]_konnectVars => DeletedOnlyWhenGone
<1> SUFFICES ASSUME KonnectInv, [KonnectNext]_konnectVars, NEW i \in PulledIds,
                    projects[i] # NoProject, projects'[i] = NoProject
             PROVE  /\ RegionOf[projects[i].plane] \in pull.successful
                    /\ \/ projects[i].plane \notin pull.discovered
                       \/ \E j \in Live : j < i /\ projects[j].plane = projects[i].plane
  BY DEF DeletedOnlyWhenGone
<1>1. /\ projects \in [PulledIds -> PulledProjects] /\ "none" \notin Planes /\ projects[i].plane \in Planes
      /\ gateway \in [Planes -> [there : BOOLEAN, routes : SUBSET Routes]]
  BY KonnectAssumption DEF KonnectInv, KonnectTypeOK, Live
<1>2. projects' # projects
  OBVIOUS
<1>3. ASSUME NEW j \in PulledIds, DeletePulledProject(j)
      PROVE  /\ RegionOf[projects[i].plane] \in pull.successful
             /\ \/ projects[i].plane \notin pull.discovered
                \/ \E k \in Live : k < i /\ projects[k].plane = projects[i].plane
  <2>1. pull.stage = "delete" /\ j \in pull.removing /\ projects' = [projects EXCEPT ![j] = NoProject]
    BY <1>3 DEF DeletePulledProject
  <2>2. i = j
    BY <1>1, <2>1
  <2>3. QED
    BY <2>1, <2>2 DEF KonnectInv, RemovalFits
<1>4. ASSUME NEW p \in Planes, PlanePulled(p)  PROVE FALSE
  <2>1. PICK j \in PulledIds : projects' = [projects EXCEPT ![j] = Reconciled(projects[j], p, gateway[p].routes)]
    BY <1>4, PlanePulledEffect
  <2>2. Reconciled(projects[j], p, gateway[p].routes).plane = p
    BY <1>1, ReconciledFits
  <2>3. QED
    BY <1>1, <2>1, <2>2, NoProjectFits
<1>5. ASSUME NEW j \in PulledIds, NEW r \in Routes, EditRequest(j, r)  PROVE FALSE
  <2>1. projects' = [projects EXCEPT ![j].requests[r] = "edited"]
    BY <1>5 DEF EditRequest
  <2>2. projects'[i].plane = projects[i].plane
    BY <1>1, <2>1 DEF PulledProjects
  <2>3. QED
    BY <1>1, <2>2, NoProjectFits
<1>6. CASE \/ \E j \in PulledIds : DeletePulledProject(j)
           \/ \E p \in Planes : PlanePulled(p)
           \/ \E j \in PulledIds, r \in Routes : EditRequest(j, r)
  BY <1>3, <1>4, <1>5, <1>6
<1>7. QED
  BY <1>2, <1>6 DEF KonnectNext, StartPull, RegionListed, RegionFails, RegionGap, PlaneFails, RegionDone, PlanDeletions,
     FinishPull, PullAborts, ChangeGateway, konnectVars

LEMMA KeepsLocalPart == KonnectInv /\ [KonnectNext]_konnectVars => LocalPartKept
<1> SUFFICES ASSUME KonnectInv, [KonnectNext]_konnectVars, NEW i \in PulledIds, NEW r \in Routes,
                    projects[i].requests[r] = "edited", projects'[i].requests[r] # "edited"
             PROVE  projects'[i] = NoProject \/ r \notin gateway[projects[i].plane].routes
  BY DEF LocalPartKept
<1>1. /\ projects \in [PulledIds -> PulledProjects]
      /\ gateway \in [Planes -> [there : BOOLEAN, routes : SUBSET Routes]]
  BY DEF KonnectInv, KonnectTypeOK
<1>2. projects' # projects
  OBVIOUS
<1>3. ASSUME NEW j \in PulledIds, DeletePulledProject(j)  PROVE projects'[i] = NoProject
  <2>1. projects' = [projects EXCEPT ![j] = NoProject]
    BY <1>3 DEF DeletePulledProject
  <2>2. QED
    BY <1>1, <2>1
<1>4. ASSUME NEW p \in Planes, PlanePulled(p)  PROVE r \notin gateway[projects[i].plane].routes
  <2>1. PICK j \in PulledIds :
          /\ projects' = [projects EXCEPT ![j] = Reconciled(projects[j], p, gateway[p].routes)]
          /\ projects[j].plane = p \/ projects[j] = NoProject
    BY <1>4, PlanePulledEffect
  <2>2. i = j
    BY <1>1, <2>1
  <2>3. projects[i].plane = p
    BY <2>1, <2>2, NoProjectFits
  <2>4. \A x \in gateway[p].routes : projects[j].requests[x] = "edited" =>
           Reconciled(projects[j], p, gateway[p].routes).requests[x] = "edited"
    BY <1>1, ReconciledFits
  <2>5. projects'[i] = Reconciled(projects[j], p, gateway[p].routes)
    BY <1>1, <2>1, <2>2
  <2>6. QED
    BY <2>2, <2>3, <2>4, <2>5
<1>5. ASSUME NEW j \in PulledIds, NEW x \in Routes, EditRequest(j, x)  PROVE FALSE
  <2>1. projects' = [projects EXCEPT ![j].requests[x] = "edited"]
    BY <1>5 DEF EditRequest
  <2>2. projects'[i].requests[r] = "edited"
    BY <1>1, <2>1 DEF PulledProjects
  <2>3. QED
    BY <2>2
<1>6. CASE \/ \E j \in PulledIds : DeletePulledProject(j)
           \/ \E p \in Planes : PlanePulled(p)
           \/ \E j \in PulledIds, x \in Routes : EditRequest(j, x)
  BY <1>3, <1>4, <1>5, <1>6
<1>7. QED
  BY <1>2, <1>6 DEF KonnectNext, StartPull, RegionListed, RegionFails, RegionGap, PlaneFails, RegionDone, PlanDeletions,
     FinishPull, PullAborts, ChangeGateway, konnectVars

LEMMA LeavesOneEach == KonnectInv => OneProjectEach
<1> SUFFICES ASSUME KonnectInv, pull.stage = "delete", pull.removing = {}, pull.successful = Regions,
                    pull.unread = {}, NEW p \in pull.discovered
             PROVE  Cardinality({i \in Live : projects[i].plane = p}) = 1
  BY DEF OneProjectEach
<1>1. /\ \E i \in Live : projects[i].plane = p
      /\ \A i, j \in Live : projects[i].plane = p /\ projects[j].plane = p => i = j
  BY DEF KonnectInv, RemovalFits
<1>2. PICK i \in Live : {j \in Live : projects[j].plane = p} = {i}
  BY <1>1
<1>3. QED
  BY <1>2, FS_Singleton

(* For any control planes, regions, routes and number of pulls, however    *)
(* regions, planes and project files fail and the gateways change          *)
(* meanwhile: a project is deleted only by a pull that saw its region in   *)
(* full and has no use for it, what the user changed in a request stays    *)
(* with its route, and a pull that skipped nothing leaves one project of   *)
(* each plane (konnectCatalog.ts, syncKonnectCatalog; konnect.ts).         *)
THEOREM PullsStaySound == KonnectSpec => KonnectSound
<1>1. KonnectInv /\ [KonnectNext]_konnectVars => DeletedOnlyWhenGone /\ LocalPartKept /\ OneProjectEach
  BY DeletesOnlyGone, KeepsLocalPart, LeavesOneEach
<1>2. KonnectInv /\ [KonnectNext]_konnectVars =>
         [DeletedOnlyWhenGone /\ LocalPartKept /\ OneProjectEach]_konnectVars
  BY <1>1
<1>3. QED
  BY <1>2, KonnectInvInit, KonnectInvStep, PTL DEF KonnectSpec, KonnectSound

(***************************************************************************)
(* The organization record: GovernanceSound.  When the record sent last is *)
(* also the one received last, the copy of the desktop process is the      *)
(* renderer's or one of those on their way back (CopiesFit).               *)
(***************************************************************************)

MemberRecords == [role : Roles \cup {"none"}, active : BOOLEAN, scim : BOOLEAN, team : BOOLEAN]
GovRecords == [member : [Members -> MemberRecords], actor : Members, owner : Members,
               sso : BOOLEAN, scim : BOOLEAN, invited : [Members -> Roles \cup {"none"}],
               grants : [Members \cup {"team"} -> {"none", "viewer", "editor"}]]

GovTypeOK ==
    /\ gov \in GovRecords /\ backend \in GovRecords
    /\ \A s \in syncs : s.number \in Nat /\ s.record \in GovRecords
    /\ \A u \in updates : u.record \in GovRecords
    /\ syncsSent \in Nat /\ syncedLast \in Nat
    /\ govEdits \in Nat /\ holders \subseteq {"open", "scoped"}

CopiesFit ==
    /\ \A s \in syncs : s.number <= syncsSent /\ (s.number = syncsSent => s.record = gov)
    /\ syncedLast <= syncsSent
    /\ syncedLast = syncsSent => backend = gov \/ \E u \in updates : u.record = backend

GovInv == GovTypeOK /\ CopiesFit

\* A member of the organization can be made an administrator.
LEMMA RoleSet ==
  /\ \A r \in MemberRecords : [r EXCEPT !.role = "admin"] \in MemberRecords
  /\ \A f \in [Members -> MemberRecords], k \in Members :
        [f EXCEPT ![k].role = "admin"] \in [Members -> MemberRecords]
<1>1. \A r \in MemberRecords : [r EXCEPT !.role = "admin"] \in MemberRecords
  BY DEF MemberRecords, Roles
<1>2. QED
  BY <1>1

\* What EditsAuthorized says of a step.
RequestMovedLawfully ==
    \A c \in {"open", "scoped"} :
       (c \in holders) # (c \in holders') =>
          ResourceAccess(gov, c, gov.actor) = "editor" \/ ~gov.member[gov.actor].active
RecordEditedLawfully ==
    govEdits' # govEdits /\ ~Manages(gov) /\ gov.member[gov.actor].active =>
       /\ gov'.grants = gov.grants /\ gov'.invited = gov.invited
       /\ \A m \in Members : gov'.member[m].role = gov.member[m].role
                             /\ gov'.member[m].active = gov.member[m].active

\* What a step leaves true of the two copies and of what goes between them.
GovStateFits ==
    /\ gov \in GovRecords /\ backend \in GovRecords
    /\ \A s \in syncs : s.number \in Nat /\ s.record \in GovRecords
    /\ \A u \in updates : u.record \in GovRecords
    /\ syncsSent \in Nat /\ syncedLast \in Nat
    /\ CopiesFit

\* A record that is taken, by an edit or an update, is sent on when it is new.
LEMMA AdoptKeepsInv ==
  ASSUME GovTypeOK, CopiesFit, NEW new \in GovRecords, Adopt(new), backend' = backend,
         \/ updates' = updates
         \/ \E u \in updates : updates' = updates \ {u} /\ new = u.record
  PROVE  GovStateFits'
<1>1. /\ gov' = new /\ syncedLast' = syncedLast /\ syncedLast \in Nat
      /\ \A u \in updates' : u.record \in GovRecords
  BY DEF GovTypeOK, Adopt
<1>2. CASE new # gov
  <2>1. syncsSent' = syncsSent + 1 /\ syncs' = syncs \cup {[number |-> syncsSent + 1, record |-> new]}
    BY <1>2 DEF Adopt
  <2>2. syncedLast' <= syncsSent /\ syncsSent \in Nat /\ syncedLast' # syncsSent'
    BY <1>1, <2>1 DEF GovTypeOK, CopiesFit
  <2>3. ASSUME NEW s \in syncs'
        PROVE  /\ s.number \in Nat /\ s.record \in GovRecords
               /\ s.number <= syncsSent' /\ (s.number = syncsSent' => s.record = gov')
    BY <1>1, <2>1, <2>2, <2>3 DEF GovTypeOK, CopiesFit
  <2>4. CopiesFit'
    BY <1>1, <2>1, <2>2, <2>3 DEF CopiesFit
  <2>5. QED
    BY <1>1, <2>1, <2>2, <2>3, <2>4 DEF GovTypeOK, GovStateFits
<1>3. CASE new = gov
  <2>1. syncs' = syncs /\ syncsSent' = syncsSent /\ gov' = gov
    BY <1>1, <1>3 DEF Adopt
  <2>2. syncedLast = syncsSent => backend = gov \/ \E u \in updates' : u.record = backend
    BY <1>3 DEF CopiesFit
  <2>3. CopiesFit'
    BY <1>1, <2>1, <2>2 DEF CopiesFit
  <2>4. QED
    BY <1>1, <2>1, <2>3 DEF GovTypeOK, GovStateFits
<1>4. QED
  BY <1>2, <1>3

\* The filter of App.setWorkspace takes a record or leaves the old one, and
\* leaves the authority of a member who does not manage as it was.
LEMMA FilterIsLawful ==
  ASSUME NEW old \in GovRecords, NEW new \in GovRecords
  PROVE  /\ GovernanceEnforced(old, new) \in GovRecords
         /\ ~Manages(old) /\ old.member[old.actor].active =>
              /\ GovernanceEnforced(old, new).grants = old.grants
              /\ GovernanceEnforced(old, new).invited = old.invited
              /\ \A m \in Members : /\ GovernanceEnforced(old, new).member[m].role = old.member[m].role
                                    /\ GovernanceEnforced(old, new).member[m].active = old.member[m].active
<1>1. GovernanceEnforced(old, new) \in {old, new}
  BY DEF GovernanceEnforced
<1>2. ASSUME ~Manages(old), old.member[old.actor].active, AuthenticationOnly(old, new)
      PROVE  /\ new.grants = old.grants /\ new.invited = old.invited
             /\ \A m \in Members : new.member[m].role = old.member[m].role
                                   /\ new.member[m].active = old.member[m].active
  <2>1. new.grants = old.grants /\ new.invited = old.invited
    BY <1>2 DEF AuthenticationOnly, GovRecords
  <2>2. ASSUME NEW m \in Members
        PROVE  new.member[m].role = old.member[m].role /\ new.member[m].active = old.member[m].active
    <3>1. [new.member[m] EXCEPT !.team = old.member[m].team] = old.member[m]
      BY <1>2, <2>2 DEF AuthenticationOnly
    <3>2. new.member[m] \in MemberRecords /\ old.member[m] \in MemberRecords
      BY <2>2 DEF GovRecords
    <3>3. QED
      BY <3>1, <3>2 DEF MemberRecords
  <2>3. QED
    BY <2>1, <2>2
<1>3. ASSUME ~Manages(old), old.member[old.actor].active, ~AuthenticationOnly(old, new)
      PROVE  GovernanceEnforced(old, new) = old
  BY <1>3 DEF GovernanceEnforced
<1>4. ASSUME AuthenticationOnly(old, new) PROVE GovernanceEnforced(old, new) = new
  BY <1>4 DEF GovernanceEnforced
<1>5. QED
  BY <1>1, <1>2, <1>3, <1>4

\* An edit of the renderer.
LEMMA EditStep ==
  ASSUME GovInv, NEW new \in GovRecords, EditGovernance(new)
  PROVE  GovInv' /\ RequestMovedLawfully /\ RecordEditedLawfully
<1>1. gov \in GovRecords /\ GovernanceEnforced(gov, new) \in GovRecords
  BY FilterIsLawful DEF GovInv, GovTypeOK
<1>2. Adopt(GovernanceEnforced(gov, new)) /\ gov' = GovernanceEnforced(gov, new)
  BY DEF EditGovernance, Adopt
<1>3. GovStateFits'
  BY <1>1, <1>2, AdoptKeepsInv DEF GovInv, EditGovernance
<1>4. govEdits' \in Nat /\ holders' = holders
  BY DEF EditGovernance, GovInv, GovTypeOK
<1>5. RecordEditedLawfully
  BY <1>1, <1>2, FilterIsLawful DEF RecordEditedLawfully
<1>6. QED
  BY <1>3, <1>4, <1>5 DEF GovInv, GovTypeOK, GovStateFits, RequestMovedLawfully

\* The records the panel's controls propose are records.
LEMMA ProposalsFit ==
  ASSUME gov \in GovRecords, NEW m \in Members
  PROVE  /\ \A role \in Roles : [gov EXCEPT !.member[m] = [gov.member[m] EXCEPT !.role = role]] \in GovRecords
         /\ [gov EXCEPT !.member[m] = [gov.member[m] EXCEPT !.active = ~@]] \in GovRecords
         /\ [gov EXCEPT !.member[m] = Manual("editor")] \in GovRecords
         /\ [gov EXCEPT !.member[m].team = ~@] \in GovRecords
         /\ \A role \in Roles \cup {"none"} : [gov EXCEPT !.invited[m] = role] \in GovRecords
         /\ [gov EXCEPT !.member[m] = Accepted(m), !.invited[m] = "none"] \in GovRecords
<1>1. gov.member[m] \in MemberRecords /\ gov.invited[m] \in Roles \cup {"none"}
  BY DEF GovRecords
<1>2. ASSUME NEW x \in MemberRecords PROVE [gov EXCEPT !.member[m] = x] \in GovRecords
  BY <1>2 DEF GovRecords
<1>3. /\ \A role \in Roles \cup {"none"} : [gov.member[m] EXCEPT !.role = role] \in MemberRecords
      /\ [gov.member[m] EXCEPT !.active = ~@] \in MemberRecords
      /\ [gov.member[m] EXCEPT !.team = ~@] \in MemberRecords
  BY <1>1 DEF MemberRecords
<1>4. \A role \in Roles \cup {"none"} : Manual(role) \in MemberRecords
  BY DEF Manual, MemberRecords
<1>5. Accepted(m) \in MemberRecords
  BY <1>1, <1>4 DEF Accepted, MemberRecords
<1>6. "none" \in Roles \cup {"none"} /\ "editor" \in Roles \cup {"none"}
  BY DEF Roles
<1>7. \A role \in Roles \cup {"none"} : [gov EXCEPT !.invited[m] = role] \in GovRecords
  BY DEF GovRecords
<1>8. [gov EXCEPT !.member[m] = Accepted(m), !.invited[m] = "none"] \in GovRecords
  BY <1>5, <1>6 DEF GovRecords
<1>9. [gov EXCEPT !.member[m].team = ~@] \in GovRecords
  BY <1>3 DEF GovRecords
<1>10. \A role \in Roles : [gov EXCEPT !.member[m] = [gov.member[m] EXCEPT !.role = role]] \in GovRecords
  BY <1>2, <1>3
<1>11. [gov EXCEPT !.member[m] = [gov.member[m] EXCEPT !.active = ~@]] \in GovRecords
  BY <1>2, <1>3
<1>12. [gov EXCEPT !.member[m] = Manual("editor")] \in GovRecords
  BY <1>2, <1>4, <1>6
<1>13. QED
  BY <1>7, <1>8, <1>9, <1>10, <1>11, <1>12

\* Every edit of a member's record, of his invitation, or by him.
LEMMA MemberEditStep ==
  ASSUME GovInv, NEW m \in Members,
         \/ \E role \in Roles : UpdateRole(m, role)
         \/ UpdateActive(m) \/ AddManualMember(m) \/ ToggleTeamMember(m)
         \/ \E role \in Roles \ {"owner"} : CreateInvitation(m, role)
         \/ RevokeInvitation(m) \/ AcceptInvitationLocally(m)
         \/ TransferOwnership(m) \/ SwitchActor(m)
         \/ \E grouped \in BOOLEAN : Login(m, grouped)
  PROVE  GovInv' /\ RequestMovedLawfully /\ RecordEditedLawfully
<1>1. gov \in GovRecords /\ "none" \in Roles \cup {"none"}
  <2>1. gov \in GovRecords
    BY DEF GovInv, GovTypeOK
  <2>2. QED
    BY <2>1
<1>2. CASE \E role \in Roles : UpdateRole(m, role)
  BY <1>1, <1>2, ProposalsFit, EditStep, ZenonT(60) DEF UpdateRole, UpdateMember
<1>3. CASE UpdateActive(m)
  BY <1>1, <1>3, ProposalsFit, EditStep, ZenonT(60) DEF UpdateActive, UpdateMember
<1>4. CASE AddManualMember(m)
  BY <1>1, <1>4, ProposalsFit, EditStep, ZenonT(60) DEF AddManualMember
<1>5. CASE ToggleTeamMember(m)
  BY <1>1, <1>5, ProposalsFit, EditStep, ZenonT(60) DEF ToggleTeamMember
<1>6. CASE \E role \in Roles \ {"owner"} : CreateInvitation(m, role)
  BY <1>1, <1>6, ProposalsFit, EditStep, ZenonT(60) DEF CreateInvitation
<1>7. CASE RevokeInvitation(m)
  BY <1>1, <1>7, ProposalsFit, EditStep, ZenonT(60) DEF RevokeInvitation
<1>8. CASE AcceptInvitationLocally(m)
  BY <1>1, <1>8, ProposalsFit, EditStep DEF AcceptInvitationLocally
<1>9. CASE TransferOwnership(m)
  <2>1. [gov EXCEPT !.member[m].role = "owner", !.member[gov.owner].role = "admin", !.owner = m] \in GovRecords
    <3>1. [gov.member EXCEPT ![m].role = "owner"] \in [Members -> MemberRecords]
      BY <1>1 DEF GovRecords, MemberRecords, Roles
    <3>2. [[gov.member EXCEPT ![m].role = "owner"] EXCEPT ![gov.owner].role = "admin"] \in [Members -> MemberRecords]
      BY <1>1, <3>1, RoleSet DEF GovRecords
    <3>3. QED
      BY <1>1, <3>2 DEF GovRecords
  <2>2. QED
    BY <1>9, <2>1, EditStep DEF TransferOwnership
<1>10. CASE SwitchActor(m)
  <2>1. [gov EXCEPT !.actor = m] \in GovRecords
    BY <1>1 DEF GovRecords
  <2>2. QED
    BY <1>10, <2>1, EditStep DEF SwitchActor
<1>11. CASE \E grouped \in BOOLEAN : Login(m, grouped)
  <2>1. PICK grouped \in BOOLEAN : Login(m, grouped)
    BY <1>11
  <2>2. [gov EXCEPT !.actor = m, !.member[m].team = @ \/ grouped] \in GovRecords
    <3>1. (gov.member[m].team \/ grouped) \in BOOLEAN
      OBVIOUS
    <3>2. [gov.member[m] EXCEPT !.team = @ \/ grouped] \in MemberRecords
      BY <1>1, <3>1 DEF GovRecords, MemberRecords
    <3>3. QED
      BY <1>1, <3>2 DEF GovRecords
  <2>3. QED
    BY <2>1, <2>2, EditStep DEF Login
<1>12. QED
  BY <1>2, <1>3, <1>4, <1>5, <1>6, <1>7, <1>8, <1>9, <1>10, <1>11

\* The settings, and the grants.
LEMMA SettingEditStep ==
  ASSUME GovInv,
         \/ ToggleSso \/ ToggleScim
         \/ \E s \in Members \cup {"team"} :
               \/ \E access \in {"viewer", "editor"} : UpsertGrant(s, access)
               \/ RemoveGrant(s)
  PROVE  GovInv' /\ RequestMovedLawfully /\ RecordEditedLawfully
<1>1. gov \in GovRecords
  BY DEF GovInv, GovTypeOK
<1>2. CASE ToggleSso
  <2>1. [gov EXCEPT !.sso = ~@] \in GovRecords
    BY <1>1 DEF GovRecords
  <2>2. QED
    BY <1>2, <2>1, EditStep DEF ToggleSso
<1>3. CASE ToggleScim
  <2>1. [gov EXCEPT !.scim = ~@] \in GovRecords
    BY <1>1 DEF GovRecords
  <2>2. QED
    BY <1>3, <2>1, EditStep DEF ToggleScim
<1>4. CASE \E s \in Members \cup {"team"} :
              \/ \E access \in {"viewer", "editor"} : UpsertGrant(s, access)
              \/ RemoveGrant(s)
  <2>1. PICK s \in Members \cup {"team"}, access \in {"none", "viewer", "editor"} : UpsertGrant(s, access)
    BY <1>4 DEF RemoveGrant
  <2>2. [gov EXCEPT !.grants[s] = access] \in GovRecords
    BY <1>1 DEF GovRecords
  <2>3. QED
    BY <2>1, <2>2, EditStep DEF UpsertGrant
<1>5. QED
  BY <1>2, <1>3, <1>4

\* A request of the identity provider answers with the record it leaves.
LEMMA ScimStep ==
  ASSUME GovInv, NEW new \in GovRecords, ScimAnswers(new)
  PROVE  GovInv' /\ RequestMovedLawfully /\ RecordEditedLawfully
<1>1. /\ \A u \in updates' : u.record \in GovRecords
      /\ \E u \in updates' : u.record = backend'
  <2>1. PICK u : u = [call |-> scimCalls + 1, record |-> new]
    OBVIOUS
  <2>2. u.record = new /\ updates' = updates \cup {u} /\ backend' = new
    BY <2>1 DEF ScimAnswers
  <2>3. QED
    BY <2>2 DEF GovInv, GovTypeOK
<1>2. CopiesFit'
  BY <1>1 DEF ScimAnswers, GovInv, CopiesFit, govSyncVars
<1>3. QED
  BY <1>1, <1>2 DEF ScimAnswers, GovInv, GovTypeOK, RequestMovedLawfully, RecordEditedLawfully, govSyncVars

LEMMA ScimUserStep ==
  ASSUME GovInv, NEW m \in Members, NEW active \in BOOLEAN, ScimCreateUser(m, active) \/ ScimChangeUser(m, active)
  PROVE  GovInv' /\ RequestMovedLawfully /\ RecordEditedLawfully
<1>1. backend \in GovRecords
  BY DEF GovInv, GovTypeOK
<1>2. [Manual("editor") EXCEPT !.active = active, !.scim = TRUE] \in MemberRecords
  BY DEF Manual, MemberRecords, Roles
<1>3. [backend EXCEPT !.member[m] = [Manual("editor") EXCEPT !.active = active, !.scim = TRUE]] \in GovRecords
  BY <1>1, <1>2 DEF GovRecords
<1>4. [backend EXCEPT !.member[m].active = active, !.member[m].scim = TRUE] \in GovRecords
  <2>1. [backend.member EXCEPT ![m].active = active] \in [Members -> MemberRecords]
    BY <1>1 DEF GovRecords, MemberRecords
  <2>2. [[backend.member EXCEPT ![m].active = active] EXCEPT ![m].scim = TRUE] \in [Members -> MemberRecords]
    BY <2>1 DEF MemberRecords
  <2>3. QED
    BY <1>1, <2>2 DEF GovRecords
<1>5. Provisioned(backend, m, active) \in GovRecords
  BY <1>3, <1>4 DEF Provisioned
<1>6. QED
  BY <1>5, ScimStep DEF ScimCreateUser, ScimChangeUser

LEMMA ScimGroupStep ==
  ASSUME GovInv, NEW group \in SUBSET Members, ScimSetGroup(group)
  PROVE  GovInv' /\ RequestMovedLawfully /\ RecordEditedLawfully
<1>1. backend \in GovRecords
  BY DEF GovInv, GovTypeOK
<1>2. [m \in Members |-> [backend.member[m] EXCEPT !.team = m \in group]] \in [Members -> MemberRecords]
  <2>1. ASSUME NEW m \in Members PROVE [backend.member[m] EXCEPT !.team = m \in group] \in MemberRecords
    <3>1. (m \in group) \in BOOLEAN
      OBVIOUS
    <3>2. backend.member[m] \in MemberRecords
      BY <1>1, <2>1 DEF GovRecords
    <3>3. ASSUME NEW b \in BOOLEAN PROVE [backend.member[m] EXCEPT !.team = b] \in MemberRecords
      BY <3>2, <3>3 DEF MemberRecords
    <3>4. QED
      BY <3>1, <3>3
  <2>2. QED
    BY <2>1
<1>3. [backend EXCEPT !.member = [m \in Members |-> [@[m] EXCEPT !.team = m \in group]]] \in GovRecords
  BY <1>1, <1>2 DEF GovRecords
<1>4. QED
  BY <1>3, ScimStep DEF ScimSetGroup

\* A request moves only between collections whose grants let the member edit.
LEMMA MoveStep ==
  ASSUME GovInv, NEW from \in {"open", "scoped"}, NEW to \in {"open", "scoped"}, MoveRequest(from, to)
  PROVE  GovInv' /\ RequestMovedLawfully /\ RecordEditedLawfully
<1>1. holders \subseteq {"open", "scoped"}
      /\ holders' = HoldersEnforced(gov, holders, (holders \ {from}) \cup {to})
  BY DEF MoveRequest, GovInv, GovTypeOK
<1>2. holders' \subseteq {"open", "scoped"}
  BY <1>1 DEF HoldersEnforced
<1>3. RequestMovedLawfully
  <2>1. CASE ~gov.member[gov.actor].active
    BY <2>1 DEF RequestMovedLawfully
  <2>2. CASE Manages(gov)
    <3>1. gov.member[gov.actor].active /\ gov.member[gov.actor].role \in {"owner", "admin"}
      BY <2>2 DEF Manages
    <3>2. ASSUME NEW c \in {"open", "scoped"} PROVE ResourceAccess(gov, c, gov.actor) = "editor"
      BY <3>1 DEF ResourceAccess
    <3>3. QED
      BY <3>2 DEF RequestMovedLawfully
  <2>3. CASE gov.member[gov.actor].active /\ ~Manages(gov)
    <3>1. holders' = {c \in {"open", "scoped"} :
                        IF ResourceAccess(gov, c, gov.actor) = "editor"
                        THEN c \in (holders \ {from}) \cup {to} ELSE c \in holders}
      BY <1>1, <2>3 DEF HoldersEnforced
    <3>2. QED
      BY <3>1 DEF RequestMovedLawfully
  <2>4. QED
    BY <2>1, <2>2, <2>3
<1>4. govEdits' \in Nat /\ gov' = gov
  BY DEF MoveRequest, GovInv, GovTypeOK
<1>5. QED
  BY <1>2, <1>3, <1>4 DEF MoveRequest, GovInv, GovTypeOK, CopiesFit, RecordEditedLawfully, govSyncVars

LEMMA GovInvInit == GovernanceInit => GovInv
<1>1. ASSUME GovernanceInit PROVE GovInv
  <2>1. PICK joined, on \in BOOLEAN, actor \in Members, scope, pending \in {"none", "viewer"} :
          gov = FirstRecord(joined, on, actor, scope, pending)
    BY <1>1 DEF GovernanceInit
  <2>2. Manual("owner") \in MemberRecords /\ Manual("editor") \in MemberRecords /\ NoMember \in MemberRecords
    BY DEF Manual, NoMember, MemberRecords, Roles
  <2>3. gov.member \in [Members -> MemberRecords] /\ gov.invited \in [Members -> Roles \cup {"none"}]
        /\ gov.grants \in [Members \cup {"team"} -> {"none", "viewer", "editor"}]
    BY <2>1, <2>2 DEF Roles, FirstRecord
  <2>4. gov \in GovRecords
    BY <2>1, <2>3, GovernanceAssumption DEF GovRecords, FirstRecord
  <2>5. QED
    BY <1>1, <2>4 DEF GovernanceInit, GovInv, GovTypeOK, CopiesFit
<1>2. QED
  BY <1>1

\* What goes between the two processes.
LEMMA TransportStep ==
  ASSUME GovInv, AdoptUpdate \/ SyncArrives \/ StartConnector \/ StopConnector \/ ConnectorCleanup \/ UNCHANGED govVars
  PROVE  GovInv' /\ RequestMovedLawfully /\ RecordEditedLawfully
<1>1. CASE AdoptUpdate
  <2>1. PICK u \in updates : updates' = updates \ {u} /\ Adopt(u.record)
    BY <1>1 DEF AdoptUpdate
  <2>2. GovStateFits'
    BY <1>1, <2>1, AdoptKeepsInv DEF AdoptUpdate, GovInv, GovTypeOK
  <2>3. QED
    BY <1>1, <2>2 DEF AdoptUpdate, GovInv, GovTypeOK, GovStateFits, RequestMovedLawfully, RecordEditedLawfully
<1>2. CASE SyncArrives
  <2>1. PICK s \in syncs : syncs' = syncs \ {s} /\ backend' = s.record /\ syncedLast' = s.number
    BY <1>2 DEF SyncArrives
  <2>2. CopiesFit'
    BY <1>2, <2>1 DEF SyncArrives, GovInv, GovTypeOK, CopiesFit
  <2>3. QED
    BY <1>2, <2>1, <2>2 DEF SyncArrives, GovInv, GovTypeOK, RequestMovedLawfully, RecordEditedLawfully
<1>3. CASE StartConnector \/ StopConnector \/ ConnectorCleanup \/ UNCHANGED govVars
  BY <1>3 DEF StartConnector, StopConnector, ConnectorCleanup, govVars, govSyncVars, GovInv, GovTypeOK, CopiesFit,
              RequestMovedLawfully, RecordEditedLawfully
<1>4. QED
  BY <1>1, <1>2, <1>3

LEMMA GovInvStep == GovInv /\ [GovernanceNext]_govVars => GovInv' /\ RequestMovedLawfully /\ RecordEditedLawfully
<1>1. ASSUME GovInv, GovernanceNext PROVE GovInv' /\ RequestMovedLawfully /\ RecordEditedLawfully
  BY <1>1, MemberEditStep, SettingEditStep, ScimUserStep, ScimGroupStep, MoveStep, TransportStep, ZenonT(60)
     DEF GovernanceNext
<1>2. ASSUME GovInv, UNCHANGED govVars PROVE GovInv' /\ RequestMovedLawfully /\ RecordEditedLawfully
  BY <1>2, TransportStep
<1>3. QED
  BY <1>1, <1>2

\* Governance: when no update is on its way and the record sent last was also
\* received last, the renderer and the desktop process hold the same record,
\* in whatever order syncs and updates arrive (Adopt, SyncArrives); a request
\* moves only between collections the member may edit, and no edit of a member
\* who does not manage changes authority (the filter of App.setWorkspace).
THEOREM GovernanceStaysSound == GovernanceSpec => GovernanceSound
<1>1. GovInv => CopiesAgree
  BY DEF GovInv, CopiesFit, CopiesAgree
<1>2. GovInv /\ [GovernanceNext]_govVars =>
         GovInv' /\ [RequestMovedLawfully /\ RecordEditedLawfully]_govVars
  BY GovInvStep
<1>3. GovernanceSpec => []GovInv /\ [][RequestMovedLawfully /\ RecordEditedLawfully]_govVars
  BY <1>2, GovInvInit, PTL DEF GovernanceSpec
<1>4. [RequestMovedLawfully /\ RecordEditedLawfully]_govVars =>
      [ /\ \A c \in {"open", "scoped"} :
             (c \in holders) # (c \in holders') =>
                ResourceAccess(gov, c, gov.actor) = "editor"
                \/ ~gov.member[gov.actor].active
        /\ govEdits' # govEdits /\ ~Manages(gov) /\ gov.member[gov.actor].active =>
             /\ gov'.grants = gov.grants /\ gov'.invited = gov.invited
             /\ \A m \in Members : gov'.member[m].role = gov.member[m].role
                                   /\ gov'.member[m].active = gov.member[m].active ]_govVars
  BY DEF RequestMovedLawfully, RecordEditedLawfully
<1>5. QED
  BY <1>1, <1>3, <1>4, PTL DEF GovernanceSound, EditsAuthorized
=============================================================================
