----------------------------- MODULE CatalogFile -----------------------------
(***************************************************************************)
(* catalog.json of the local project store: write_catalog and its          *)
(* write_bytes_atomic, and the fallbacks of load_or_rebuild_catalog, call  *)
(* by call (src-tauri/src/workspace_store.rs).  The file is replaced with  *)
(* two renames, so for a moment there is no catalog.json at all; the copy  *)
(* made in catalog.backup.json just before is what covers that moment.     *)
(*                                                                         *)
(* After the properties come the proofs of both: that the four files       *)
(* implement the one value of CatalogCell until a file is damaged, and     *)
(* that a single damaged file costs at most the last change.               *)
(***************************************************************************)
EXTENDS Naturals, TLAPS

CONSTANTS
    Catalogs,    \* the contents a catalog may have
    Missing, Torn, None,
    MaxDamage,   \* bound on the files damaged behind the program's back
    MaxFaults    \* bound on crashes and failing calls

ASSUME CatalogAssumption ==
    /\ {Missing, Torn, None} \cap Catalogs = {}
    /\ Missing # Torn
    /\ MaxDamage \in Nat /\ MaxFaults \in Nat

VARIABLES
    path, backup, tmp, previous,   \* the four files
    kept,       \* invalid catalogs moved to the recovery folder
    writing,    \* the catalog being written, None between writes
    pc,         \* the next file-system call
    acked,      \* the last catalog whose write returned Ok
    ackedOld,   \* the one acknowledged before it
    damages, faults

files == <<path, backup, tmp, previous>>
vars == <<path, backup, tmp, previous, kept, writing, pc, acked, ackedOld, damages, faults>>

Contents == Catalogs \cup {Missing, Torn}

PC == {"idle", "dropBackup", "copyBackup", "keepInvalid",
       "writeTmp", "dropPrevious", "setAside", "install", "dropOld"}

\* Every file holds a catalog, part of one or nothing, and the write in
\* progress is at one of the calls of write_bytes_atomic.
TypeOK ==
    /\ {path, backup, tmp, previous} \subseteq Contents
    /\ kept \subseteq {Torn}
    /\ writing \in Catalogs \cup {None}
    /\ pc \in PC
    /\ acked \in Catalogs \cup {None} /\ ackedOld \in Catalogs \cup {None}
    /\ damages \in Nat /\ faults \in Nat

Init ==
    /\ path = Missing /\ backup = Missing /\ tmp = Missing /\ previous = Missing
    /\ kept = {}
    /\ writing = None /\ pc = "idle"
    /\ acked = None /\ ackedOld = None
    /\ damages = 0 /\ faults = 0

\* read_catalog_file succeeds.
Readable(f) == f \in Catalogs

\* What load_or_rebuild_catalog returns without having to rebuild.
Value == IF Readable(path) THEN path ELSE IF Readable(backup) THEN backup ELSE None

Goto(label) == pc' = label /\ UNCHANGED <<writing, acked, ackedOld, damages, faults>>

-----------------------------------------------------------------------------
(* write_catalog.                                                          *)

\* A readable catalog is copied to the backup, an unreadable one is moved to
\* the recovery folder.
WriteCatalog(v) ==
    /\ pc = "idle"
    /\ writing' = v
    /\ pc' = IF Readable(path) THEN "dropBackup"
             ELSE IF path # Missing THEN "keepInvalid" ELSE "writeTmp"
    /\ UNCHANGED <<files, kept, acked, ackedOld, damages, faults>>

\* A command that changes the catalog it has just read.
Change == Readable(path) /\ \E v \in Catalogs : WriteCatalog(v)

\* load_or_rebuild_catalog: the backup is written back as the catalog.
RestoreFromBackup == ~Readable(path) /\ Readable(backup) /\ WriteCatalog(backup)

\* load_or_rebuild_catalog: a catalog made from the project files found.
Rebuild == Value = None /\ \E v \in Catalogs : WriteCatalog(v)

DropBackup ==
    /\ pc = "dropBackup"
    /\ backup' = Missing
    /\ Goto("copyBackup")
    /\ UNCHANGED <<path, tmp, previous, kept>>

\* Mutant: the catalog is not copied before it is replaced.
CopyBackupSkipped ==
    /\ pc = "copyBackup"
    /\ Goto("writeTmp")
    /\ UNCHANGED <<files, kept>>

CopyBackup ==
    /\ pc = "copyBackup"
    /\ backup' = path
    /\ Goto("writeTmp")
    /\ UNCHANGED <<path, tmp, previous, kept>>

KeepInvalid ==
    /\ pc = "keepInvalid"
    /\ kept' = kept \cup {path}
    /\ path' = Missing
    /\ Goto("writeTmp")
    /\ UNCHANGED <<backup, tmp, previous>>

-----------------------------------------------------------------------------
(* write_bytes_atomic.                                                     *)

WriteTmp ==
    /\ pc = "writeTmp"
    /\ tmp' = writing
    /\ Goto("dropPrevious")
    /\ UNCHANGED <<path, backup, previous, kept>>

DropPrevious ==
    /\ pc = "dropPrevious"
    /\ previous' = Missing
    /\ Goto("setAside")
    /\ UNCHANGED <<path, backup, tmp, kept>>

\* Mutant: the rotating backup is what is moved out of the way.
SetAsideBackup ==
    /\ pc = "setAside"
    /\ previous' = backup
    /\ backup' = Missing
    /\ Goto("install")
    /\ UNCHANGED <<path, tmp, kept>>

SetAside ==
    /\ pc = "setAside"
    /\ previous' = path
    /\ path' = Missing
    /\ Goto("install")
    /\ UNCHANGED <<backup, tmp, kept>>

Install ==
    /\ pc = "install"
    /\ path' = tmp
    /\ tmp' = Missing
    /\ Goto("dropOld")
    /\ UNCHANGED <<backup, previous, kept>>

\* Mutant: the write is acknowledged with the catalog it replaced.
DropOldStale ==
    /\ pc = "dropOld"
    /\ previous' = Missing
    /\ writing' = None /\ pc' = "idle"
    /\ acked' = previous /\ ackedOld' = acked
    /\ UNCHANGED <<path, backup, tmp, kept, damages, faults>>

DropOld ==
    /\ pc = "dropOld"
    /\ previous' = Missing
    /\ writing' = None /\ pc' = "idle"
    /\ acked' = writing /\ ackedOld' = acked
    /\ UNCHANGED <<path, backup, tmp, kept, damages, faults>>

-----------------------------------------------------------------------------
(* Failing calls, the end of the process, damage.                          *)

\* The write returns an error, or the process dies.
GiveUp ==
    /\ faults < MaxFaults
    /\ faults' = faults + 1
    /\ writing' = None /\ pc' = "idle"
    /\ UNCHANGED <<kept, acked, ackedOld, damages>>

\* Any call fails, or the process dies before it: the files stay as they are.
\* Before "dropOld" is over the new catalog is installed, yet the caller of a
\* failing remove is told that the write failed.
Stop == pc # "idle" /\ GiveUp /\ UNCHANGED files

\* fs::copy and write_all are cut short.
StopHalfway ==
    /\ GiveUp
    /\ \/ pc = "copyBackup" /\ backup' = Torn /\ UNCHANGED <<path, tmp, previous>>
       \/ pc = "writeTmp" /\ tmp' = Torn /\ UNCHANGED <<path, backup, previous>>

\* The rename of the temporary file fails: the previous catalog is renamed
\* back and the temporary file removed.  Either may fail in turn (Stop is
\* both failing).
FailInstall ==
    /\ pc = "install"
    /\ GiveUp
    /\ \E back \in BOOLEAN, removed \in BOOLEAN :
         /\ path' = IF back /\ previous # Missing THEN previous ELSE path
         /\ previous' = IF back THEN Missing ELSE previous
         /\ tmp' = IF removed THEN Missing ELSE tmp
    /\ UNCHANGED backup

Damage ==
    /\ pc = "idle"
    /\ damages < MaxDamage
    /\ damages' = damages + 1
    /\ \/ path # Missing /\ path' = Torn /\ UNCHANGED backup
       \/ backup # Missing /\ backup' = Torn /\ UNCHANGED path
    /\ UNCHANGED <<tmp, previous, kept, writing, pc, acked, ackedOld, faults>>

Next ==
    \/ Change \/ RestoreFromBackup \/ Rebuild
    \/ DropBackup \/ CopyBackup \/ KeepInvalid
    \/ WriteTmp \/ DropPrevious \/ SetAside \/ Install \/ DropOld
    \/ Stop \/ StopHalfway \/ FailInstall \/ Damage

Spec == Init /\ [][Next]_vars

-----------------------------------------------------------------------------
(* Properties.                                                             *)

Cell == INSTANCE CatalogCell WITH value <- Value, damaged <- (damages > 0)

\* As long as no file is damaged the four files behave as one atomic value:
\* killed or failing anywhere, a reader obtains the old or the new catalog,
\* never neither, and an acknowledged catalog is the one obtained.
ImplementsCell == Cell!Spec

\* "A missing or malformed primary catalog falls back to catalog.backup.json"
\* (docs/LOCAL_PROJECTS.md): one damaged file costs at most the last change,
\* because a backup is never older than the catalog acknowledged before.
FallbackIsRecent ==
    faults = 0 /\ damages <= 1 /\ ackedOld # None /\ pc = "idle" =>
        Value \in {acked, ackedOld}

-----------------------------------------------------------------------------
(* ImplementsCell.  The invariant says what the moment without             *)
(* catalog.json rests on: from the copy to the rename, the backup holds    *)
(* the catalog being replaced.                                             *)

\* Points at which the new catalog is staged in the temporary file.
StagedPC == {"dropPrevious", "setAside", "install"}

FileInv ==
    /\ TypeOK
    /\ damages = 0
    /\ pc = "idle" <=> writing = None
    /\ path # Torn
    /\ pc \in StagedPC => tmp = writing
    /\ pc \in {"dropBackup", "copyBackup"} => Readable(path)
    /\ pc # "keepInvalid"
    \* the catalog about to be replaced is also the backup
    /\ pc \in {"writeTmp", "dropPrevious", "setAside"} /\ Readable(path) => backup = path
    /\ pc = "install" =>
         path = Missing /\ (Readable(previous) => backup = previous) /\ previous # Torn
    /\ pc = "dropOld" => path = writing

\* The invariant of the whole behaviour: it holds until the first damage.
UntilDamage == damages \in Nat /\ (damages = 0 => FileInv)

-----------------------------------------------------------------------------
USE DEF Readable, Contents, PC, StagedPC

\* An empty store satisfies the invariant.
LEMMA FileInvInit == Init => FileInv
  BY CatalogAssumption DEF Init, FileInv, TypeOK

\* Damage is counted, and never uncounted.
LEMMA DamageGrows ==
  ASSUME damages \in Nat, [Next]_vars
  PROVE  damages' \in Nat /\ (damages' = 0 => damages = 0)
  BY DEF vars, Next, Change, RestoreFromBackup, Rebuild, WriteCatalog, DropBackup,
     CopyBackup, KeepInvalid, WriteTmp, DropPrevious, SetAside, Install, DropOld,
     Stop, StopHalfway, FailInstall, GiveUp, Damage, Goto

\* Every step that damages no file preserves it.
LEMMA FileInvStep ==
  ASSUME FileInv, [Next]_vars, damages' = 0
  PROVE  FileInv'
  <1> USE CatalogAssumption
  <1>1. CASE UNCHANGED vars
    BY <1>1 DEF vars, FileInv, TypeOK
  <1>2. ASSUME NEW v \in Catalogs, WriteCatalog(v) PROVE FileInv'
    BY <1>2 DEF WriteCatalog, files, FileInv, TypeOK
  <1>3. CASE Change
    BY <1>2, <1>3 DEF Change
  <1>4. CASE RestoreFromBackup
    BY <1>2, <1>4 DEF RestoreFromBackup
  <1>5. CASE Rebuild
    BY <1>2, <1>5 DEF Rebuild
  <1>6. CASE DropBackup
    BY <1>6 DEF DropBackup, Goto, FileInv, TypeOK
  <1>7. CASE CopyBackup
    BY <1>7 DEF CopyBackup, Goto, FileInv, TypeOK
  <1>8. CASE KeepInvalid
    BY <1>8 DEF KeepInvalid, FileInv
  <1>9. CASE WriteTmp
    BY <1>9 DEF WriteTmp, Goto, FileInv, TypeOK
  <1>10. CASE DropPrevious
    BY <1>10 DEF DropPrevious, Goto, FileInv, TypeOK
  <1>11. CASE SetAside
    BY <1>11 DEF SetAside, Goto, FileInv, TypeOK
  <1>12. CASE Install
    BY <1>12 DEF Install, Goto, FileInv, TypeOK
  <1>13. CASE DropOld
    BY <1>13 DEF DropOld, FileInv, TypeOK
  <1>14. CASE Stop
    BY <1>14 DEF Stop, GiveUp, files, FileInv, TypeOK
  <1>15. CASE StopHalfway
    BY <1>15 DEF StopHalfway, GiveUp, FileInv, TypeOK
  <1>16. CASE FailInstall
    BY <1>16 DEF FailInstall, GiveUp, FileInv, TypeOK
  <1>17. CASE Damage
    BY <1>17 DEF Damage, FileInv
  <1>18. QED
    BY <1>1, <1>3, <1>4, <1>5, <1>6, <1>7, <1>8, <1>9, <1>10, <1>11, <1>12, <1>13,
       <1>14, <1>15, <1>16, <1>17 DEF Next

\* Every step that damages no file is one of the cell, or leaves it alone.
LEMMA StepSimulation ==
  ASSUME FileInv, [Next]_vars, damages' = 0
  PROVE  [Cell!Next]_(Cell!cellVars)
  <1> USE CatalogAssumption
  <1>1. CASE UNCHANGED vars
    BY <1>1 DEF vars, Cell!cellVars, Value
  <1>2. ASSUME NEW v \in Catalogs, WriteCatalog(v) PROVE Cell!Next
    BY <1>2 DEF WriteCatalog, files, FileInv, Cell!Next, Cell!Start, Value
  <1>3. CASE Change \/ RestoreFromBackup \/ Rebuild
    BY <1>2, <1>3 DEF Change, RestoreFromBackup, Rebuild
  <1>4. CASE DropBackup
    BY <1>4 DEF DropBackup, Goto, FileInv, Cell!cellVars, Value
  <1>5. CASE CopyBackup
    BY <1>5 DEF CopyBackup, Goto, FileInv, Cell!cellVars, Value
  <1>6. CASE WriteTmp \/ DropPrevious
    BY <1>6 DEF WriteTmp, DropPrevious, Goto, Cell!cellVars, Value
  <1>7. CASE SetAside
    BY <1>7 DEF SetAside, Goto, FileInv, TypeOK, Cell!cellVars, Value
  <1>8. CASE Install
    BY <1>8 DEF Install, Goto, FileInv, TypeOK, Cell!Next, Cell!Commit, Value
  <1>9. CASE DropOld
    BY <1>9 DEF DropOld, FileInv, TypeOK, Cell!Next, Cell!Succeed, Value
  <1>10. CASE Stop
    BY <1>10 DEF Stop, GiveUp, files, FileInv, Cell!Next, Cell!Abandon, Value
  <1>11. CASE StopHalfway
    BY <1>11 DEF StopHalfway, GiveUp, FileInv, Cell!Next, Cell!Abandon, Value
  <1>12. CASE FailInstall
    BY <1>12 DEF FailInstall, GiveUp, FileInv, TypeOK, Cell!Next, Cell!Abandon, Value
  <1>13. CASE KeepInvalid \/ Damage
    BY <1>13 DEF KeepInvalid, Damage, FileInv
  <1>14. QED
    BY <1>1, <1>3, <1>4, <1>5, <1>6, <1>7, <1>8, <1>9, <1>10, <1>11, <1>12, <1>13 DEF Next

\* write_catalog and load_or_rebuild_catalog implement an atomic catalog, for
\* any set of catalogs and any number of crashes and failing calls, up to the
\* first damaged file.
THEOREM CatalogIsAtomic == Spec => ImplementsCell
  <1>1. Init => UntilDamage
    BY FileInvInit DEF Init, UntilDamage
  <1>2. UntilDamage /\ [Next]_vars => UntilDamage'
    BY DamageGrows, FileInvStep DEF UntilDamage
  <1>3. Init => Cell!Init
    BY CatalogAssumption DEF Init, Cell!Init, Value
  <1>4. UntilDamage /\ [Next]_vars => [Cell!Next]_(Cell!cellVars)
    <2> SUFFICES ASSUME UntilDamage, [Next]_vars PROVE [Cell!Next]_(Cell!cellVars)
      OBVIOUS
    <2>1. CASE damages' = 0
      BY <2>1, DamageGrows, StepSimulation DEF UntilDamage
    <2>2. CASE damages' # 0
      BY <2>2, DamageGrows DEF UntilDamage, Cell!Next, Cell!Harm
    <2>3. QED
      BY <2>1, <2>2
  <1>5. QED
    BY <1>1, <1>2, <1>3, <1>4, PTL DEF Spec, ImplementsCell, Cell!Spec
-----------------------------------------------------------------------------
(* FallbackIsRecent: where the last two acknowledged catalogs lie as long  *)
(* as no call fails and at most one file is damaged.                       *)

\* Between writes: the catalog acknowledged last, or a damaged file whose
\* backup is the one acknowledged before.
QuietFits ==
    pc = "idle" =>
      \/ path = IF acked = None THEN Missing ELSE acked
      \/ damages = 1 /\ path = Torn /\ (ackedOld # None => backup = ackedOld)

\* Before any damage, the backup is what a write replaces.
BackupIsPrevious ==
    damages = 0 =>
      /\ pc # "keepInvalid"
      /\ pc = "idle" /\ ackedOld # None => backup = ackedOld
      /\ pc = "idle" /\ acked = None => backup = Missing
      /\ pc \in {"dropBackup", "copyBackup"} => path = acked /\ acked # None
      /\ pc \in {"writeTmp", "dropPrevious", "setAside", "install", "dropOld"} /\ acked # None =>
           backup = acked

RecentInv ==
    /\ TypeOK
    /\ pc # "idle" => writing # None
    /\ pc = "keepInvalid" => path = Torn
    /\ faults = 0 /\ damages <= 1 =>
         /\ ackedOld # None => acked # None
         /\ pc \in StagedPC => tmp = writing
         /\ pc = "dropOld" => path = writing
         /\ QuietFits
         /\ BackupIsPrevious

LEMMA RecentInvInit == Init => RecentInv
  BY CatalogAssumption DEF Init, RecentInv, TypeOK, QuietFits, BackupIsPrevious

\* A step without a failing call keeps the number of faults; one with a failing
\* call ends the statement.
LEMMA RecentInvStep ==
  ASSUME RecentInv, [Next]_vars
  PROVE  RecentInv'
  <1> USE CatalogAssumption DEF RecentInv, TypeOK, QuietFits, BackupIsPrevious
  <1>1. CASE UNCHANGED vars
    BY <1>1 DEF vars
  <1>2. ASSUME NEW v \in Catalogs, WriteCatalog(v), Readable(path) \/ v = backup \/ Value = None
        PROVE  RecentInv'
    BY <1>2 DEF WriteCatalog, files, Value
  <1>3. CASE Change \/ RestoreFromBackup \/ Rebuild
    BY <1>2, <1>3 DEF Change, RestoreFromBackup, Rebuild
  <1>4. CASE DropBackup
    BY <1>4 DEF DropBackup, Goto
  <1>5. CASE CopyBackup
    BY <1>5 DEF CopyBackup, Goto
  <1>6. CASE KeepInvalid
    BY <1>6 DEF KeepInvalid, Goto
  <1>7. CASE WriteTmp
    BY <1>7 DEF WriteTmp, Goto
  <1>8. CASE DropPrevious
    BY <1>8 DEF DropPrevious, Goto
  <1>9. CASE SetAside
    BY <1>9 DEF SetAside, Goto
  <1>10. CASE Install
    BY <1>10 DEF Install, Goto
  <1>11. CASE DropOld
    BY <1>11 DEF DropOld
  <1>12. CASE Stop
    BY <1>12 DEF Stop, GiveUp, files
  <1>13. CASE StopHalfway
    BY <1>13 DEF StopHalfway, GiveUp
  <1>14. CASE FailInstall
    BY <1>14 DEF FailInstall, GiveUp
  <1>15. CASE Damage
    BY <1>15 DEF Damage
  <1>16. QED
    BY <1>1, <1>3, <1>4, <1>5, <1>6, <1>7, <1>8, <1>9, <1>10, <1>11, <1>12, <1>13,
       <1>14, <1>15 DEF Next

\* load_or_rebuild_catalog after one damaged file, for any set of catalogs and
\* any number of writes: what it returns is the catalog acknowledged last or
\* the one before it.
THEOREM FallbackStaysRecent == Spec => []FallbackIsRecent
  <1>1. RecentInv => FallbackIsRecent
    BY CatalogAssumption DEF RecentInv, TypeOK, QuietFits, FallbackIsRecent, Value
  <1>2. QED
    BY RecentInvInit, RecentInvStep, <1>1, PTL DEF Spec
=============================================================================
