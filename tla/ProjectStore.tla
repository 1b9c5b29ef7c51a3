---------------------------- MODULE ProjectStore ----------------------------
(***************************************************************************)
(* The files of one local project, as src-tauri/src/workspace_store.rs     *)
(* keeps them.  A project has a primary and a rotating backup copy; a copy *)
(* is a manifest file plus a directory of record files, two paths that no  *)
(* file system renames together.  A save stages a new copy under a hidden  *)
(* name, rotates the primary into the backup and renames the staged copy   *)
(* into place, one rename at a time; the process may die between any two   *)
(* renames and any rename may fail, in which case the handler rolls back.  *)
(*                                                                         *)
(* Every save writes a fresh revision number; a revision stands for the    *)
(* whole content of a workspace.  Commands run on Tauri's main thread, so  *)
(* one operation at a time is in flight.                                   *)
(***************************************************************************)
EXTENDS Naturals

CONSTANTS
    Legacy,      \* how many copies an earlier version may have left as documents
    MaxRev,      \* bound on the revisions written
    MaxDamage    \* bound on the files damaged behind the program's back

ASSUME BoundsAssumption ==
    Legacy \subseteq 0..2 /\ MaxRev \in Nat /\ MaxDamage \in Nat

VARIABLES
    man,        \* man[p]: the manifest file of copy p
    rec,        \* rec[p]: the record directory of copy p
    recovery,   \* files moved to the recovery folder
    orphans,    \* files left under hidden .staged / .previous names
    op,         \* the operation in flight
    pc,         \* its next file-system call
    committed,  \* the revision of the last operation that returned Ok
    lastRev,    \* revisions handed out so far
    damages,    \* files damaged so far
    clean       \* no crash, damage or failed rollback so far

vars == <<man, rec, recovery, orphans, op, pc, committed, lastRev, damages, clean>>

-----------------------------------------------------------------------------
(* Files.  A "document" is the whole workspace in one file, as versions    *)
(* before the physical record store wrote it; a "manifest" needs its       *)
(* "records".                                                              *)

Place == {"primary", "backup", "staged", "previous"}

Kinds == {"missing", "damaged", "document", "manifest", "records"}
File == [kind : Kinds, rev : Nat]

Missing == [kind |-> "missing", rev |-> 0]
Damaged == [kind |-> "damaged", rev |-> 0]
Document(r) == [kind |-> "document", rev |-> r]
Manifest(r) == [kind |-> "manifest", rev |-> r]
Records(r) == [kind |-> "records", rev |-> r]

\* path_present of the manifest or of the record directory.
Present(p) == man[p] # Missing \/ rec[p] # Missing

\* read_valid_stored_workspace: a whole document, or a manifest whose record
\* directory assembles.  The code compares no revision: any undamaged record
\* directory next to the manifest is taken for the manifest's own.
Valid(p) == \/ man[p].kind = "document"
            \/ man[p].kind = "manifest" /\ rec[p].kind = "records"

\* The revision a reader of copy p sees, that of its manifest.
RevOf(p) == man[p].rev

Idle == [kind |-> "none", dst |-> "primary", rev |-> 0, moved |-> FALSE]
Ops == [kind : {"none", "save", "migrate", "restore"}, dst : {"primary", "backup"},
        rev : Nat, moved : BOOLEAN]

PC == {"idle",
       "dropBackupManifest", "dropBackupRecords",      \* remove_store_copy(backup)
       "rotateManifest", "rotateRecords",              \* move_store_copy(primary, backup)
       "keepInvalidManifest", "keepInvalidRecords",    \* preserve_invalid_store(primary)
       "stageCopy",                                    \* stage_physical_copy
       "asideManifest", "asideRecords",                \* move_store_copy(dst, previous)
       "installRecords", "installManifest",            \* install_staged_copy
       "dropPreviousManifest", "dropPreviousRecords"}  \* remove_store_copy(previous)

\* Every path holds a file of a kind the store knows, and the operation in
\* flight is at one of the calls listed in PC.
TypeOK ==
    /\ man \in [Place -> File]
    /\ rec \in [Place -> File]
    /\ recovery \subseteq File
    /\ orphans \subseteq File
    /\ op \in Ops
    /\ pc \in PC
    /\ committed \in Nat
    /\ lastRev \in Nat
    /\ damages \in Nat
    /\ clean \in BOOLEAN

-----------------------------------------------------------------------------
(* A project that does not exist yet, or one an earlier version left as    *)
(* whole documents, with or without a backup.                              *)

NoFiles == [p \in Place |-> Missing]

Init ==
    /\ rec = NoFiles
    /\ \E n \in Legacy :
         /\ committed = n
         /\ lastRev = n
         /\ man = CASE n = 0 -> NoFiles
                    [] n = 1 -> [NoFiles EXCEPT !["primary"] = Document(1)]
                    [] n = 2 -> [NoFiles EXCEPT !["primary"] = Document(2),
                                                !["backup"] = Document(1)]
    /\ recovery = {} /\ orphans = {}
    /\ op = Idle /\ pc = "idle"
    /\ damages = 0 /\ clean = TRUE

-----------------------------------------------------------------------------
(* Helpers.                                                                *)

Keep(f) == IF f = Missing THEN {} ELSE {f}

Goto(label) == pc' = label /\ UNCHANGED op

\* The operation that begins with op' = o, at label l.
Begin(o, l) == op' = o /\ pc' = l

CopyOp(kind, dst, r) == [kind |-> kind, dst |-> dst, rev |-> r, moved |-> FALSE]

\* Mutant: a restore writes to a hidden name instead of to the primary.
RestorePrimaryHidden(r) ==
    Begin(CopyOp("restore", "staged", r),
          IF Present("primary") /\ ~Valid("primary") THEN "keepInvalidManifest" ELSE "stageCopy")

\* restore_backup once its backup is a manifest of revision r.
RestorePrimary(r) ==
    Begin(CopyOp("restore", "primary", r),
          IF Present("primary") /\ ~Valid("primary") THEN "keepInvalidManifest" ELSE "stageCopy")

\* A copy is written.  migrate_workspace_copies goes on from the primary to
\* the backup, restore_backup from its migrated backup to the primary.
Finish ==
    IF op.kind = "migrate" /\ op.dst = "primary" /\ man["backup"].kind = "document"
    THEN Begin(CopyOp("migrate", "backup", RevOf("backup")), "stageCopy")
    ELSE IF op.kind = "restore" /\ op.dst = "backup"
         THEN RestorePrimary(op.rev)
         ELSE Begin(Idle, "idle")

\* Rename the manifest (record directory) of copy p to copy q, if it is there.
MoveManifest(p, q) ==
    man' = IF man[p] = Missing THEN man ELSE [man EXCEPT ![q] = man[p], ![p] = Missing]
MoveRecords(p, q) ==
    rec' = IF rec[p] = Missing THEN rec ELSE [rec EXCEPT ![q] = rec[p], ![p] = Missing]

Staged(r) ==
    /\ man' = [man EXCEPT !["staged"] = Manifest(r)]
    /\ rec' = [rec EXCEPT !["staged"] = Records(r)]

-----------------------------------------------------------------------------
(* write_workspace: what save, create and rename run.                      *)

BeginSave ==
    /\ pc = "idle"
    /\ lastRev < MaxRev
    /\ lastRev' = lastRev + 1
    /\ Staged(lastRev + 1)
    /\ op' = CopyOp("save", "primary", lastRev + 1)
    /\ pc' = CASE ~Present("primary") -> "installRecords"
               [] Present("primary") /\ Valid("primary") -> "dropBackupManifest"
               [] OTHER -> "keepInvalidManifest"
    /\ UNCHANGED <<recovery, orphans, committed, damages, clean>>

DropBackupManifest ==
    /\ pc = "dropBackupManifest"
    /\ man' = [man EXCEPT !["backup"] = Missing]
    /\ Goto("dropBackupRecords")
    /\ UNCHANGED <<rec, recovery, orphans, committed, lastRev, damages, clean>>

\* Mutant: remove_store_copy removes the manifest only.
DropBackupRecordsSkipped ==
    /\ pc = "dropBackupRecords"
    /\ Goto("rotateManifest")
    /\ UNCHANGED <<man, rec, recovery, orphans, committed, lastRev, damages, clean>>

DropBackupRecords ==
    /\ pc = "dropBackupRecords"
    /\ rec' = [rec EXCEPT !["backup"] = Missing]
    /\ Goto("rotateManifest")
    /\ UNCHANGED <<man, recovery, orphans, committed, lastRev, damages, clean>>

RotateManifest ==
    /\ pc = "rotateManifest"
    /\ MoveManifest("primary", "backup")
    /\ Goto("rotateRecords")
    /\ UNCHANGED <<rec, recovery, orphans, committed, lastRev, damages, clean>>

RotateRecords ==
    /\ pc = "rotateRecords"
    /\ MoveRecords("primary", "backup")
    /\ op' = [op EXCEPT !.moved = TRUE]
    /\ pc' = "installRecords"
    /\ UNCHANGED <<man, recovery, orphans, committed, lastRev, damages, clean>>

KeepInvalidManifest ==
    /\ pc = "keepInvalidManifest"
    /\ recovery' = recovery \cup Keep(man["primary"])
    /\ man' = [man EXCEPT !["primary"] = Missing]
    /\ Goto("keepInvalidRecords")
    /\ UNCHANGED <<rec, orphans, committed, lastRev, damages, clean>>

\* Mutant: the invalid record directory is deleted instead of preserved.
KeepInvalidRecordsDeleted ==
    /\ pc = "keepInvalidRecords"
    /\ rec' = [rec EXCEPT !["primary"] = Missing]
    /\ Goto(IF op.kind = "save" THEN "installRecords" ELSE "stageCopy")
    /\ UNCHANGED <<man, recovery, orphans, committed, lastRev, damages, clean>>

KeepInvalidRecords ==
    /\ pc = "keepInvalidRecords"
    /\ recovery' = recovery \cup Keep(rec["primary"])
    /\ rec' = [rec EXCEPT !["primary"] = Missing]
    /\ Goto(IF op.kind = "save" THEN "installRecords" ELSE "stageCopy")
    /\ UNCHANGED <<man, orphans, committed, lastRev, damages, clean>>

-----------------------------------------------------------------------------
(* write_physical_copy, which replaces one copy: a document found by a     *)
(* read is rewritten as manifest and records (migrate_stored_workspace_    *)
(* copy), and restore_backup writes the backup's content to the primary.   *)

\* migrate_workspace_copies, the first thing read_workspace does: the primary
\* if it is a document, then the backup.
BeginMigrate ==
    /\ pc = "idle"
    /\ \E p \in {"primary", "backup"} :
         /\ man[p].kind = "document"
         /\ p = "backup" => man["primary"].kind # "document"
         /\ Begin(CopyOp("migrate", p, RevOf(p)), "stageCopy")
    /\ UNCHANGED <<man, rec, recovery, orphans, committed, lastRev, damages, clean>>

\* restore_backup: needs a readable backup, which it migrates first if it is
\* still a document.
BeginRestore ==
    /\ pc = "idle"
    /\ Valid("backup")
    /\ IF man["backup"].kind = "document"
       THEN Begin(CopyOp("restore", "backup", RevOf("backup")), "stageCopy")
       ELSE RestorePrimary(RevOf("backup"))
    /\ UNCHANGED <<man, rec, recovery, orphans, committed, lastRev, damages, clean>>

StageCopy ==
    /\ pc = "stageCopy"
    /\ Staged(op.rev)
    /\ op' = [op EXCEPT !.moved = Present(op.dst)]
    /\ pc' = IF Present(op.dst) THEN "asideManifest" ELSE "installRecords"
    /\ UNCHANGED <<recovery, orphans, committed, lastRev, damages, clean>>

\* Mutant: a restore rotates like a save.
AsideManifestRotated ==
    /\ pc = "asideManifest"
    /\ MoveManifest(op.dst, "backup")
    /\ Goto("asideRecords")
    /\ UNCHANGED <<rec, recovery, orphans, committed, lastRev, damages, clean>>

AsideManifest ==
    /\ pc = "asideManifest"
    /\ MoveManifest(op.dst, "previous")
    /\ Goto("asideRecords")
    /\ UNCHANGED <<rec, recovery, orphans, committed, lastRev, damages, clean>>

AsideRecords ==
    /\ pc = "asideRecords"
    /\ MoveRecords(op.dst, "previous")
    /\ Goto("installRecords")
    /\ UNCHANGED <<man, recovery, orphans, committed, lastRev, damages, clean>>

-----------------------------------------------------------------------------
(* install_staged_copy and the end of both operations.                     *)

InstallRecords ==
    /\ pc = "installRecords"
    /\ rec[op.dst] = Missing      \* no rename replaces a non-empty directory
    /\ MoveRecords("staged", op.dst)
    /\ Goto("installManifest")
    /\ UNCHANGED <<man, recovery, orphans, committed, lastRev, damages, clean>>

\* Where the operation put the copy it replaces.
Kept == IF op.kind = "save" THEN "backup" ELSE "previous"

\* Mutant: what was moved aside for the rollback is removed with it.
InstallManifestTidy ==
    /\ pc = "installManifest"
    /\ man' = [man EXCEPT ![op.dst] = man["staged"], !["staged"] = Missing, ![Kept] = Missing]
    /\ committed' = IF op.dst = "primary" THEN op.rev ELSE committed
    /\ IF op.kind # "save" /\ op.moved THEN Goto("dropPreviousManifest") ELSE Finish
    /\ UNCHANGED <<rec, recovery, orphans, lastRev, damages, clean>>

InstallManifest ==
    /\ pc = "installManifest"
    /\ MoveManifest("staged", op.dst)
    /\ committed' = IF op.dst = "primary" THEN op.rev ELSE committed
    /\ IF op.kind # "save" /\ op.moved THEN Goto("dropPreviousManifest") ELSE Finish
    /\ UNCHANGED <<rec, recovery, orphans, lastRev, damages, clean>>

DropPreviousManifest ==
    /\ pc = "dropPreviousManifest"
    /\ man' = [man EXCEPT !["previous"] = Missing]
    /\ Goto("dropPreviousRecords")
    /\ UNCHANGED <<rec, recovery, orphans, committed, lastRev, damages, clean>>

DropPreviousRecords ==
    /\ pc = "dropPreviousRecords"
    /\ rec' = [rec EXCEPT !["previous"] = Missing]
    /\ Finish
    /\ UNCHANGED <<man, recovery, orphans, committed, lastRev, damages, clean>>

-----------------------------------------------------------------------------
(* Failing calls.  Any call may fail; while the handler rolls back, at     *)
(* most one further call fails (let _ = ... ignores its result).           *)

\* What is left under the hidden names, which carry a fresh nonce, is never
\* read again.  m and r are the copies as the call left them.
Settle(m, r, leaked) ==
    /\ man' = [m EXCEPT !["staged"] = Missing, !["previous"] = Missing]
    /\ rec' = [r EXCEPT !["staged"] = Missing, !["previous"] = Missing]
    /\ orphans' = orphans \cup UNION {Keep(m[p]) \cup Keep(r[p]) : p \in leaked}

\* The operation returns an error.
EndWith(m, r, leaked) == Settle(m, r, leaked) /\ Begin(Idle, "idle")

\* A half-done remove_dir_all leaves a directory that no longer assembles.
HalfRemoved(p) == [rec EXCEPT ![p] = IF rec[p] = Missing THEN Missing ELSE Damaged]

\* A removal, a preservation or the manifest rename of a rotation fails: the
\* handler returns with ?.  write_workspace leaves its staged copy behind,
\* write_physical_copy removes it.
FailEarly ==
    /\ \/ /\ pc \in {"dropBackupManifest", "dropBackupRecords", "rotateManifest",
                    "keepInvalidManifest", "keepInvalidRecords", "stageCopy"}
          /\ EndWith(man, rec, {"staged"})
       \/ /\ pc = "dropBackupRecords"
          /\ EndWith(man, HalfRemoved("backup"), {"staged"})
       \/ /\ pc = "asideManifest"
          /\ EndWith(man, rec, {})
    /\ UNCHANGED <<recovery, committed, lastRev, damages, clean>>
\* move_store_copy fails on the record directory: the manifest is renamed
\* back, or that fails as well.
FailMoveRecords ==
    /\ pc \in {"rotateRecords", "asideRecords"}
    /\ rec[op.dst] # Missing
    /\ \/ /\ EndWith([man EXCEPT ![op.dst] = man[Kept], ![Kept] = Missing], rec,
                     IF op.kind = "save" THEN {"staged"} ELSE {})
          /\ UNCHANGED clean
       \/ /\ EndWith(man, rec, IF op.kind = "save" THEN {"staged"} ELSE {"previous"})
          /\ clean' = FALSE
    /\ UNCHANGED <<recovery, committed, lastRev, damages>>

\* Mutant: no rollback of the rotation.
FailInstallNoRollback ==
    /\ pc \in {"installRecords", "installManifest"}
    /\ EndWith(man, [rec EXCEPT ![op.dst] = Missing], {})
    /\ UNCHANGED <<recovery, committed, lastRev, damages, clean>>

\* install_staged_copy fails on the record directory or on the manifest (the
\* installed records are removed again).  The replaced copy is moved back,
\* unless a rollback call fails: then it stays where it is, and the records
\* just installed may stay as well.
FailInstall ==
    /\ pc \in {"installRecords", "installManifest"}
    /\ LET emptied == [rec EXCEPT ![op.dst] = Missing] IN
       \/ /\ IF op.moved
             THEN EndWith([man EXCEPT ![op.dst] = man[Kept], ![Kept] = Missing],
                          [emptied EXCEPT ![op.dst] = rec[Kept], ![Kept] = Missing], {})
             ELSE EndWith(man, emptied, {})
          /\ UNCHANGED clean
       \/ /\ op.moved
          /\ EndWith(man, emptied, {"previous"})
          /\ clean' = FALSE
       \/ /\ pc = "installManifest"
          /\ EndWith(man, rec, {"previous"})
          /\ clean' = FALSE
       \/ /\ pc = "installManifest"
          /\ EndWith(man, HalfRemoved(op.dst), {"previous"})
          /\ clean' = FALSE
    /\ UNCHANGED <<recovery, committed, lastRev, damages>>

\* The replaced copy cannot be removed: ignored, the operation succeeded.
FailDropPrevious ==
    /\ pc \in {"dropPreviousManifest", "dropPreviousRecords"}
    /\ Settle(man, rec, {"previous"})
    /\ Finish
    /\ UNCHANGED <<recovery, committed, lastRev, damages, clean>>

-----------------------------------------------------------------------------
(* The process dies, or a file is damaged behind its back.                 *)

Crash ==
    /\ pc # "idle"
    /\ \/ EndWith(man, rec, {"staged", "previous"})
       \/ pc = "dropBackupRecords" /\ EndWith(man, HalfRemoved("backup"), {"staged"})
    /\ clean' = FALSE
    /\ UNCHANGED <<recovery, committed, lastRev, damages>>

Damage ==
    /\ pc = "idle"
    /\ damages < MaxDamage
    /\ \E p \in {"primary", "backup"} :
         \/ man[p] # Missing /\ man' = [man EXCEPT ![p] = Damaged] /\ UNCHANGED rec
         \/ rec[p] # Missing /\ rec' = [rec EXCEPT ![p] = Damaged] /\ UNCHANGED man
    /\ damages' = damages + 1
    /\ clean' = FALSE
    /\ UNCHANGED <<recovery, orphans, op, pc, committed, lastRev>>

-----------------------------------------------------------------------------
Next ==
    \/ BeginSave \/ BeginMigrate \/ BeginRestore
    \/ DropBackupManifest \/ DropBackupRecords
    \/ RotateManifest \/ RotateRecords
    \/ KeepInvalidManifest \/ KeepInvalidRecords
    \/ StageCopy \/ AsideManifest \/ AsideRecords
    \/ InstallRecords \/ InstallManifest
    \/ DropPreviousManifest \/ DropPreviousRecords
    \/ Crash \/ Damage
    \/ FailEarly \/ FailMoveRecords \/ FailInstall \/ FailDropPrevious

Spec == Init /\ [][Next]_vars

-----------------------------------------------------------------------------
(* Properties.                                                             *)

\* read_valid_stored_workspace never compares revisions, so a manifest found
\* next to the records of another save would be opened as one workspace.
\* Whatever crashes, failures and damage happen, no copy is ever such a mix.
NoMixedRevision ==
    \A p \in {"primary", "backup"} :
        man[p].kind = "manifest" /\ rec[p].kind = "records" => man[p].rev = rec[p].rev

OnDisk == recovery \cup orphans \cup {man[p] : p \in Place} \cup {rec[p] : p \in Place}

\* No operation erases the last acknowledged revision before its successor is
\* complete: unless a file was damaged, all its parts are still on disk after
\* any number of crashes and failed calls (though perhaps under a name that
\* the program does not read).
CommittedOnDisk ==
    damages = 0 /\ committed > 0 =>
        \/ Document(committed) \in OnDisk
        \/ {Manifest(committed), Records(committed)} \subseteq OnDisk

\* A save, migration or restore that fails rolls back: as long as rollbacks
\* succeed and the process does not die, the primary is readable between
\* operations and holds the last acknowledged revision.
FailureKeepsPrimary ==
    clean /\ pc = "idle" /\ committed > 0 => Valid("primary") /\ RevOf("primary") = committed

\* "retain the prior valid primary as the rotating backup" (write_workspace):
\* when a save is acknowledged the backup is the revision it replaced.
SaveRotatesBackup ==
    [][committed' # committed /\ op.kind = "save" /\ clean /\ committed > 0 =>
          Valid("backup")' /\ RevOf("backup")' = committed]_vars

\* restore_backup never gives up its source: until the primary is rewritten
\* the backup stays readable, so a crash during a restore loses nothing.
RestoreKeepsBackup ==
    op.kind = "restore" /\ op.dst = "primary" => Valid("backup") /\ RevOf("backup") = op.rev

\* What the README promises of "atomic per-project persistence ... with
\* recoverable prior revisions": undamaged files can always be opened, from
\* the primary or from the backup, wherever the process was killed.
AlwaysRecoverable ==
    pc = "idle" /\ damages = 0 /\ committed > 0 => Valid("primary") \/ Valid("backup")

(* All of it, for a store that is saved, restored, copied, damaged and     *)
(* killed in any order: the parts above hold together with the types       *)
(* (workspace_store.rs).                                                   *)
StoreKeepsWork ==
    /\ []TypeOK /\ []CommittedOnDisk /\ []FailureKeepsPrimary /\ []RestoreKeepsBackup
    /\ SaveRotatesBackup
=============================================================================
