--------------------------- MODULE WorkspaceCatalog ---------------------------
(***************************************************************************)
(* The catalog of local projects and the commands that keep it and the     *)
(* project files in step: load, open, save, create, rename, reorder,       *)
(* snapshots, delete into the trash, restore from it, purge it             *)
(* (src-tauri/src/workspace_store.rs, src-tauri/src/vault_keychain.rs).    *)
(*                                                                         *)
(* The catalog file is one atomic value here, which CatalogFile shows it   *)
(* to be; a project's copies are present or not, ProjectStore has the      *)
(* renames inside a copy.  Delete, restore and purge move one path at a    *)
(* time, and any of these calls may fail or be the last one of the         *)
(* process.  Tauri runs these commands one after the other.                *)
(***************************************************************************)
EXTENDS Naturals, Sequences, FiniteSets, SequencesExt

CONSTANTS
    Ids,             \* project identifiers (random, never reused by the interface)
    NoId,
    MaxWorkspaces,   \* MAX_WORKSPACES
    MaxTrash,        \* bound on the deletions explored
    MaxFaults        \* bound on crashes and failing calls

ASSUME IdAssumption == NoId \notin Ids
ASSUME BoundsAssumption == {MaxWorkspaces, MaxTrash, MaxFaults} \subseteq Nat

VARIABLES
    entries,   \* the catalog: listed projects, in order
    active,    \* the catalog: activeWorkspaceId
    readable,  \* catalog.json or its backup can be read
    live,      \* live[id]: the paths of project id that exist
    trash,     \* trash[at]: the deletion group with timestamp at
    recovery,  \* recovery[id]: paths preserved in the recovery folder
    keys,      \* projects whose vault key is in the credential store
    cmd,       \* the command in flight
    todo,      \* the calls it still has to make
    torn,      \* projects a crash or failing call left half-done
    faults

vars == <<entries, active, readable, live, trash, recovery, keys, cmd, todo, torn, faults>>

-----------------------------------------------------------------------------
Primary == {"workspace", "records"}
Backup == {"backup", "backupRecords"}
Paths == Primary \cup Backup \cup {"vault", "snapshots"}
Kinds == {"none", "create", "delete", "restore", "purge", "empty"}

Idle == [kind |-> "none", id |-> NoId, at |-> 0, activate |-> FALSE]
Command(kind, id, at) == [kind |-> kind, id |-> id, at |-> at, activate |-> TRUE]

Listed == ToSet(entries)

\* read_workspace_raw: from the primary, else from the backup.
Openable(paths) == Primary \subseteq paths \/ Backup \subseteq paths

Used == {id \in Ids : live[id] # {} \/ id \in Listed \/ \E at \in DOMAIN trash : trash[at].id = id}

\* The catalog lists projects, every path and trash entry belongs to one, and
\* the command in flight is at one of its calls.
TypeOK ==
    /\ entries \in Seq(Ids) /\ active \in Ids \cup {NoId} /\ readable \in BOOLEAN
    /\ live \in [Ids -> SUBSET Paths] /\ recovery \in [Ids -> SUBSET Paths]
    /\ \A at \in DOMAIN trash :
         trash[at].id \in Ids /\ trash[at].paths \subseteq Paths \cup {"metadata"}
    /\ keys \subseteq Ids /\ torn \subseteq Ids
    /\ cmd.kind \in Kinds /\ cmd.id \in Ids \cup {NoId}
    /\ faults \in Nat

\* First launch: an empty store.
Init ==
    /\ entries = <<>> /\ active = NoId /\ readable = FALSE
    /\ live = [id \in Ids |-> {}] /\ recovery = [id \in Ids |-> {}]
    /\ trash = <<>> /\ keys = {}
    /\ cmd = Idle /\ todo = <<>>
    /\ torn = {} /\ faults = 0

-----------------------------------------------------------------------------
(* Helpers.                                                                *)

\* A command may start: the previous one is over and load_or_rebuild_catalog
\* returns the stored catalog.
Ready == cmd = Idle /\ readable

Begin(c, calls) == cmd' = c /\ todo' = calls
End == cmd' = Idle /\ todo' = <<>>
Proceed == todo' = Tail(todo) /\ UNCHANGED cmd
Only(calls, present) == SelectSeq(calls, LAMBDA c : c \in present)
At(call) == cmd # Idle /\ todo # <<>> /\ Head(todo) = call

OnlyCatalog == UNCHANGED <<readable, live, trash, recovery, keys, cmd, todo, torn, faults>>
OnlyFiles == UNCHANGED <<entries, active, readable, trash, keys, cmd, todo, torn, faults>>

\* write_workspace: a readable primary becomes the backup, an unreadable one
\* goes to the recovery folder.
WriteWorkspace(id) ==
    IF Primary \subseteq live[id]
    THEN live' = [live EXCEPT ![id] = @ \cup Primary \cup Backup] /\ UNCHANGED recovery
    ELSE /\ recovery' = [recovery EXCEPT ![id] = @ \cup (live[id] \cap Primary)]
         /\ live' = [live EXCEPT ![id] = @ \cup Primary]

-----------------------------------------------------------------------------
(* Commands of a single write.                                             *)

\* load_or_rebuild_catalog with both catalog files unreadable: the projects
\* whose primary can be read, sorted by names this model does not have.
RebuildCatalog ==
    /\ cmd = Idle /\ ~readable
    /\ LET found == {id \in Ids : Primary \subseteq live[id]} IN
         /\ found # {}
         /\ \E order \in SetToSeqs(found) : entries' = order /\ active' = order[1]
    /\ readable' = TRUE
    /\ UNCHANGED <<live, trash, recovery, keys, cmd, todo, torn, faults>>

\* load with a usable project: ensure_active, then the catalog is written.
Load ==
    /\ Ready
    /\ \E i \in DOMAIN entries : Openable(live[entries[i]])
    /\ active' = IF active \in Listed /\ Openable(live[active]) THEN active
                 ELSE entries[CHOOSE i \in DOMAIN entries :
                        /\ Openable(live[entries[i]])
                        /\ \A j \in 1..(i - 1) : ~Openable(live[entries[j]])]
    /\ UNCHANGED entries /\ OnlyCatalog

Open(id) ==
    /\ Ready /\ id \in Listed /\ Openable(live[id])
    /\ active' = id
    /\ UNCHANGED entries /\ OnlyCatalog

\* save; rename and restore_snapshot are a save of what could be read.
Save(id) == Ready /\ id \in Listed /\ WriteWorkspace(id) /\ OnlyFiles

Rename(id) == Openable(live[id]) /\ Save(id)

RestoreSnapshot(id) ==
    /\ Ready /\ id \in Listed /\ "snapshots" \in live[id]
    /\ WriteWorkspace(id)
    /\ active' = id
    /\ UNCHANGED <<entries, readable, trash, keys, cmd, todo, torn, faults>>

CreateSnapshot(id) ==
    /\ Ready /\ id \in Listed /\ Openable(live[id])
    /\ live' = [live EXCEPT ![id] = @ \cup {"snapshots"}]
    /\ UNCHANGED recovery /\ OnlyFiles

\* restore_backup, then open.  An unreadable primary is preserved.
RestoreBackup(id) ==
    /\ Ready /\ id \in Listed /\ Backup \subseteq live[id]
    /\ recovery' = [recovery EXCEPT ![id] = @ \cup
                      (IF Primary \subseteq live[id] THEN {} ELSE live[id] \cap Primary)]
    /\ live' = [live EXCEPT ![id] = @ \cup Primary]
    /\ active' = id
    /\ UNCHANGED <<entries, readable, trash, keys, cmd, todo, torn, faults>>

\* Mutant: the entry is inserted before it is removed.
ReorderCopies(id, target, after) ==
    /\ Ready /\ {id, target} \subseteq Listed /\ id # target
    /\ LET at == CHOOSE i \in DOMAIN entries : entries[i] = target
       IN  entries' = InsertAt(entries, IF after THEN at + 1 ELSE at, id)
    /\ UNCHANGED active /\ OnlyCatalog

Reorder(id, target, after) ==
    /\ Ready /\ {id, target} \subseteq Listed /\ id # target
    /\ LET rest == SelectSeq(entries, LAMBDA e : e # id)
           at == CHOOSE i \in DOMAIN rest : rest[i] = target
       IN  entries' = InsertAt(rest, IF after THEN at + 1 ELSE at, id)
    /\ UNCHANGED active /\ OnlyCatalog

\* The project's vault is created or saved, its key retained, forgotten or the
\* vault reset (vault_keychain).
SaveVault(id) ==
    /\ Ready /\ active = id
    /\ live' = [live EXCEPT ![id] = @ \cup {"vault"}]
    /\ UNCHANGED recovery /\ OnlyFiles

SetKey(retained) ==
    keys' = retained
    /\ UNCHANGED <<entries, active, readable, live, trash, recovery, cmd, todo, torn, faults>>
RetainKey(id) == Ready /\ active = id /\ "vault" \in live[id] /\ SetKey(keys \cup {id})
ForgetKey(id) == Ready /\ active = id /\ SetKey(keys \ {id})

ResetVault(id) ==
    /\ Ready /\ active = id
    /\ keys' = keys \ {id}
    /\ live' = [live EXCEPT ![id] = @ \ {"vault"}]
    /\ UNCHANGED <<entries, active, readable, trash, recovery, cmd, todo, torn, faults>>

-----------------------------------------------------------------------------
(* create_with_activation, and load when no project can be opened.         *)

BeginCreate ==
    /\ Ready
    /\ Len(entries) < MaxWorkspaces
    /\ \E id \in Ids \ Used, activate \in BOOLEAN :
         Begin([Command("create", id, 0) EXCEPT !.activate = activate], <<"files", "catalog">>)
    /\ UNCHANGED <<entries, active, readable, live, trash, recovery, keys, torn, faults>>

\* Neither a catalog nor a readable project: load initialises the catalog with
\* the default project, create with the project it is given.
BeginFirst ==
    /\ cmd = Idle /\ ~readable
    /\ \A id \in Ids : ~(Primary \subseteq live[id])
    /\ entries' = <<>> /\ active' = NoId
    /\ \E id \in Ids \ Used : Begin(Command("create", id, 0), <<"files", "catalog">>)
    /\ UNCHANGED <<readable, live, trash, recovery, keys, torn, faults>>

\* load, every listed project being unreadable: a fresh project is added.
LoadFresh ==
    /\ Ready
    /\ \A id \in Listed : ~Openable(live[id])
    /\ \E id \in Ids \ Used : Begin(Command("create", id, 0), <<"files", "catalog">>)
    /\ UNCHANGED <<entries, active, readable, live, trash, recovery, keys, torn, faults>>

\* Mutant: a new project is given deletion metadata.
CreateFilesMetadata ==
    /\ cmd.kind = "create" /\ At("files")
    /\ live' = [live EXCEPT ![cmd.id] = @ \cup Primary \cup {"metadata"}]
    /\ Proceed
    /\ UNCHANGED <<entries, active, readable, trash, recovery, keys, torn, faults>>

CreateFiles ==
    /\ cmd.kind = "create" /\ At("files")
    /\ live' = [live EXCEPT ![cmd.id] = @ \cup Primary]
    /\ Proceed
    /\ UNCHANGED <<entries, active, readable, trash, recovery, keys, torn, faults>>

CreateCatalog ==
    /\ cmd.kind = "create" /\ At("catalog")
    /\ entries' = Append(entries, cmd.id)
    /\ active' = IF cmd.activate \/ active = NoId THEN cmd.id ELSE active
    /\ readable' = TRUE
    /\ End
    /\ UNCHANGED <<live, trash, recovery, keys, torn, faults>>

-----------------------------------------------------------------------------
(* delete: every path of the project is renamed into one trash group.      *)

DeleteOrder == <<"workspace", "backup", "vault", "records", "backupRecords", "snapshots">>

\* The catalog entry is written next to them as metadata first.
BeginDelete(id) ==
    /\ Ready /\ id \in Listed /\ Len(entries) > 1
    /\ Len(trash) < MaxTrash
    /\ trash' = Append(trash, [id |-> id, paths |-> {"metadata"}])
    /\ Begin(Command("delete", id, Len(trash) + 1), Only(DeleteOrder, live[id]) \o <<"catalog">>)
    /\ UNCHANGED <<entries, active, readable, live, recovery, keys, torn, faults>>

\* Mutant: the vault file is removed with the project.
DeletePathErasing ==
    /\ cmd.kind = "delete" /\ todo # <<>> /\ Head(todo) \in Paths
    /\ live' = [live EXCEPT ![cmd.id] = @ \ {Head(todo)}]
    /\ trash' = [trash EXCEPT ![cmd.at].paths = @ \cup ({Head(todo)} \ {"vault"})]
    /\ Proceed
    /\ UNCHANGED <<entries, active, readable, recovery, keys, torn, faults>>

DeletePath ==
    /\ cmd.kind = "delete" /\ todo # <<>> /\ Head(todo) \in Paths
    /\ live' = [live EXCEPT ![cmd.id] = @ \ {Head(todo)}]
    /\ trash' = [trash EXCEPT ![cmd.at].paths = @ \cup {Head(todo)}]
    /\ Proceed
    /\ UNCHANGED <<entries, active, readable, recovery, keys, torn, faults>>

DeleteCatalog ==
    /\ cmd.kind = "delete" /\ At("catalog")
    /\ LET index == CHOOSE i \in DOMAIN entries : entries[i] = cmd.id
           rest == RemoveAt(entries, index)
       IN  /\ entries' = rest
           /\ active' = IF active # cmd.id THEN active
                        ELSE rest[IF index <= Len(rest) THEN index ELSE Len(rest)]
    /\ End
    /\ UNCHANGED <<readable, live, trash, recovery, keys, torn, faults>>

-----------------------------------------------------------------------------
(* restore_trash: the group is copied back (its snapshots are renamed      *)
(* back), listed, and then removed from the trash.                         *)

\* Existing local files conflict with this deleted project restore.
Conflict(g) ==
    \/ live[g.id] \cap (Paths \ {"vault"}) # {}
    \/ "vault" \in g.paths \cap live[g.id]

BeginRestore(at) ==
    /\ Ready
    /\ Openable(trash[at].paths)
    /\ Len(entries) < MaxWorkspaces
    /\ trash[at].id \notin Listed
    /\ ~Conflict(trash[at])
    /\ Begin(Command("restore", trash[at].id, at),
             <<"primary">> \o Only(<<"backup", "vault", "snapshots">>, trash[at].paths)
             \o <<"catalog">> \o Only(<<"workspace", "backup", "vault", "metadata">>, trash[at].paths))
    /\ UNCHANGED <<entries, active, readable, live, trash, recovery, keys, torn, faults>>

\* The live paths that each copying call creates.
Copied(call, group) ==
    CASE call = "primary" -> Primary
      [] call = "backup" -> IF Backup \subseteq group THEN Backup ELSE {}
      [] call \in {"vault", "snapshots"} -> {call}

\* The restored project is not in the catalog yet.
Unlisted == "catalog" \in ToSet(todo)

RestorePath ==
    /\ cmd.kind = "restore" /\ Unlisted /\ Head(todo) # "catalog"
    /\ live' = [live EXCEPT ![cmd.id] = @ \cup Copied(Head(todo), trash[cmd.at].paths)]
    /\ trash' = IF Head(todo) = "snapshots"
                THEN [trash EXCEPT ![cmd.at].paths = @ \ {"snapshots"}] ELSE trash
    /\ Proceed
    /\ UNCHANGED <<entries, active, readable, recovery, keys, torn, faults>>

RestoreCatalog ==
    /\ cmd.kind = "restore" /\ At("catalog")
    /\ entries' = Append(entries, cmd.id)
    /\ active' = cmd.id
    /\ IF Len(todo) = 1 THEN End ELSE Proceed
    /\ UNCHANGED <<readable, live, trash, recovery, keys, torn, faults>>

\* The paths each cleaning call takes out of the trash: a manifest goes with
\* its records.
Cleaned(call) ==
    CASE call = "workspace" -> Primary
      [] call = "backup" -> Backup
      [] call \in {"vault", "metadata"} -> {call}

Cleaning == cmd.kind = "restore" /\ todo # <<>> /\ ~Unlisted

\* Mutant: the restored group stays in the trash.
RestoreCleanLeaves ==
    /\ Cleaning
    /\ IF Len(todo) = 1 THEN End ELSE Proceed
    /\ UNCHANGED <<entries, active, readable, live, trash, recovery, keys, torn, faults>>

\* A copy that was readable is removed, what there is of one that was not is
\* moved to the recovery folder.
RestoreClean ==
    /\ Cleaning
    /\ LET group == trash[cmd.at].paths
           gone == Cleaned(Head(todo))
       IN  /\ trash' = [trash EXCEPT ![cmd.at].paths = @ \ gone]
           /\ recovery' = IF gone \subseteq group THEN recovery
                          ELSE [recovery EXCEPT ![cmd.id] = @ \cup (group \cap gone)]
    /\ IF Len(todo) = 1 THEN End ELSE Proceed
    /\ UNCHANGED <<entries, active, readable, live, keys, torn, faults>>

-----------------------------------------------------------------------------
(* purge_trash and empty_trash: the saved key goes first, then the paths.  *)

PurgeCalls(at) ==
    <<"forget">> \o Only(<<"workspace", "backup", "vault", "metadata",
                          "records", "backupRecords", "snapshots">>, trash[at].paths)

BeginPurge(at) ==
    /\ cmd = Idle
    /\ trash[at].paths # {}
    /\ \E kind \in {"purge", "empty"} : Begin(Command(kind, trash[at].id, at), PurgeCalls(at))
    /\ UNCHANGED <<entries, active, readable, live, trash, recovery, keys, torn, faults>>

PurgeCall ==
    /\ cmd.kind \in {"purge", "empty"} /\ todo # <<>>
    /\ IF Head(todo) = "forget"
       THEN keys' = keys \ {cmd.id} /\ UNCHANGED trash
       ELSE trash' = [trash EXCEPT ![cmd.at].paths = @ \ {Head(todo)}] /\ UNCHANGED keys
    /\ Proceed
    /\ UNCHANGED <<entries, active, readable, live, recovery, torn, faults>>

\* empty_trash goes on with another group, in no particular order.
PurgeNext ==
    /\ cmd.kind \in {"purge", "empty"} /\ todo = <<>>
    /\ LET more == {at \in DOMAIN trash : trash[at].paths # {}} IN
       IF cmd.kind = "empty" /\ more # {}
       THEN \E at \in more : Begin(Command("empty", trash[at].id, at), PurgeCalls(at))
       ELSE End
    /\ UNCHANGED <<entries, active, readable, live, trash, recovery, keys, torn, faults>>

-----------------------------------------------------------------------------
(* Crashes, failing calls and damage.                                      *)

Fault(touched) ==
    /\ faults < MaxFaults
    /\ faults' = faults + 1
    /\ torn' = torn \cup touched

\* The process dies before the next call, or that call fails in a command
\* that undoes nothing: create, delete and purge return with ?.
Interrupted ==
    /\ cmd # Idle
    /\ Fault({cmd.id})
    /\ End
    /\ UNCHANGED <<entries, active, readable, live, trash, recovery, keys>>

\* What restore_trash undoes: the snapshots are renamed back, every path it
\* has created is removed.
Undo ==
    LET created == IF "vault" \in trash[cmd.at].paths THEN Paths ELSE Paths \ {"vault"} IN
    /\ trash' = [trash EXCEPT ![cmd.at].paths = @ \cup (live[cmd.id] \cap {"snapshots"})]
    /\ live' = [live EXCEPT ![cmd.id] = @ \ created]

\* Mutant: restore_trash returns without undoing what it copied.
RestoreFailsDirty ==
    /\ cmd.kind = "restore" /\ Unlisted
    /\ Fault({}) /\ End
    /\ UNCHANGED <<live, trash, entries, active, readable, recovery, keys>>

\* A call of restore_trash fails, the catalog write being the last that can.
RestoreFails ==
    /\ cmd.kind = "restore" /\ Unlisted
    /\ Fault({}) /\ Undo /\ End
    /\ UNCHANGED <<entries, active, readable, recovery, keys>>

\* write_catalog reports an error after its rename (it could not remove the
\* previous file): the project is listed, yet restore_trash undoes the rest.
RestoreFailsLate ==
    /\ cmd.kind = "restore" /\ At("catalog")
    /\ entries' = Append(entries, cmd.id) /\ active' = cmd.id
    /\ Fault({cmd.id}) /\ Undo /\ End
    /\ UNCHANGED <<readable, recovery, keys>>

\* A path cannot be removed from the trash; restore_trash ignores that.
CleanFails ==
    /\ Cleaning
    /\ Fault({cmd.id})
    /\ IF Len(todo) = 1 THEN End ELSE Proceed
    /\ UNCHANGED <<entries, active, readable, live, trash, recovery, keys>>

\* A save was killed inside a rotation (see ProjectStore): no copy can be read.
SaveKilled(id) ==
    /\ Ready /\ id \in Listed /\ Primary \subseteq live[id]
    /\ Fault({id})
    /\ live' = [live EXCEPT ![id] = (@ \ {"workspace", "backupRecords"}) \cup {"backup", "records"}]
    /\ UNCHANGED <<entries, active, readable, trash, recovery, keys, cmd, todo>>

\* Both catalog files are lost.
CatalogLost ==
    /\ Ready
    /\ Fault({})
    /\ readable' = FALSE
    /\ UNCHANGED <<entries, active, live, trash, recovery, keys, cmd, todo>>

-----------------------------------------------------------------------------
Commands ==
    \/ RebuildCatalog \/ Load \/ BeginFirst \/ LoadFresh \/ BeginCreate
    \/ \E id \in Ids :
         \/ Open(id) \/ Save(id) \/ Rename(id) \/ BeginDelete(id)
         \/ CreateSnapshot(id) \/ RestoreSnapshot(id) \/ RestoreBackup(id)
         \/ SaveVault(id) \/ RetainKey(id) \/ ForgetKey(id) \/ ResetVault(id)
    \/ \E id, target \in Ids, after \in BOOLEAN : Reorder(id, target, after)
    \/ \E at \in DOMAIN trash : BeginRestore(at) \/ BeginPurge(at)

Calls ==
    \/ CreateFiles \/ CreateCatalog
    \/ DeletePath \/ DeleteCatalog
    \/ RestorePath \/ RestoreCatalog \/ RestoreClean
    \/ PurgeCall \/ PurgeNext

Faults ==
    \/ Interrupted \/ RestoreFails \/ RestoreFailsLate \/ CleanFails \/ CatalogLost
    \/ \E id \in Ids : SaveKilled(id)

Next == Commands \/ Calls \/ Faults

Spec == Init /\ [][Next]_vars

-----------------------------------------------------------------------------
(* Properties.                                                             *)

\* catalog_is_valid rejects a catalog with a repeated project, and a rejected
\* catalog is silently replaced by its backup; the active project is listed.
\* No sequence of commands, crashes and rebuilds writes any other catalog.
CatalogConsistent ==
    /\ IsInjective(entries)
    /\ readable => active \in Listed

\* A crash or a failing call hurts only the project it is about: every other
\* project is listed exactly when its files are in place, and can be opened.
FaultsStayLocal ==
    cmd = Idle /\ readable =>
        \A id \in Ids \ torn :
            /\ id \in Listed <=> live[id] \cap (Primary \cup Backup) # {}
            /\ id \in Listed => Openable(live[id])

\* What restore_trash has copied so far is not the project's only copy.
Restoring(id) == cmd.kind = "restore" /\ cmd.id = id /\ Unlisted

Kept(id) ==
    (IF Restoring(id) THEN live[id] \ (Primary \cup Backup) ELSE live[id])
    \cup recovery[id]
    \cup UNION {trash[at].paths : at \in {x \in DOMAIN trash : trash[x].id = id}}

\* Soft deletion: creating, deleting and restoring, wherever they fail or are
\* killed, never erase the last copy of any file of any project.
NothingErased ==
    [][cmd.kind \in {"create", "delete", "restore"} =>
          \A id \in Ids : Kept(id) \ {"metadata"} \subseteq Kept(id)']_vars

\* Purging the trash forgets the vault key of the purged project; a project in
\* use never loses its key that way unless a fault left it in the trash too.
PurgeSparesLiveKeys ==
    [][cmd.kind \in {"purge", "empty"} =>
          \A id \in (Listed \cap keys) \ torn : id \in keys']_vars

\* "names and catalog size are bounded" (docs/LOCAL_PROJECTS.md), and
\* catalog_is_valid rejects a larger catalog.
CatalogBounded == Len(entries) <= MaxWorkspaces

(* The catalog through every command and fault: consistent, faults stay    *)
(* with their project, and nothing is erased that was not purged           *)
(* (workspace_store.rs, the catalog and trash commands).                   *)
CatalogSound ==
    []TypeOK /\ []CatalogConsistent /\ []FaultsStayLocal /\ NothingErased /\ PurgeSparesLiveKeys
=============================================================================
