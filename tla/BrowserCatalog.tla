--------------------------- MODULE BrowserCatalog ---------------------------
(***************************************************************************)
(* The project catalog in the browser's local storage (workspaceCatalog.ts *)
(* without Tauri, workspacePhysicalStore.ts).  An operation is a sequence  *)
(* of setItem and removeItem calls; any setItem may throw because the      *)
(* quota is used up, and what was done before it stays done.  The space    *)
(* may stay used up: the saves of a roll-back throw as well.               *)
(*                                                                         *)
(* A project is a manifest (a generation) whose records are kept under     *)
(* keys of that generation; the records of a generation are one key here,  *)
(* and its contents a set of project files.  Records no manifest names are *)
(* never read again and are left out, as is the order of the catalog.      *)
(***************************************************************************)
EXTENDS Naturals, Sequences, FiniteSets, SequencesExt, TLC

CONSTANTS
    ProjectIds,     \* project ids
    ProjectFiles,   \* the files (collections, designs ...) a project may hold
    MaxQuota,       \* bound on setItem calls that throw
    MaxOperations,  \* bound on operations
    MaxDeletions    \* bound on recovery copies kept at once (their times)

VARIABLES
    storage,     \* localStorage: keys to values
    quota,       \* setItem calls that have thrown
    operations,  \* operations so far
    fileMove,    \* the project file move under way
    purgedIds    \* projects some recovery copy of which was removed for good

browserVars == <<storage, quota, operations, fileMove, purgedIds>>

Key(kind, id, n) == <<kind, id, n>>
CatalogKey == Key("catalog", "", 0)
CatalogBackupKey == Key("catalogBackup", "", 0)
Primary(id) == Key("primary", id, 0)
Backup(id) == Key("backup", id, 0)
Records(id, g) == Key("file", id, g)
Trash(id, at) == Key("trash", id, at)
TrashBackup(id, at) == Key("trashBackup", id, at)
TrashMetadata(id, at) == Key("trashMetadata", id, at)
SnapshotKey(id) == Key("snapshot", id, 0)   \* the newest: older ones beyond the limit are removed
TrashSnapshot(id, at) == Key("trashSnapshot", id, at)

TrashKinds == {"trash", "trashBackup", "trashMetadata", "trashSnapshot"}

Unreadable == 0   \* a damaged manifest
NoMove == [stage |-> "none"]

-----------------------------------------------------------------------------
(* Reading.  A manifest is readable when its records are there.            *)
Get(s, k, default) == IF k \in DOMAIN s THEN s[k] ELSE default

ReadableAt(s, id, k) == k \in DOMAIN s /\ s[k] # Unreadable /\ Records(id, s[k]) \in DOMAIN s
ReadStatus(s, id) ==
    IF ReadableAt(s, id, Primary(id)) THEN "ready"
    ELSE IF ReadableAt(s, id, Backup(id)) THEN "recoverable" ELSE "unavailable"
ContentsOf(s, id) ==
    s[Records(id, IF ReadStatus(s, id) = "ready" THEN s[Primary(id)] ELSE s[Backup(id)])]

NoCatalog == [ok |-> FALSE, active |-> "", entries |-> {}]
ParseCatalog(s) ==
    IF Get(s, CatalogKey, NoCatalog).ok THEN s[CatalogKey] ELSE Get(s, CatalogBackupKey, NoCatalog)
Listed(s) == ParseCatalog(s).entries

-----------------------------------------------------------------------------
(* Writing.                                                                *)
SetItem(k, v) == [op |-> "set", key |-> k, value |-> v]
RemoveItem(k) == [op |-> "remove", key |-> k]
SetIf(condition, k, v) == IF condition THEN <<SetItem(k, v)>> ELSE <<>>

Do(s, step) ==
    IF step.op = "set" THEN (step.key :> step.value) @@ s
    ELSE [k \in DOMAIN s \ {step.key} |-> s[k]]
Manifests == {"primary", "backup", "trash", "trashBackup"}
Reachable(s) ==
    LET named(id) == {s[k] : k \in {j \in DOMAIN s : j[1] \in Manifests /\ j[2] = id}}
    IN [k \in {j \in DOMAIN s : j[1] = "file" => j[3] \in named(j[2])} |-> s[k]]
After(s, steps) == Reachable(FoldLeft(Do, s, steps))

(* An operation runs to its end, or to a setItem that throws; undo is what *)
(* the handler around the first n steps removes again.                     *)
Finishes(steps) == storage' = After(storage, steps) /\ UNCHANGED quota
Throws(steps, n, undo) ==
    /\ quota < MaxQuota /\ quota' = quota + 1
    /\ \E k \in DOMAIN steps :
          /\ steps[k].op = "set"
          /\ storage' = After(storage, SubSeq(steps, 1, k - 1) \o (IF k <= n THEN undo ELSE <<>>))
Perform(steps, n, undo) == Finishes(steps) \/ Throws(steps, n, undo)

(* writeBrowserWorkspace: the records, then the readable current manifest  *)
(* becomes the backup and the old backup's records go, then the manifest.  *)
RetainedKey(s, id, keep) ==
    Backup(id) \in DOMAIN s /\ s[Backup(id)] # Unreadable /\ s[Backup(id)] # keep

RotateRemovingAll(s, id) ==
    IF ~ReadableAt(s, id, Primary(id)) THEN <<>>
    ELSE <<RemoveItem(Records(id, Get(s, Backup(id), Unreadable))), SetItem(Backup(id), s[Primary(id)])>>

Rotate(s, id) ==
    IF ~ReadableAt(s, id, Primary(id)) THEN <<>>
    ELSE (IF RetainedKey(s, id, s[Primary(id)]) THEN <<RemoveItem(Records(id, s[Backup(id)]))>> ELSE <<>>)
         \o <<SetItem(Backup(id), s[Primary(id)])>>

(* A generation (a UUID) no manifest names yet.                            *)
Generations(s, id) ==
    {s[k] : k \in {j \in DOMAIN s : j[1] \in Manifests /\ j[2] = id}}
NewGeneration(s, id) == CHOOSE g \in 1 .. 9 : g \notin Generations(s, id) /\ \A h \in 1 .. g - 1 : h \in Generations(s, id)

WriteWorkspace(s, id, files, rotate) ==
    LET g == NewGeneration(s, id) IN
    <<SetItem(Records(id, g), files)>> \o (IF rotate THEN Rotate(s, id) ELSE <<>>) \o <<SetItem(Primary(id), g)>>

WriteBrowserCatalog(s, catalog) ==
    SetIf(Get(s, CatalogKey, NoCatalog).ok, CatalogBackupKey, s[CatalogKey]) \o <<SetItem(CatalogKey, catalog)>>

(* browserSnapshot: the active project or the first readable one; it       *)
(* throws when there is none, before the catalog is written.               *)
ReadableEntries(s, catalog) == {id \in catalog.entries : ReadStatus(s, id) # "unavailable"}
ActiveOf(s, catalog) ==
    IF catalog.active \in ReadableEntries(s, catalog) THEN catalog.active ELSE CHOOSE id \in ReadableEntries(s, catalog) : TRUE
Snapshot(s, catalog) ==
    IF ReadableEntries(s, catalog) = {} THEN <<>>
    ELSE WriteBrowserCatalog(s, [catalog EXCEPT !.active = ActiveOf(s, catalog)])

SnapshotAfter(steps, catalog) == steps \o Snapshot(After(storage, steps), catalog)

-----------------------------------------------------------------------------
(* Operations.                                                             *)
Idle == fileMove.stage = "none"
Begins == Idle /\ operations < MaxOperations /\ operations' = operations + 1
Rest == UNCHANGED <<fileMove, purgedIds>>

SaveSteps(id, files) ==
    WriteWorkspace(storage, id, files, TRUE) \o WriteBrowserCatalog(storage, ParseCatalog(storage))
WrittenBy(id, rotate) == Len(WriteWorkspace(storage, id, {}, rotate))
UndoWrite(id) == <<RemoveItem(Records(id, NewGeneration(storage, id)))>>

SaveProject(id) ==
    /\ Begins /\ id \in Listed(storage)
    /\ \E files \in SUBSET ProjectFiles : Perform(SaveSteps(id, files), WrittenBy(id, TRUE), UndoWrite(id))
    /\ Rest

CreateProject(id, active) ==
    LET catalog == ParseCatalog(storage)
        entries == catalog.entries \cup {id}
    IN /\ Begins /\ id \notin Listed(storage)
       /\ \A k \in DOMAIN storage : k[2] # id   \* the id is new
       /\ \E files \in SUBSET ProjectFiles :   \* none, or those of a project that is duplicated
          Perform(SnapshotAfter(WriteWorkspace(storage, id, files, FALSE),
                                [ok |-> TRUE, entries |-> entries,
                                 active |-> IF active \/ catalog.active = "" THEN id ELSE catalog.active]),
                  WrittenBy(id, FALSE), UndoWrite(id))
       /\ Rest

(* renameCatalogWorkspace saves what it reads, also when that is the       *)
(* backup, and writes the catalog twice more.                              *)
RenameProject(id) ==
    /\ Begins /\ id \in Listed(storage) /\ ReadStatus(storage, id) # "unavailable"
    /\ LET saved == SaveSteps(id, ContentsOf(storage, id)) \o WriteBrowserCatalog(storage, ParseCatalog(storage))
       IN Perform(SnapshotAfter(saved, ParseCatalog(storage)), WrittenBy(id, TRUE), UndoWrite(id))
    /\ Rest

CreateSnapshot(id) ==
    /\ Begins /\ id \in Listed(storage) /\ ReadStatus(storage, id) # "unavailable"
    /\ Perform(<<SetItem(SnapshotKey(id), ContentsOf(storage, id))>>, 0, <<>>)
    /\ Rest

RestoreSnapshot(id) ==
    /\ Begins /\ SnapshotKey(id) \in DOMAIN storage /\ id \in Listed(storage)
    /\ Perform(SnapshotAfter(SaveSteps(id, storage[SnapshotKey(id)]), [ParseCatalog(storage) EXCEPT !.active = id]),
               WrittenBy(id, TRUE), UndoWrite(id))
    /\ Rest

OpenProject(id) ==
    /\ Begins /\ id \in Listed(storage) /\ ReadStatus(storage, id) # "unavailable"
    /\ Perform(Snapshot(storage, [ParseCatalog(storage) EXCEPT !.active = id]), 0, <<>>)
    /\ Rest

ReorderProjects(id, target) ==
    /\ Begins /\ {id, target} \subseteq Listed(storage) /\ id # target
    /\ Perform(Snapshot(storage, ParseCatalog(storage)), 0, <<>>)
    /\ Rest

DeleteProject(id, at) ==
    LET catalog == ParseCatalog(storage)
        others == catalog.entries \ {id}
        copies == <<SetItem(TrashMetadata(id, at), 1)>>
                  \o SetIf(Primary(id) \in DOMAIN storage, Trash(id, at), Get(storage, Primary(id), 0))
                  \o SetIf(Backup(id) \in DOMAIN storage, TrashBackup(id, at), Get(storage, Backup(id), 0))
        next == IF catalog.active # id THEN catalog.active ELSE CHOOSE p \in others : TRUE   \* a neighbour
        history == SetIf(SnapshotKey(id) \in DOMAIN storage, TrashSnapshot(id, at), Get(storage, SnapshotKey(id), {}))
                   \o <<RemoveItem(SnapshotKey(id))>>
    IN /\ Begins /\ Cardinality(catalog.entries) > 1 /\ id \in Listed(storage)
       /\ \A k \in DOMAIN storage : k[1] \in TrashKinds => k[3] # at
       /\ Perform(SnapshotAfter(copies \o history \o <<RemoveItem(Primary(id)), RemoveItem(Backup(id))>>,
                                [catalog EXCEPT !.entries = others, !.active = next]), 0, <<>>)
       /\ Rest

(* A readable recovery copy comes back; its keys go after the catalog.     *)
RestoreDeleted(id, at) ==
    LET catalog == ParseCatalog(storage)
        usable == ReadableAt(storage, id, Trash(id, at))
        spare == ReadableAt(storage, id, TrashBackup(id, at))
        files == <<SetItem(Primary(id), IF usable THEN storage[Trash(id, at)] ELSE storage[TrashBackup(id, at)])>>
                 \o SetIf(spare, Backup(id), Get(storage, TrashBackup(id, at), 0))
                 \o SetIf(TrashSnapshot(id, at) \in DOMAIN storage, SnapshotKey(id), Get(storage, TrashSnapshot(id, at), {}))
                 \o <<RemoveItem(TrashSnapshot(id, at))>>
    IN /\ Begins /\ id \notin Listed(storage)
       /\ {Primary(id), Backup(id), SnapshotKey(id)} \cap DOMAIN storage = {}
       /\ usable \/ spare
       /\ Perform(SnapshotAfter(files, [catalog EXCEPT !.entries = @ \cup {id}, !.active = id])
                  \o <<RemoveItem(Trash(id, at)), RemoveItem(TrashBackup(id, at)), RemoveItem(TrashMetadata(id, at))>>, 0, <<>>)
       /\ Rest

(* A recovery copy and the records its manifests name are removed.         *)
GroupKeys(s, id, at) == {Trash(id, at), TrashBackup(id, at), TrashMetadata(id, at), TrashSnapshot(id, at)} \cap DOMAIN s
GroupRecords(s, id, at) == {Records(id, s[k]) : k \in {Trash(id, at), TrashBackup(id, at)} \cap DOMAIN s}

Purge(groups) ==
    LET gone == UNION {GroupKeys(storage, g[1], g[2]) \cup GroupRecords(storage, g[1], g[2]) : g \in groups}
    IN /\ Begins /\ gone # {}
       /\ storage' = Reachable([k \in DOMAIN storage \ gone |-> storage[k]])
       /\ purgedIds' = purgedIds \cup {g[1] : g \in {h \in groups : GroupKeys(storage, h[1], h[2]) # {}}}
       /\ UNCHANGED <<quota, fileMove>>
PurgeDeleted(id, at) == Purge({<<id, at>>})
EmptyDeleted == Purge(ProjectIds \X (1 .. MaxDeletions))

(* The backup becomes the primary; both name the same records then.        *)
RestoreBackup(id) ==
    /\ Begins /\ ReadableAt(storage, id, Backup(id)) /\ id \in Listed(storage)
    /\ Perform(SnapshotAfter(<<SetItem(Primary(id), storage[Backup(id)])>>, [ParseCatalog(storage) EXCEPT !.active = id]), 0, <<>>)
    /\ Rest

-----------------------------------------------------------------------------
BeginMoveAtSource(source, target, file) ==
    /\ Begins /\ source # target /\ {source, target} \subseteq Listed(storage)
    /\ "unavailable" \notin {ReadStatus(storage, source), ReadStatus(storage, target)}
    /\ file \in ContentsOf(storage, source) /\ file \notin ContentsOf(storage, target)
    /\ fileMove' = [stage |-> "source", source |-> source, target |-> target, file |-> file,
                    old |-> [p \in {source, target} |-> ContentsOf(storage, p)], failed |-> FALSE]
    /\ UNCHANGED <<storage, quota, purgedIds>>

(* moveCatalogProjectWorkspace: four saves at most, each of which may      *)
(* throw, also after the project itself was written.                       *)
BeginMove(source, target, file) ==
    /\ Begins /\ source # target /\ {source, target} \subseteq Listed(storage)
    /\ "unavailable" \notin {ReadStatus(storage, source), ReadStatus(storage, target)}
    /\ file \in ContentsOf(storage, source) /\ file \notin ContentsOf(storage, target)
    /\ fileMove' = [stage |-> "target", source |-> source, target |-> target, file |-> file,
                    old |-> [p \in {source, target} |-> ContentsOf(storage, p)], failed |-> FALSE]
    /\ UNCHANGED <<storage, quota, purgedIds>>

MoveSave(from, id, files, onDone, onThrow) ==
    /\ fileMove.stage = from
    /\ \/ Finishes(SaveSteps(id, files)) /\ fileMove' = onDone
       \/ Throws(SaveSteps(id, files), WrittenBy(id, TRUE), UndoWrite(id)) /\ fileMove' = onThrow
    /\ UNCHANGED <<operations, purgedIds>>
Stage(name) == [fileMove EXCEPT !.stage = name]

SaveMoveTarget == ~Idle /\ MoveSave("target", fileMove.target, fileMove.old[fileMove.target] \cup {fileMove.file}, Stage("source"), Stage("undoTarget"))

SaveMoveSource ==
    ~Idle /\ MoveSave("source", fileMove.source, fileMove.old[fileMove.source] \ {fileMove.file}, Stage("open"), Stage("undoSource"))
UndoMoveSource ==
    ~Idle /\ MoveSave("undoSource", fileMove.source, fileMove.old[fileMove.source], Stage("undoTarget"),
                      [Stage("undoTarget") EXCEPT !.failed = TRUE])
UndoMoveTarget ==
    ~Idle /\ MoveSave("undoTarget", fileMove.target, fileMove.old[fileMove.target], NoMove, NoMove)

OpenMoveTarget ==
    /\ fileMove.stage = "open" /\ fileMove' = NoMove
    /\ Perform(Snapshot(storage, [ParseCatalog(storage) EXCEPT !.active = fileMove.target]), 0, <<>>)
    /\ UNCHANGED <<operations, purgedIds>>

(* duplicateCatalogProjectWorkspace: the copy of a file is that file here. *)
DuplicateStoredFile(source, target, file) ==
    /\ Begins /\ {source, target} \subseteq Listed(storage)
    /\ "unavailable" \notin {ReadStatus(storage, source), ReadStatus(storage, target)}
    /\ file \in ContentsOf(storage, source)
    /\ Perform(SnapshotAfter(SaveSteps(target, ContentsOf(storage, target) \cup {file}), [ParseCatalog(storage) EXCEPT !.active = target]),
               WrittenBy(target, TRUE), UndoWrite(target))
    /\ Rest

-----------------------------------------------------------------------------
(* External: a stored value is damaged while its other copy is readable.   *)
DamagePrimary(id) ==
    /\ Begins /\ ReadableAt(storage, id, Primary(id)) /\ ReadableAt(storage, id, Backup(id))
    /\ storage[Primary(id)] # storage[Backup(id)]
    /\ storage' = Reachable([storage EXCEPT ![Primary(id)] = Unreadable])
    /\ UNCHANGED quota /\ Rest
DamageCatalog ==
    /\ Begins /\ Get(storage, CatalogKey, NoCatalog).ok /\ Get(storage, CatalogBackupKey, NoCatalog).ok
    /\ storage[CatalogKey].entries = storage[CatalogBackupKey].entries
    /\ storage' = [storage EXCEPT ![CatalogKey] = NoCatalog]
    /\ UNCHANGED quota /\ Rest

(* loadWorkspaceCatalog: the first project of an empty catalog, or open.   *)
LoadCatalog ==
    /\ Begins /\ Listed(storage) # {}
    /\ Perform(Snapshot(storage, ParseCatalog(storage)), 0, <<>>)
    /\ Rest

BrowserInit ==
    LET id == CHOOSE p \in ProjectIds : TRUE IN
        /\ storage = (Records(id, 1) :> {}) @@ (Primary(id) :> 1)
                     @@ (CatalogKey :> [ok |-> TRUE, active |-> id, entries |-> {id}])
        /\ quota = 0 /\ operations = 0 /\ fileMove = NoMove /\ purgedIds = {}

BrowserNext ==
    \/ \E id \in ProjectIds :
          \/ SaveProject(id) \/ OpenProject(id)  \/ RestoreBackup(id) \/ DamagePrimary(id)
          \/ RenameProject(id) \/ CreateSnapshot(id) \/ RestoreSnapshot(id)
          \/ \E active \in BOOLEAN : CreateProject(id, active)
          \/ \E target \in ProjectIds : ReorderProjects(id, target)
          \/ \E target \in ProjectIds, file \in ProjectFiles : BeginMove(id, target, file) \/ DuplicateStoredFile(id, target, file)
          \/ \E at \in 1 .. MaxDeletions : DeleteProject(id, at) \/ RestoreDeleted(id, at) \/ PurgeDeleted(id, at)
    \/ SaveMoveSource \/ UndoMoveSource \/ UndoMoveTarget \/ EmptyDeleted \/ LoadCatalog \/ DamageCatalog
    \/ SaveMoveTarget \/ OpenMoveTarget

BrowserSpec == BrowserInit /\ [][BrowserNext]_browserVars

-----------------------------------------------------------------------------
(* The user can reach the project: it is listed and opens, or a recovery   *)
(* copy of it opens.                                                       *)
RecoveryCopy(s, id) ==
    \E at \in 1 .. MaxDeletions : ReadableAt(s, id, Trash(id, at)) \/ ReadableAt(s, id, TrashBackup(id, at))
Available(s, id) == (id \in Listed(s) /\ ReadStatus(s, id) # "unavailable") \/ RecoveryCopy(s, id)

(* No project is lost: as long as none of its recovery copies was removed  *)
(* for good, a project that could be reached can still be reached, with    *)
(* any setItem of any operation throwing and with one copy damaged         *)
(* (workspaceCatalog.ts, writeBrowserWorkspace and the trash functions).   *)
ProjectsStayAvailable ==
    [][\A id \in ProjectIds \ purgedIds' : Available(storage, id) => Available(storage', id)]_browserVars

(* A file that is moved is in one of the two projects at every moment of   *)
(* the move and of its roll-back, unless the save that gives it back to    *)
(* the source threw, of which the user is told.  Also then a revision that *)
(* one of the two keeps, its current one or its backup, still has the file *)
(* (workspaceCatalog.ts, moveCatalogProjectWorkspace).                     *)
InProject(s, id, file) == ReadStatus(s, id) # "unavailable" /\ file \in ContentsOf(s, id)
InRevision(s, id, file) ==
    \E k \in {Primary(id), Backup(id)} : ReadableAt(s, id, k) /\ file \in s[Records(id, s[k])]
MoveKeepsFile ==
    [][~Idle => \E p \in {fileMove.source, fileMove.target} :
                   \/ InProject(storage', p, fileMove.file)
                   \/ fileMove.failed /\ InRevision(storage', p, fileMove.file)]_browserVars

(* Permanent deletion touches only the group it names: a listed project    *)
(* reads as before (workspaceCatalog.ts, purgeDeletedCatalogWorkspace).    *)
PurgeTargetsOnlyGroup ==
    [][EmptyDeleted \/ (\E id \in ProjectIds, at \in 1 .. MaxDeletions : PurgeDeleted(id, at)) =>
         \A id \in Listed(storage) : ReadStatus(storage', id) = ReadStatus(storage, id)]_browserVars

(* No project is lost and no moved file either (workspaceCatalog.ts).      *)
BrowserSound == ProjectsStayAvailable /\ MoveKeepsFile
=============================================================================
