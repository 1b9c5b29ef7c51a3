------------------------------- MODULE Autosave -------------------------------
(***************************************************************************)
(* The workspace in memory against the project store: the delayed save of  *)
(* App.tsx, its generation counter, the project operations that save first *)
(* and then adopt what the store returns, and background work whose result *)
(* replaces or changes the workspace when it is done.                      *)
(*                                                                         *)
(* A workspace is the set of changes it contains.  React state, the last   *)
(* render (which closures and refs see) and the delayed save are three     *)
(* copies of it.  The store commands are executed one at a time in the     *)
(* order in which they were invoked (src-tauri/src/lib.rs); ProjectStore   *)
(* and WorkspaceCatalog have their inside.  Preferences, names and the     *)
(* checks of governance are left out.                                      *)
(***************************************************************************)
EXTENDS Naturals, Sequences, FiniteSets

CONSTANTS
    Projects,
    First,        \* the project that is open at the start
    None,
    MaxChanges,   \* bound: changes made by the user and by background work
    MaxOps,       \* bound: project operations
    MaxInputs,    \* bound: changes and project operations together
    MaxFaults     \* bound: store commands and vault saves that fail

ASSUME AutosaveAssumptions ==
    /\ First \in Projects /\ None \notin Projects /\ IsFiniteSet(Projects)
    /\ {MaxChanges, MaxOps, MaxInputs, MaxFaults} \subseteq Nat

\* Change 0 is a project file (a collection, say) that can be moved.
File == 0
Changes == 0..MaxChanges

VARIABLES
    (* The renderer.                                                       *)
    state,        \* React state: project, changes in it, whether in recovery mode
    unrendered,   \* React state was set and not rendered since
    seen,         \* the last render, which closures and refs see
    timer,        \* the delayed save, None when there is none
    gen,          \* workspaceSaveGeneration.current
    op,           \* the project operation in progress; it is workspaceStoreBusy
    job,          \* background work in progress, None when there is none
    (* The store.                                                          *)
    ipc,          \* commands invoked and not yet executed
    listed,       \* projects in the catalog
    disk, backup, \* contents of the copies of each project
    snap,         \* contents of the snapshot of each project
    broken,       \* projects whose primary copy cannot be read
    (* History.                                                            *)
    made,         \* number of changes so far
    homes,        \* homes[x]: projects that change x was made in or moved to
    replaced,     \* changes replaced by what the user asked for
    unsaved,      \* changes in a save that was refused
    late,         \* changes that an operation which began or ran did not see
    strays,       \* changes brought by work begun in another project
    ops, faults

renderer == <<state, unrendered, seen, timer, gen>>
store == <<ipc, listed, disk, backup, snap, broken>>
history == <<made, homes, replaced, unsaved, late, strays, ops, faults>>
vars == <<renderer, op, job, store, history>>

Idle == [pc |-> "idle"]
OpKinds == {"open", "add", "delete", "restore", "revert", "move", "snapshot", "tidy"}

\* read_workspace: the primary, or the backup when the primary is unreadable.
Read(p) == IF p \in broken THEN backup[p] ELSE disk[p]

Init ==
    /\ broken \in SUBSET Projects
    /\ listed \in {l \in SUBSET Projects : First \in l}
    /\ disk = [p \in Projects |-> IF p = First THEN {File} ELSE {}]
    /\ homes = [x \in Changes |-> IF x = File THEN {First} ELSE {}]
    /\ state = [id |-> First, ws |-> {File}, recovery |-> First \in broken]
    /\ backup = disk /\ snap = disk
    /\ unrendered = TRUE /\ seen = state /\ timer = None /\ gen = 0
    /\ op = Idle /\ job = None /\ ipc = <<>>
    /\ made = 0 /\ replaced = {} /\ unsaved = {} /\ late = {} /\ strays = {}
    /\ ops = 0 /\ faults = 0

-----------------------------------------------------------------------------
(* The workspace in memory.                                                *)

MoreInput == made + ops < MaxInputs

\* Changes in ws that come while an operation is in progress.
TooLate(ws) == IF op = Idle THEN late ELSE late \cup (ws \ state.ws)

\* An edit of the user; recovery mode has a modal dialog in front.
Edit ==
    /\ made < MaxChanges /\ MoreInput /\ ~state.recovery /\ state.id = seen.id
    /\ made' = made + 1
    /\ homes' = [homes EXCEPT ![made + 1] = {state.id}]
    /\ state' = [state EXCEPT !.ws = @ \cup {made + 1}]
    /\ unrendered' = TRUE
    /\ late' = TooLate(state'.ws)
    /\ UNCHANGED <<seen, timer, gen, op, job, store, replaced, unsaved, strays, ops, faults>>

\* A delayed save also in recovery mode; a delayed save that later renders do
\* not replace.
DelayedAlways(view) == [id |-> view.id, ws |-> view.ws, gen |-> gen]

DelayedOnce(view) ==
    IF timer # None THEN timer
    ELSE IF view.recovery THEN None ELSE [id |-> view.id, ws |-> view.ws, gen |-> gen]

\* The effect of a render clears the delayed save and sets another one.  The
\* render that shows an adopted workspace is also the one that ends the operation.
Delayed(view) ==
    IF view.recovery THEN None ELSE [id |-> view.id, ws |-> view.ws, gen |-> gen]

Render ==
    /\ unrendered
    /\ seen' = state /\ unrendered' = FALSE
    /\ timer' = Delayed(state)
    /\ op' = IF op.pc = "adopted" THEN Idle ELSE op
    /\ UNCHANGED <<state, gen, job, store, history>>

Save(p, ws, by) == [kind |-> "save", id |-> p, ws |-> ws, by |-> by]

\* The project is read when the timer fires.
TimerSavesActive == <<Save(state.id, timer.ws, "timer")>>

TimerSaves == <<Save(timer.id, timer.ws, "timer")>>

\* After 350 ms; a save of an older generation is dropped.
TimerFires ==
    /\ timer # None
    /\ timer' = None
    /\ ipc' = IF timer.gen = gen THEN ipc \o TimerSaves ELSE ipc
    /\ UNCHANGED <<state, unrendered, seen, gen, op, job, listed, disk, backup, snap, broken, history>>

-----------------------------------------------------------------------------
(* Background work.  A Konnect pull returns the workspace it began with,   *)
(* changed; a clone, or a reload after a Git command, returns the          *)
(* repository's; a plugin action returns a change.                         *)

BeginJob(kind) ==
    /\ job = None /\ made < MaxChanges /\ MoreInput /\ ~seen.recovery
    /\ job' = [kind |-> kind, id |-> seen.id, base |-> seen.ws, result |-> made + 1]
    /\ made' = made + 1
    /\ homes' = [homes EXCEPT ![made + 1] = {seen.id}]
    /\ UNCHANGED <<renderer, op, store, replaced, unsaved, late, strays, ops, faults>>

\* The workspace after job j, given the one before.
Applied(j, ws) ==
    CASE j.kind = "pull" -> j.base \cup {j.result}
      [] j.kind = "reload" -> {j.result}
      [] j.kind = "plugin" -> ws \cup {j.result}

\* Only plugin actions look whether the project is still the same.
Wanted(j) == j.kind = "plugin" => j.id = seen.id

FinishJob ==
    /\ job # None
    /\ job' = None
    /\ IF Wanted(job)
       THEN LET next == Applied(job, state.ws) IN
            /\ state' = [state EXCEPT !.ws = next]
            /\ unrendered' = TRUE
            /\ replaced' = replaced \cup (state.ws \ next)
            /\ strays' = IF job.id = state.id THEN strays ELSE strays \cup (next \ state.ws)
            /\ late' = TooLate(next)
       ELSE UNCHANGED <<state, unrendered, replaced, strays, late>>
    /\ UNCHANGED <<seen, timer, gen, op, store, made, homes, unsaved, ops, faults>>

-----------------------------------------------------------------------------
(* Project operations of the renderer.                                     *)

\* What the switcher offers; recovery mode offers two operations.
Offered(kind, p) ==
    /\ seen.recovery => kind = (IF p = seen.id THEN "restore" ELSE "open")
    /\ kind = "restore" => seen.recovery
    /\ kind = "add" <=> p \notin listed
    /\ kind = "delete" => Cardinality(listed) > 1
    /\ kind = "move" => p # seen.id /\ File \in seen.ws
    /\ kind \in {"snapshot", "tidy"} => p = seen.id

\* runWorkspaceOperation stops the runtime of the project unless another one
\* is deleted; runWorkspaceMaintenance, rename and reorder do not.
Stops(o) == o.kind \notin {"snapshot", "tidy"} /\ ~(o.kind = "delete" /\ o.id # o.from)

\* The store command of an operation; moving a file begins with a read.
Submit(o, queue) ==
    IF o.kind = "move"
    THEN /\ op' = [o EXCEPT !.pc = "readSource"]
         /\ ipc' = Append(queue, [kind |-> "read", id |-> o.from])
    ELSE /\ op' = [o EXCEPT !.pc = "working"]
         /\ ipc' = Append(queue, [kind |-> o.kind, id |-> o.id])

\* What follows the first save.
Persisted(o, queue) ==
    IF Stops(o) THEN op' = [o EXCEPT !.pc = "stopping"] /\ ipc' = queue
                ELSE Submit(o, queue)

NewOp(kind, p) ==
    [pc |-> "persisting", kind |-> kind, id |-> p, from |-> seen.id, base |-> seen.ws,
     saves |-> ~seen.recovery, source |-> {}, target |-> {}, result |-> seen]

\* Rename and reorder leave the generation alone.
Bumped(kind) == IF kind = "tidy" THEN gen ELSE gen + 1

BeginOp(kind, p) ==
    /\ op = Idle /\ ops < MaxOps /\ MoreInput /\ Offered(kind, p)
    /\ ops' = ops + 1
    /\ gen' = Bumped(kind)
    /\ late' = late \cup (state.ws \ seen.ws)
    /\ IF seen.recovery
       THEN Persisted(NewOp(kind, p), ipc)
       ELSE /\ op' = NewOp(kind, p)
            /\ ipc' = Append(ipc, Save(seen.id, seen.ws, "op"))
    /\ UNCHANGED <<state, unrendered, seen, timer, job, listed, disk, backup, snap, broken,
                   made, homes, replaced, unsaved, strays, faults>>

\* stopWorkspaceRuntime, and what it throws when the vault cannot be saved.
RuntimeStops ==
    /\ op.pc = "stopping"
    /\ Submit(op, ipc)
    /\ UNCHANGED <<renderer, job, listed, disk, backup, snap, broken, history>>

StopFails ==
    /\ op.pc = "stopping" /\ faults < MaxFaults
    /\ faults' = faults + 1
    /\ op' = Idle
    /\ UNCHANGED <<renderer, job, store, made, homes, replaced, unsaved, late, strays, ops>>

\* The generation is advanced when the operation is over, not when it begins.
AdoptAdvances ==
    /\ op.pc = "replied"
    /\ op' = IF op.kind \in {"snapshot", "tidy"} THEN Idle ELSE [op EXCEPT !.pc = "adopted"]
    /\ gen' = gen + 1
    /\ IF op.kind \in {"snapshot", "tidy"} THEN UNCHANGED <<state, unrendered>>
       ELSE state' = op.result /\ unrendered' = TRUE
    /\ UNCHANGED <<seen, timer, job, store, history>>

\* The reply: adoptWorkspaceSnapshot; or entries, recovery and, when the open
\* project was renamed, its name; or nothing.
Adopt ==
    /\ op.pc = "replied"
    /\ \/ /\ op.kind = "snapshot"
          /\ op' = Idle
          /\ UNCHANGED <<state, unrendered>>
       \/ /\ op.kind = "tidy"
          /\ op' = Idle
          /\ state' = [state EXCEPT !.recovery = op.result.recovery]
          /\ unrendered' \in {unrendered \/ state' # state, TRUE}
       \/ /\ op.kind \notin {"snapshot", "tidy"}
          /\ op' = [op EXCEPT !.pc = "adopted"]
          /\ state' = op.result /\ unrendered' = TRUE
    /\ UNCHANGED <<seen, timer, gen, job, store, history>>

-----------------------------------------------------------------------------
(* The store executes the first command of the queue.                      *)

Command == Head(ipc)

\* write_workspace: a readable primary becomes the backup.
Write(p, ws) ==
    /\ disk' = [disk EXCEPT ![p] = ws]
    /\ backup' = IF p \in broken THEN backup ELSE [backup EXCEPT ![p] = disk[p]]
    /\ broken' = broken \ {p}

\* moveCatalogProjectWorkspace reads both projects; without the file in the
\* source there is nothing to move.
ExecuteRead ==
    /\ ipc # <<>> /\ Command.kind = "read" /\ Command.id \in listed
    /\ LET found == Read(Command.id) IN
       \/ /\ op.pc = "readSource"
          /\ op' = [op EXCEPT !.pc = "readTarget", !.source = found]
          /\ ipc' = Append(Tail(ipc), [kind |-> "read", id |-> op.id])
          /\ UNCHANGED homes
       \/ /\ op.pc = "readTarget" /\ File \in op.source
          /\ op' = [op EXCEPT !.pc = "saveTarget", !.target = found]
          /\ ipc' = Append(Tail(ipc), Save(op.id, found \cup {File}, "op"))
          /\ homes' = [homes EXCEPT ![File] = @ \cup {op.id}]
       \/ /\ op.pc = "readTarget" /\ File \notin op.source
          /\ op' = Idle /\ ipc' = Tail(ipc) /\ UNCHANGED homes
    /\ UNCHANGED <<renderer, job, listed, disk, backup, snap, broken, made, replaced,
                   unsaved, late, strays, ops, faults>>

\* The continuation of a save made by an operation.
Continue(o) ==
    CASE o.pc = "persisting" -> Persisted(o, Tail(ipc))
      [] o.pc = "saveTarget" ->
            /\ op' = [o EXCEPT !.pc = "saveSource"]
            /\ ipc' = Append(Tail(ipc), Save(o.from, o.source \ {File}, "op"))
      [] o.pc = "saveSource" ->
            /\ op' = [o EXCEPT !.pc = "working"]
            /\ ipc' = Append(Tail(ipc), [kind |-> "open", id |-> o.id])
      [] o.pc = "undoing" -> op' = Idle /\ ipc' = Tail(ipc)

ExecuteSave ==
    /\ ipc # <<>> /\ Command.kind = "save" /\ Command.id \in listed
    /\ Write(Command.id, Command.ws)
    /\ IF Command.by = "op" THEN Continue(op) ELSE ipc' = Tail(ipc) /\ UNCHANGED op
    /\ UNCHANGED <<renderer, job, listed, snap, history>>

\* The error of the first save is swallowed; the error of saving the
\* destination is swallowed.
RollbackNotFirst(o) ==
    IF o.pc = "persisting" THEN Persisted(o, Tail(ipc)) ELSE op' = Idle /\ ipc' = Tail(ipc)

RollbackNotTarget(o) ==
    IF o.pc = "saveTarget"
    THEN /\ op' = [o EXCEPT !.pc = "saveSource"]
         /\ ipc' = Append(Tail(ipc), Save(o.from, o.source \ {File}, "op"))
    ELSE op' = Idle /\ ipc' = Tail(ipc)

\* moveCatalogProjectWorkspace puts back what it read.
Rollback(o) ==
    CASE o.pc \in {"persisting", "undoing"} -> op' = Idle /\ ipc' = Tail(ipc)
      [] o.pc = "saveTarget" ->
            /\ op' = [o EXCEPT !.pc = "undoing"]
            /\ ipc' = Append(Tail(ipc), Save(o.id, o.target, "op"))
      [] o.pc = "saveSource" ->
            /\ op' = [o EXCEPT !.pc = "undoing"]
            /\ ipc' = Tail(ipc) \o <<Save(o.from, o.source, "undo"), Save(o.id, o.target, "op")>>

\* The project is gone; or the project or the catalog after it cannot be written.
RefuseSave ==
    /\ ipc # <<>> /\ Command.kind = "save"
    /\ \/ /\ Command.id \notin listed
          /\ UNCHANGED <<disk, backup, broken, faults>>
       \/ /\ Command.id \in listed /\ faults < MaxFaults /\ faults' = faults + 1
          /\ Write(Command.id, Command.ws) \/ UNCHANGED <<disk, backup, broken>>
    /\ unsaved' = unsaved \cup Command.ws
    /\ IF Command.by = "op" THEN Rollback(op) ELSE ipc' = Tail(ipc) /\ UNCHANGED op
    /\ UNCHANGED <<renderer, job, listed, snap, made, homes, replaced, late, strays, ops>>

\* The snapshot a command returns when p is active afterwards.
Reply(p, ws, recovery) ==
    /\ op' = [op EXCEPT !.pc = "replied", !.result = [id |-> p, ws |-> ws, recovery |-> recovery]]
    /\ ipc' = Tail(ipc)

\* Commands that leave the contents of projects alone.
ExecuteLookup ==
    /\ ipc # <<>> /\ Command.kind \in {"open", "add", "delete", "snapshot", "tidy"}
    /\ Command.kind # "add" => Command.id \in listed
    /\ listed' = CASE Command.kind = "add" -> listed \cup {Command.id}
                   [] Command.kind = "delete" -> listed \ {Command.id}
                   [] OTHER -> listed
    /\ snap' = IF Command.kind = "snapshot"
               THEN [snap EXCEPT ![Command.id] = Read(Command.id)] ELSE snap
    /\ \E p \in listed' :
          /\ IF Command.kind \in {"open", "add"} THEN p = Command.id
             ELSE op.from \in listed' => p = op.from
          /\ Reply(p, Read(p), p \in broken)
    /\ UNCHANGED <<renderer, job, disk, backup, broken, history>>

\* restore_backup writes the backup over the primary and keeps it;
\* restore_snapshot is a save of the snapshot.  Both are what the user wants.
ExecuteRestore ==
    /\ ipc # <<>> /\ Command.kind \in {"restore", "revert"} /\ Command.id \in listed
    /\ LET p == Command.id
           old == IF Command.kind = "restore" THEN backup[p] ELSE snap[p]
       IN  /\ disk' = [disk EXCEPT ![p] = old]
           /\ backup' = IF Command.kind = "restore" \/ p \in broken THEN backup
                        ELSE [backup EXCEPT ![p] = disk[p]]
           /\ broken' = broken \ {p}
           /\ replaced' = replaced \cup (disk[p] \ old)
           /\ Reply(p, old, FALSE)
    /\ UNCHANGED <<renderer, job, listed, snap, made, homes, unsaved, late, strays, ops, faults>>

Refuse ==
    /\ ipc # <<>> /\ Command.kind # "save" /\ faults < MaxFaults
    /\ faults' = faults + 1
    /\ op' = Idle /\ ipc' = Tail(ipc)
    /\ UNCHANGED <<renderer, job, listed, disk, backup, snap, broken,
                   made, homes, replaced, unsaved, late, strays, ops>>

Execute == ExecuteSave \/ ExecuteRead \/ RefuseSave \/ ExecuteLookup \/ ExecuteRestore \/ Refuse

-----------------------------------------------------------------------------
Next ==
    \/ Edit \/ Render \/ TimerFires
    \/ \E kind \in {"pull", "reload", "plugin"} : BeginJob(kind)
    \/ FinishJob
    \/ \E kind \in OpKinds, p \in Projects : BeginOp(kind, p)
    \/ RuntimeStops \/ StopFails \/ Adopt
    \/ Execute

(* Renders, timers and promises are processed, commands are executed, and  *)
(* stopping the runtime settles.  Nothing is assumed of the user or of     *)
(* background work.                                                        *)
Fairness ==
    /\ WF_vars(Render) /\ WF_vars(TimerFires)
    /\ WF_vars(RuntimeStops \/ StopFails) /\ WF_vars(Adopt)
    /\ WF_vars(Execute)

Spec == Init /\ [][Next]_vars /\ Fairness

-----------------------------------------------------------------------------
(* Properties.                                                             *)

\* What the user saw when an operation began is on disk before the workspace in
\* memory is given up for what the store returns, whatever delayed saves and
\* background work do meanwhile, unless the user had it replaced.
SeenIsSaved ==
    op.pc \in {"stopping", "working", "replied"} /\ op.saves =>
        op.base \subseteq disk[op.from] \cup replaced
                          \cup (IF op.kind = "move" THEN {File} ELSE {})

\* Moving a file saves the destination first: whichever command fails, before
\* or after it wrote, and however delayed saves interfere, the file is in one of
\* the two projects at every moment.  A second failure, of a roll-back, loses it.
MovedFileKept == faults <= 1 => File \in UNION {disk[p] : p \in Projects} \cup replaced

\* "project resources ... remain isolated" (docs/LOCAL_PROJECTS.md), up to the
\* results of clones, reloads and pulls begun in another project, which the code
\* applies to whatever project is open: operations, moves with their roll-backs
\* and delayed saves, in any order, never store one project's contents under
\* another project.
ForeignExplained ==
    \A p \in Projects : \A x \in disk[p] \ strays : p \in homes[x]

\* "opens in recovery mode with autosave disabled" (docs/LOCAL_PROJECTS.md): an
\* unreadable primary is not overwritten by a save of what is in memory.
RecoveryReadOnly ==
    [][\A p \in broken \ broken' :
          op # Idle /\ op.kind \in {"restore", "revert", "move"} /\ op.id = p]_vars

\* A change does not stay in memory only: it is saved, or a save with it was
\* refused and reported, or it came too late for an operation that began, or
\* something the user asked for replaced it.
ChangesReachDisk ==
    \A x \in 1..MaxChanges :
        (x \in state.ws /\ ~state.recovery)
        ~> (x \in UNION {disk[p] : p \in Projects} \cup unsaved \cup late \cup replaced)

\* Nothing pending means nothing unsaved: once no render, delayed save, command
\* or operation is outstanding, and no fault was reported, the store has the
\* workspace in memory, also when edits came in the middle of an operation.
QuietIsSaved ==
    /\ ~unrendered /\ timer = None /\ ipc = <<>> /\ op = Idle
    /\ faults = 0 /\ ~state.recovery
    => disk[state.id] = state.ws

(* What is typed reaches the disk of its project, and nothing else does    *)
(* (App.tsx, the autosave effect, project switching and file moves).       *)
SavesSound ==
    /\ []SeenIsSaved /\ []MovedFileKept /\ []ForeignExplained /\ []QuietIsSaved
    /\ RecoveryReadOnly /\ ChangesReachDisk
===============================================================================
