---------------------------- MODULE VaultSession ----------------------------
(***************************************************************************)
(* The encrypted vault of a project: the session the renderer keeps while  *)
(* the vault is unlocked, the debounced save of secret variables with its  *)
(* generation and pending flag, the flush before the vault is locked or    *)
(* the project changed, and the vault files and saved keys behind them.    *)
(* Encryption takes long and every command has a thread of its own, so     *)
(* saves land in any order.  The entries of a vault are known by the       *)
(* project they were made in and the number of their last edit.            *)
(***************************************************************************)
EXTENDS Integers, FiniteSets

CONSTANTS VaultProjects,   \* projects, each with a vault file of its own
          MaxSecretEdits,  \* bound: edits of secrets
          MaxVaultSaves,   \* bound: saves sent to the desktop process
          MaxVaultChanges, \* bound: project changes
          MaxUnlocks       \* bound: unlocks under way at a time

\* A project is always active.
ASSUME VaultAssumption == VaultProjects # {}

VARIABLES vaultProject,  \* the active project
          session,       \* VaultSession: [unlocked, typed, from, v]
          vaultFile,     \* what the file of every project holds, or NoVault
          savedKey,      \* projects whose saved key opens their vault file
          saveTimer,     \* generation of the pending debounce timer, 0: none
          generation,    \* environmentVaultSaveGeneration
          savePending,   \* environmentVaultSavePending
          vaultSaves,    \* saves under way
          unlocks,       \* unlocks under way
          switching,     \* the project change: "no", "flushing", "stopped", "cleared",
                         \* and the generation it began with
          secretEdits,   \* edits so far
          lastSecret,    \* the newest secret variable edited in every project
          vaultSent,     \* saves so far
          vaultChanges,  \* project changes so far
          excused        \* projects whose newest edit was dropped by a cause named below

vaultVars == <<vaultProject, session, vaultFile, savedKey, saveTimer, generation,
               savePending, vaultSaves, unlocks, switching, secretEdits, lastSecret, vaultSent,
               vaultChanges, excused>>

NoVault == [from |-> "none", v |-> 0]
Locked == [unlocked |-> FALSE, typed |-> FALSE, from |-> "none", v |-> 0]
Settled == [phase |-> "no", gen |-> 0]

\* `entries', of a session, a file, an unlock or a save, hold the newest secret of p.
Holds(entries, p) == entries.from = p /\ entries.v >= lastSecret[p]

\* The newest secret is not in the file yet, and the open session holds it.
Unsaved(p) == lastSecret[p] # 0 /\ ~Holds(vaultFile[p], p)
HoldsUnsaved(p) == session.unlocked /\ Holds(session, p) /\ Unsaved(p)

\* A session that is replaced by `next' drops what only it held.
DroppedBy(next) == {p \in VaultProjects : HoldsUnsaved(p) /\ ~Holds(next, p)}

\* One save sent to the desktop process.
VaultSave(to, s, gen, why) ==
    [to |-> to, from |-> s.from, v |-> s.v, typed |-> s.typed,
     gen |-> gen, why |-> why]

Send(save) ==
    /\ vaultSent < MaxVaultSaves
    /\ vaultSent' = vaultSent + 1
    /\ vaultSaves' = vaultSaves \cup {save}

(***************************************************************************)
(* Unlocking.  The security workbench unlocks or creates by its own        *)
(* status.exists, which is blank when the page opens, until both status    *)
(* commands have answered and for good when one fails.  As the page can be *)
(* left and opened again at any time, either may be tried while there is a *)
(* vault, and its `busy' keeps no two operations apart.                    *)
(***************************************************************************)

\* The effect of a project change: with a saved key the vault opens by itself.
\* An answer is ignored when the project changed or the vault is open already.
AutoUnlockReads ==
    /\ vaultFile[vaultProject] # NoVault /\ vaultProject \in savedKey /\ switching = Settled
    /\ Cardinality(unlocks) < MaxUnlocks /\ \A u \in unlocks : ~u.auto
    /\ unlocks' = unlocks \cup {[project |-> vaultProject, from |-> vaultFile[vaultProject].from,
                                 v |-> vaultFile[vaultProject].v, auto |-> TRUE]}
    /\ UNCHANGED <<vaultProject, session, vaultFile, savedKey, saveTimer, generation, savePending,
                   vaultSaves, switching, secretEdits, lastSecret, vaultSent, vaultChanges,
                   excused>>

AutoUnlockAnswered ==
    /\ \E u \in unlocks :
          /\ u.auto
          /\ unlocks' = unlocks \ {u}
          /\ session' = IF u.project = vaultProject /\ ~session.unlocked
                        THEN [unlocked |-> TRUE, typed |-> FALSE, from |-> u.from, v |-> u.v]
                        ELSE session
    /\ UNCHANGED <<vaultProject, vaultFile, savedKey, saveTimer, generation, savePending,
                   vaultSaves, switching, secretEdits, lastSecret, vaultSent, vaultChanges,
                   excused>>

\* unlockOrCreate of a workbench that knows of the vault: the passphrase is tried.
UnlockReads ==
    /\ ~session.unlocked /\ vaultFile[vaultProject] # NoVault
    /\ Cardinality(unlocks) < MaxUnlocks
    /\ unlocks' = unlocks \cup {[project |-> vaultProject, from |-> vaultFile[vaultProject].from,
                                 v |-> vaultFile[vaultProject].v, auto |-> FALSE]}
    /\ UNCHANGED <<vaultProject, session, vaultFile, savedKey, saveTimer, generation, savePending,
                   vaultSaves, switching, secretEdits, lastSecret, vaultSent, vaultChanges,
                   excused>>

\* The answer becomes the session whatever happened since.
UnlockAnswered ==
    /\ \E u \in unlocks :
          /\ ~u.auto
          /\ unlocks' = unlocks \ {u}
          /\ \/ LET opened == [unlocked |-> TRUE, typed |-> TRUE, from |-> u.from, v |-> u.v] IN
                /\ session' = opened
                /\ excused' = excused \cup DroppedBy(opened)
             \/ UNCHANGED <<session, excused>>        \* a wrong passphrase: the error is shown
    /\ UNCHANGED <<vaultProject, vaultFile, savedKey, saveTimer, generation, savePending,
                   vaultSaves, switching, secretEdits, lastSecret, vaultSent, vaultChanges>>

NewVault == [unlocked |-> TRUE, typed |-> TRUE, from |-> vaultProject, v |-> 0]

\* unlockOrCreate of one that does not: an empty vault is saved, whatever the
\* file holds.
CreateVault ==
    /\ ~session.unlocked
    /\ Send(VaultSave(vaultProject, NewVault, 0, "create"))
    /\ UNCHANGED <<vaultProject, session, vaultFile, savedKey, saveTimer, generation, savePending,
                   unlocks, switching, secretEdits, lastSecret, vaultChanges, excused>>

(***************************************************************************)
(* Editing and saving.                                                     *)
(***************************************************************************)

\* updateEnvironmentVaultEntries: a secret variable is written, removed or
\* copied with its environment; a new generation, a new timer.
EditSecret ==
    /\ secretEdits < MaxSecretEdits /\ session.unlocked
    /\ secretEdits' = secretEdits + 1
    /\ session' = [session EXCEPT !.v = secretEdits + 1]
    /\ IF session.from = vaultProject
       THEN /\ lastSecret' = [lastSecret EXCEPT ![vaultProject] = secretEdits + 1]
            /\ excused' = excused \ {vaultProject}
       ELSE UNCHANGED <<lastSecret, excused>>
    /\ savePending' = TRUE
    /\ generation' = generation + 1
    /\ saveTimer' = generation + 1
    /\ UNCHANGED <<vaultProject, vaultFile, savedKey, vaultSaves, unlocks, switching, vaultSent,
                   vaultChanges>>

\* addSecret and the rows of the workbench: a direct entry changes in memory
\* only; it is written with the next save.
EditDirect ==
    /\ secretEdits < MaxSecretEdits /\ session.unlocked
    /\ secretEdits' = secretEdits + 1
    /\ session' = [session EXCEPT !.v = secretEdits + 1]
    /\ UNCHANGED <<vaultProject, vaultFile, savedKey, saveTimer, generation, savePending,
                   vaultSaves, unlocks, switching, lastSecret, vaultSent, vaultChanges, excused>>

\* The debounce timer fires: the session of this moment is saved.
SaveTimerFires ==
    /\ saveTimer # 0
    /\ saveTimer' = 0
    /\ IF session.unlocked
       THEN Send(VaultSave(vaultProject, session, saveTimer, "timer"))
       ELSE UNCHANGED <<vaultSaves, vaultSent>>
    /\ UNCHANGED <<vaultProject, session, vaultFile, savedKey, generation, savePending, unlocks,
                   switching, secretEdits, lastSecret, vaultChanges, excused>>

\* persistVault, the button: it leaves the pending flag alone.
PersistVault ==
    /\ session.unlocked
    /\ Send(VaultSave(vaultProject, session, 0, "button"))
    /\ UNCHANGED <<vaultProject, session, vaultFile, savedKey, saveTimer, generation, savePending,
                   unlocks, switching, secretEdits, lastSecret, vaultChanges, excused>>

\* Mutant: a save of any generation settles the flag.
PendingOfAnySave(gen, landed) == ~landed

\* What the pending flag becomes when a save of generation `gen' has ended: only
\* the newest generation may clear or set it.
PendingAfter(gen, landed) == IF gen = generation THEN ~landed ELSE savePending

\* What the session becomes: a lock that flushed locks it now, also when a newer
\* edit came meanwhile, and a created vault opens.
SessionAfter(c, landed) ==
    CASE landed /\ c.why = "lock" -> Locked
      [] landed /\ c.why = "create" -> [unlocked |-> TRUE, typed |-> TRUE, from |-> c.from, v |-> c.v]
      [] OTHER -> session

\* Who waits for a save: a lock, and a project change that goes on or gives up.
SaveAnswered(c, landed) ==
    /\ savePending' = IF c.why \in {"button", "create"} THEN savePending ELSE PendingAfter(c.gen, landed)
    /\ session' = SessionAfter(c, landed)
    /\ switching' = IF c.why # "change" THEN switching
                    ELSE IF landed THEN [switching EXCEPT !.phase = "stopped"] ELSE Settled

\* A save lands over whatever the file held, newer or not; one that uses the
\* saved key opens the file with it first.  The passphrase of a new vault may
\* not be the saved key.
SaveLands ==
    /\ \E c \in vaultSaves :
          /\ c.typed \/ (c.to \in savedKey /\ vaultFile[c.to] # NoVault)
          /\ vaultSaves' = vaultSaves \ {c}
          /\ vaultFile' = [vaultFile EXCEPT ![c.to] = [from |-> c.from, v |-> c.v]]
          /\ \/ UNCHANGED savedKey
             \/ c.why = "create" /\ savedKey' = savedKey \ {c.to}
          /\ SaveAnswered(c, TRUE)
          /\ excused' = excused
                \cup (IF ~Holds(c, c.to) /\ ~Unsaved(c.to) THEN {c.to} ELSE {})
                \cup (IF c.why = "create" \/ (c.why = "lock" /\ c.gen # generation)
                      THEN DroppedBy(SessionAfter(c, TRUE)) ELSE {})
    /\ UNCHANGED <<vaultProject, saveTimer, generation, unlocks, secretEdits, lastSecret,
                   vaultSent, vaultChanges>>

\* A save fails: entries the desktop process refuses, a disk error, no saved key.
SaveFails ==
    /\ \E c \in vaultSaves :
          /\ vaultSaves' = vaultSaves \ {c}
          /\ SaveAnswered(c, FALSE)
    /\ UNCHANGED <<vaultProject, vaultFile, savedKey, saveTimer, generation, unlocks, secretEdits,
                   lastSecret, vaultSent, vaultChanges, excused>>

(***************************************************************************)
(* Locking, keys, reset and the project change.                            *)
(***************************************************************************)

\* updateVaultSession with a locked session: pending edits are flushed first and
\* the session stays open until they are.
Lock ==
    IF savePending
    THEN /\ saveTimer' = 0
         /\ Send(VaultSave(vaultProject, session, generation, "lock"))
         /\ UNCHANGED session
    ELSE /\ session' = Locked
         /\ UNCHANGED <<saveTimer, vaultSaves, vaultSent>>

LockVault ==
    /\ session.unlocked
    /\ Lock
    /\ UNCHANGED <<vaultProject, vaultFile, savedKey, generation, savePending, unlocks, switching,
                   secretEdits, lastSecret, vaultChanges, excused>>

\* toggleSavedKey: only a passphrase that opens the file is retained.
RetainKey ==
    /\ session.unlocked /\ session.typed /\ vaultProject \notin savedKey
    /\ vaultFile[vaultProject] # NoVault
    /\ savedKey' = savedKey \cup {vaultProject}
    /\ UNCHANGED <<vaultProject, session, vaultFile, saveTimer, generation, savePending,
                   vaultSaves, unlocks, switching, secretEdits, lastSecret, vaultSent,
                   vaultChanges, excused>>

\* Forgetting the key of a session opened with it locks the session.
ForgetKey ==
    /\ vaultProject \in savedKey
    /\ savedKey' = savedKey \ {vaultProject}
    /\ IF session.unlocked /\ ~session.typed THEN Lock
       ELSE UNCHANGED <<session, saveTimer, vaultSaves, vaultSent>>
    /\ UNCHANGED <<vaultProject, vaultFile, generation, savePending, unlocks, switching,
                   secretEdits, lastSecret, vaultChanges, excused>>

\* Reset: the file, the key and every secret row are gone.
ResetOpenVault ==
    /\ ~session.unlocked /\ vaultFile[vaultProject] # NoVault
    /\ vaultFile' = [vaultFile EXCEPT ![vaultProject] = NoVault]
    /\ savedKey' = savedKey \ {vaultProject}
    /\ session' = Locked
    /\ lastSecret' = [lastSecret EXCEPT ![vaultProject] = 0]
    /\ UNCHANGED <<vaultProject, saveTimer, generation, savePending, vaultSaves, unlocks,
                   switching, secretEdits, vaultSent, vaultChanges, excused>>

\* stopWorkspaceRuntime: the timer is dropped, pending edits are flushed.
BeginVaultChange ==
    /\ switching = Settled /\ vaultChanges < MaxVaultChanges
    /\ vaultChanges' = vaultChanges + 1
    /\ saveTimer' = 0
    /\ IF savePending /\ session.unlocked
       THEN /\ Send(VaultSave(vaultProject, session, generation, "change"))
            /\ switching' = [phase |-> "flushing", gen |-> generation]
       ELSE /\ switching' = [phase |-> "stopped", gen |-> generation]
            /\ UNCHANGED <<vaultSaves, vaultSent>>
    /\ UNCHANGED <<vaultProject, session, vaultFile, savedKey, generation, savePending, unlocks,
                   secretEdits, lastSecret, excused>>

\* When mocks, streams and OAuth flow have been stopped the session is cleared.
ClearSession ==
    /\ switching.phase = "stopped"
    /\ switching' = [switching EXCEPT !.phase = "cleared"]
    /\ session' = Locked
    /\ savePending' = FALSE
    /\ excused' = excused \cup (IF switching.gen # generation THEN DroppedBy(Locked) ELSE {})
    /\ UNCHANGED <<vaultProject, vaultFile, savedKey, saveTimer, generation, vaultSaves, unlocks,
                   secretEdits, lastSecret, vaultSent, vaultChanges>>

\* The operation was awaited since.  Its project is adopted, the workbench is
\* unmounted, and a vault opened meanwhile stays open; or it failed and the
\* project stays.
EndVaultChange ==
    /\ switching.phase = "cleared"
    /\ switching' = Settled
    /\ \/ /\ vaultProject' \in VaultProjects \ {vaultProject}
          /\ saveTimer' = 0
          /\ excused' = excused \cup {p \in VaultProjects : HoldsUnsaved(p)}
       \/ UNCHANGED <<vaultProject, saveTimer, excused>>
    /\ UNCHANGED <<session, vaultFile, savedKey, generation, savePending, vaultSaves, unlocks,
                   secretEdits, lastSecret, vaultSent, vaultChanges>>

VaultInit ==
    /\ vaultProject = CHOOSE p \in VaultProjects : TRUE
    /\ session = Locked
    /\ \/ vaultFile = [p \in VaultProjects |-> NoVault] /\ savedKey = {}
       \/ vaultFile = [p \in VaultProjects |-> [from |-> p, v |-> 0]] /\ savedKey = VaultProjects
    /\ saveTimer = 0 /\ generation = 0 /\ savePending = FALSE
    /\ vaultSaves = {} /\ unlocks = {} /\ switching = Settled
    /\ secretEdits = 0 /\ lastSecret = [p \in VaultProjects |-> 0]
    /\ vaultSent = 0 /\ vaultChanges = 0 /\ excused = {}

VaultNext ==
    \/ AutoUnlockReads \/ AutoUnlockAnswered \/ UnlockReads \/ UnlockAnswered \/ CreateVault
    \/ EditSecret \/ EditDirect \/ SaveTimerFires \/ PersistVault \/ SaveLands \/ SaveFails
    \/ LockVault \/ RetainKey \/ ForgetKey \/ ResetOpenVault
    \/ BeginVaultChange \/ ClearSession \/ EndVaultChange

VaultSpec == VaultInit /\ [][VaultNext]_vaultVars

(***************************************************************************)
(* Properties.                                                             *)
(***************************************************************************)

\* The newest secret variable a user wrote in the vault of the project is in its
\* file, or a save that carries it is under way, or the session still holds it
\* with the pending flag up, so that a lock and a project change flush it first:
\* whatever save ends in whatever order, fails or belongs to an older
\* generation.  Excused are a save that lands over it with older entries, with
\* those of another project (a vault opened while a project change was awaited)
\* or with none (a vault created while the workbench did not know that there is
\* one); an unlock or a creation answered over an edited session; and an edit
\* made while a flush or a project change was awaited.
SecretsKept ==
    \A p \in VaultProjects :
        Unsaved(p) => \/ p \in excused
                      \/ \E c \in vaultSaves : c.to = p /\ Holds(c, p)
                      \/ vaultProject = p /\ HoldsUnsaved(p) /\ savePending

\* Changing the project clears the vault: the open session is the one of the
\* active project.
VaultOfProject == session.unlocked => session.from = vaultProject
=============================================================================
