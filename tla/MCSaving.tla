------------------------------ MODULE MCSaving ------------------------------
(* Long work of the renderer that writes back at its end, for TLC: autosave*)
(* and project changes, and the collection runner.                         *)
EXTENDS Autosave, Runner

VARIABLE part   \* the component this behaviour is about; the others are at rest

AutosaveRest ==
    /\ broken = {} /\ listed = {First}
    /\ disk = [p \in Projects |-> IF p = First THEN {File} ELSE {}]
    /\ homes = [x \in Changes |-> IF x = File THEN {First} ELSE {}]
    /\ state = [id |-> First, ws |-> {File}, recovery |-> FALSE]
    /\ backup = disk /\ snap = disk
    /\ unrendered = FALSE /\ seen = state /\ timer = None /\ gen = 0
    /\ op = Idle /\ job = None /\ ipc = <<>>
    /\ made = 0 /\ replaced = {} /\ unsaved = {} /\ late = {} /\ strays = {}
    /\ ops = 0 /\ faults = 0

MCNameOf == [r \in Requests |-> "N"]   \* two requests of one name
RunnerRest ==
    /\ run = IdleRun /\ live = <<>> /\ cancel = FALSE /\ skipKeys = {} /\ aborted = FALSE
    /\ runResponses = <<>> /\ mine = <<>>

MCInit ==
    /\ part \in {"autosave", "runner"}
    /\ IF part = "autosave" THEN Init ELSE AutosaveRest
    /\ IF part = "runner" THEN RunnerInit ELSE RunnerRest

AutosavePart == part = "autosave" /\ Next /\ UNCHANGED <<part, runnerVars>>
RunnerPart == part = "runner" /\ RunnerNext /\ UNCHANGED <<part, vars>>

MCNext == AutosavePart \/ RunnerPart
MCVars == <<part, vars, runnerVars>>
MCSpec == MCInit /\ [][MCNext]_MCVars
          /\ Fairness /\ RunnerFairness
=============================================================================
