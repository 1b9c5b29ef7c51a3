---------------------------- MODULE MCWorkbench -----------------------------
(* The workbench while something runs, for TLC: the stream console, mock   *)
(* servers, test suites, the plan of a run and the vault.                  *)
EXTENDS StreamConsole, MockServers, TestSuites, RunnerPlan, VaultSession

VARIABLE part   \* the component this behaviour is about; the others are at rest

PlanRest ==
    /\ existing = SetToSeq(PlanRequests) /\ plan = [k \in DOMAIN existing |-> [id |-> existing[k], enabled |-> TRUE]]
    /\ dragged = {} /\ reports = Reports /\ pendingId = "" /\ lastClick = ""
    /\ shownProject = CHOOSE p \in PlanProjects : TRUE
    /\ pinState = [project |-> "", ids |-> {}] /\ pinStore = [p \in PlanProjects |-> {}]
VaultRest ==
    /\ vaultProject = CHOOSE p \in VaultProjects : TRUE
    /\ session = Locked /\ vaultFile = [p \in VaultProjects |-> NoVault] /\ savedKey = {}
    /\ saveTimer = 0 /\ generation = 0 /\ savePending = FALSE
    /\ vaultSaves = {} /\ unlocks = {} /\ switching = Settled
    /\ secretEdits = 0 /\ lastSecret = [p \in VaultProjects |-> 0]
    /\ vaultSent = 0 /\ vaultChanges = 0 /\ excused = {}

MCInit ==
    /\ part \in {"console", "mocks", "suites", "plan", "pins", "vault"}
    /\ Init
    /\ MockInit
    /\ SuiteInit /\ "h" \in requestsOf["home"] /\ "w" \in requestsOf["away"]
    /\ IF part \in {"plan", "pins"} THEN PlanInit ELSE PlanRest
    /\ IF part = "vault" THEN VaultInit ELSE VaultRest

ConsolePart == part = "console" /\ Next /\ UNCHANGED <<part, mockVars, suiteVars, planVars, vaultVars>>
MocksPart == part = "mocks" /\ MockNext /\ UNCHANGED <<part, vars, suiteVars, planVars, vaultVars>>
\* One of the requests moves, is deleted and has responses; the other stays.
SuitePart == part = "suites" /\ SuiteNext /\ stored' \subseteq {"h"} /\ "w" \in requestsOf'["away"] /\ UNCHANGED <<part, vars, mockVars, planVars, vaultVars>>
PlanPart == part = "plan" /\ PlanNext /\ UNCHANGED <<part, pinVars, vars, mockVars, suiteVars, vaultVars>>
PinsPart == part = "pins" /\ PlanNext /\ UNCHANGED <<part, dragged, reportVars, vars, mockVars, suiteVars, vaultVars>>
\* Not all bounds are exhausted together: of seven project changes, edits, saves
\* and unlocks under way a behaviour combines five.
VaultLoad == vaultChanges + secretEdits + vaultSent + Cardinality(unlocks)
VaultPart == part = "vault" /\ VaultNext /\ VaultLoad' <= 5 /\ UNCHANGED <<part, vars, mockVars, suiteVars, planVars>>

MCNext == ConsolePart \/ MocksPart \/ SuitePart \/ PlanPart \/ PinsPart \/ VaultPart
MCVars == <<part, vars, mockVars, suiteVars, planVars, vaultVars>>
MCSpec == MCInit /\ [][MCNext]_MCVars
=============================================================================
