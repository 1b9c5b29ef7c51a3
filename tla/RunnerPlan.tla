----------------------------- MODULE RunnerPlan -----------------------------
(***************************************************************************)
(* What the runner's page and the sidebar keep beside the requests         *)
(* themselves: the plan of a run (runnerPlan.ts, AutomationWorkbench.tsx), *)
(* the saved reports and their two-click deletion, and the pinned requests *)
(* of each project (requestPins.ts, App.tsx).                              *)
(***************************************************************************)
EXTENDS Naturals, Sequences, FiniteSets, SequencesExt, Functions

CONSTANTS
    PlanRequests,   \* requests that can exist in the runner's collection
    Reports,        \* reports of earlier runs
    PlanProjects    \* projects; every one of them has the same request ids

ASSUME PlanAssumption == IsFiniteSet(PlanRequests) /\ "" \notin Reports

VARIABLES
    existing,     \* the collection's requests, in order
    plan,         \* requestPlan: id and enabled
    dragged,      \* draggedRequestIds
    reports,      \* saved reports
    pendingId,    \* pendingDeleteReportId
    lastClick,    \* history: the report whose delete button was last clicked
    shownProject, \* activeWorkspaceId
    pinState,     \* requestPinState: project and ids
    pinStore      \* localStorage: project -> pinned ids

planVars == <<existing, plan, dragged, reports, pendingId, lastClick, shownProject, pinState, pinStore>>
reportVars == <<reports, pendingId, lastClick>>
pinVars == <<shownProject, pinState, pinStore>>

PlanIds(p) == [k \in DOMAIN p |-> p[k].id]

(* What a filter keeps of s: the entries at these places, in their order.  *)
EntriesAt(s, places) ==
    [n \in 1 .. Cardinality(places) |-> s[CHOOSE k \in places : Cardinality({j \in places : j < k}) = n - 1]]
-----------------------------------------------------------------------------
(* runnerRequests changes, and the effect keeps the plan in step: what is  *)
(* left keeps its place, what is new comes last, enabled.                  *)
AllEnabled(requests) == [k \in DOMAIN requests |-> [id |-> requests[k], enabled |-> TRUE]]
PlanFor(requests) ==
    LET retained == EntriesAt(plan, {k \in DOMAIN plan : plan[k].id \in ToSet(requests)})
        added == EntriesAt(requests, {k \in DOMAIN requests : requests[k] \notin ToSet(PlanIds(retained))})
    IN retained \o AllEnabled(added)

ChangeRequests(requests) ==
    /\ existing' = requests /\ plan' = PlanFor(requests)
    /\ UNCHANGED <<dragged, reportVars, pinVars>>

Toggle(k) ==
    /\ plan' = [plan EXCEPT ![k].enabled = ~@]
    /\ UNCHANGED <<existing, dragged, reportVars, pinVars>>
(* toggleRunnerPlanSelection: everything, unless everything was.           *)
ToggleAll ==
    /\ plan # <<>>
    /\ plan' = [k \in DOMAIN plan |-> [plan[k] EXCEPT !.enabled = ~(\A j \in DOMAIN plan : plan[j].enabled)]]
    /\ UNCHANGED <<existing, dragged, reportVars, pinVars>>
MoveRequest(k, to) ==
    /\ k # to /\ plan' = InsertAt(RemoveAt(plan, k), to, plan[k])
    /\ UNCHANGED <<existing, dragged, reportVars, pinVars>>

(* runnerDraggedRequestIds: an enabled request takes all enabled ones.     *)
DragStart(k) ==
    /\ dragged' = IF plan[k].enabled THEN {x.id : x \in {plan[j] : j \in {i \in DOMAIN plan : plan[i].enabled}}} ELSE {plan[k].id}
    /\ UNCHANGED <<existing, plan, reportVars, pinVars>>

(* reorderRunnerPlan, on the plan of the moment of the drop.               *)
Reordered(moving, target, after) ==
    LET moved == EntriesAt(plan, {k \in DOMAIN plan : plan[k].id \in moving})
        rest == EntriesAt(plan, {k \in DOMAIN plan : plan[k].id \notin moving})
        at == LET k == CHOOSE k \in DOMAIN rest : rest[k].id = target IN IF after THEN k ELSE k - 1
    IN IF moved = <<>> \/ target \in moving \/ target \notin ToSet(PlanIds(rest)) THEN plan
       ELSE SubSeq(rest, 1, at) \o moved \o SubSeq(rest, at + 1, Len(rest))
DropRequest(target, after) ==
    /\ dragged # {} /\ plan' = Reordered(dragged, target, after) /\ dragged' = {}
    /\ UNCHANGED <<existing, reportVars, pinVars>>

-----------------------------------------------------------------------------
(* requestDeleteReport: a second click on the same report deletes it; a    *)
(* timer of two seconds forgets the first.                                 *)
ConfirmedByAnyPending(r) == pendingId # ""
Confirmed(r) == pendingId = r
ClickDelete(r) ==
    /\ r \in reports /\ lastClick' = r
    /\ IF Confirmed(r) THEN reports' = reports \ {r} /\ pendingId' = ""
       ELSE UNCHANGED reports /\ pendingId' = r
    /\ UNCHANGED <<existing, plan, dragged, pinVars>>
DeleteTimeout ==
    /\ pendingId # "" /\ pendingId' = "" /\ lastClick' = ""
    /\ UNCHANGED <<existing, plan, dragged, reports, pinVars>>

-----------------------------------------------------------------------------
(* Pins: read when a project is shown; toggled; and an effect that first   *)
(* drops ids of requests that are gone and then stores them.               *)
ShowProject(p) ==
    /\ p # shownProject /\ shownProject' = p
    /\ UNCHANGED <<existing, plan, dragged, reportVars, pinState, pinStore>>
LoadPins ==
    /\ pinState.project # shownProject
    /\ pinState' = [project |-> shownProject, ids |-> pinStore[shownProject] \cap ToSet(existing)]
    /\ UNCHANGED <<existing, plan, dragged, reportVars, shownProject, pinStore>>
TogglePin(r) ==
    LET now == IF pinState.project = shownProject THEN pinState.ids \cap ToSet(existing) ELSE {} IN
    /\ pinState.project = shownProject   \* the sidebar that toggles shows loaded pins
    /\ pinState' = [project |-> shownProject, ids |-> IF r \in now THEN now \ {r} ELSE now \cup ({r} \cap ToSet(existing))]
    /\ UNCHANGED <<existing, plan, dragged, reportVars, shownProject, pinStore>>
StoresPins == pinState.project = shownProject
PinEffect ==
    /\ StoresPins
    /\ IF pinState.ids \subseteq ToSet(existing)
       THEN pinStore' = [pinStore EXCEPT ![shownProject] = pinState.ids] /\ UNCHANGED pinState
       ELSE pinState' = [pinState EXCEPT !.ids = @ \cap ToSet(existing)] /\ UNCHANGED pinStore
    /\ UNCHANGED <<existing, plan, dragged, reportVars, shownProject>>

Orders == UNION {{s \in [1 .. n -> PlanRequests] : IsInjective(s)} : n \in 0 .. Cardinality(PlanRequests)}
PlanInit ==
    /\ existing \in {s \in Orders : s # <<>>} /\ plan = AllEnabled(existing) /\ dragged = {}
    /\ reports = Reports /\ pendingId = "" /\ lastClick = ""
    /\ shownProject \in PlanProjects /\ pinState = [project |-> "", ids |-> {}] /\ pinStore = [p \in PlanProjects |-> {}]
PlanNext ==
    \/ \E requests \in Orders : ChangeRequests(requests)
    \/ ToggleAll \/ \E k \in DOMAIN plan : Toggle(k) \/ DragStart(k) \/ \E to \in DOMAIN plan : MoveRequest(k, to)
    \/ \E r \in ToSet(existing), after \in BOOLEAN : DropRequest(r, after)
    \/ DeleteTimeout \/ \E r \in Reports : ClickDelete(r)
    \/ LoadPins \/ PinEffect \/ (\E p \in PlanProjects : ShowProject(p)) \/ \E r \in PlanRequests : TogglePin(r)
PlanSpec == PlanInit /\ [][PlanNext]_planVars

-----------------------------------------------------------------------------
(* The plan holds every request of the collection exactly once, whatever   *)
(* was dragged while requests came and went (runnerPlan.ts,                *)
(* reorderRunnerPlan); a report is deleted only by a click on it that      *)
(* follows one on it (requestDeleteReport); and what is stored as one      *)
(* project's pins changes only while that project's pins are the loaded    *)
(* ones (App.tsx, the pin effects).                                        *)
PlanExact == IsInjective(PlanIds(plan)) /\ ToSet(PlanIds(plan)) = ToSet(existing)
PlanSound ==
    /\ []PlanExact
    /\ [][/\ \A r \in reports \ reports' : lastClick = r
          /\ \A p \in PlanProjects : pinStore'[p] # pinStore[p] => pinState.project = p]_planVars
=============================================================================
