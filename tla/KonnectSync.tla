----------------------------- MODULE KonnectSync -----------------------------
(***************************************************************************)
(* The pull of all Konnect control planes (konnectCatalog.ts, konnect.ts): *)
(* each control plane of each region becomes a managed project whose       *)
(* requests mirror the gateway's routes and keep what the user changed in  *)
(* them.  Projects of control planes that are gone are moved to the trash. *)
(*                                                                         *)
(* Regions answer page by page and may refuse; the gateways change while   *)
(* the pull is under way; a project file may be unreadable.  A route       *)
(* stands for the requests generated from it.                              *)
(***************************************************************************)
EXTENDS Naturals, FiniteSets

CONSTANTS
    Planes,         \* control planes
    RegionOf,       \* the region of each
    Gap,            \* the region whose 403 counts as "nothing there" (sg)
    Routes,         \* routes of the gateways
    MaxProjects,    \* bound: managed projects ever created
    MaxPulls,       \* bound: pulls started
    MaxGatewayEdits \* bound: changes of the gateways

ASSUME KonnectAssumption ==
    /\ RegionOf \in [Planes -> {RegionOf[p] : p \in Planes}] /\ "none" \notin Planes
    /\ MaxProjects \in Nat /\ MaxPulls \in Nat /\ MaxGatewayEdits \in Nat

VARIABLES
    gateway,   \* per control plane: the routes it has now, or NoPlane
    projects,  \* the catalog: per project id a managed project, or NoProject
    pull,      \* the pull under way
    pulls, gatewayEdits

konnectVars == <<gateway, projects, pull, pulls, gatewayEdits>>

Regions == {RegionOf[p] : p \in Planes}

PulledIds == 1..MaxProjects

NoPlane == [there |-> FALSE, routes |-> {}]

NoProject == [plane |-> "none", requests |-> [r \in Routes |-> "absent"]]

Live == {i \in PulledIds : projects[i] # NoProject}

\* What a pull holds: the regions and planes still to do, the projects it read,
\* what it discovered, the regions it saw in full.  History: what it could not
\* read.
NoPull == [stage |-> "idle", regions |-> {}, region |-> "none", planes |-> {},
           read |-> {}, unread |-> {}, discovered |-> {}, successful |-> {}, removing |-> {}]

-----------------------------------------------------------------------------
(* Reconciliation of one project.                                          *)

\* preserveLocalRequest: a request that was there keeps its local part.
LocalPart(request) == IF request = "absent" THEN "pulled" ELSE request

\* mapKonnectResources: a request for exactly the routes received.
RequestsFor(requests, received) ==
    [r \in Routes |-> IF r \in received THEN LocalPart(requests[r]) ELSE "absent"]

Reconciled(project, plane, received) ==
    [plane |-> plane, requests |-> RequestsFor(project.requests, received)]

\* planKonnectCatalogReconciliation: the first project, in catalog order, of
\* each discovered control plane is retained.
FirstOf(read, p) ==
    LET candidates == {i \in read : projects[i].plane = p}
    IN {i \in candidates : \A j \in candidates : i <= j}

Retained(read, discovered) == UNION {FirstOf(read, p) : p \in discovered}

\* Mutant: every region that was asked counts as seen.
ToDeleteAnywhere(read, discovered, successful) == read \ Retained(read, discovered)

\* Projects that were read, are not retained, and whose region was seen in full.
ToDelete(read, discovered, successful) ==
    {i \in read \ Retained(read, discovered) : RegionOf[projects[i].plane] \in successful}

-----------------------------------------------------------------------------
(* The pull.                                                               *)

\* Any one project may be unreadable.  Other catalog operations, and editing
\* projects other than the coordinator, wait until the pull has ended.
StartPull(unreadable) ==
    /\ pull.stage = "idle"
    /\ pulls < MaxPulls
    /\ pulls' = pulls + 1
    /\ Cardinality(unreadable) <= 1
    /\ pull' = [NoPull EXCEPT !.stage = "regions", !.regions = Regions,
                              !.read = Live \ unreadable, !.unread = unreadable]
    /\ UNCHANGED <<gateway, projects, gatewayEdits>>

\* The control planes of a region, all pages of them.
RegionListed(region) ==
    LET listed == {p \in Planes : RegionOf[p] = region /\ gateway[p].there}
    IN /\ pull.stage = "regions" /\ region \in pull.regions
       /\ pull' = [pull EXCEPT !.stage = "planes", !.region = region,
                               !.regions = @ \ {region}, !.planes = listed,
                               !.discovered = @ \cup listed]
       /\ UNCHANGED <<gateway, projects, pulls, gatewayEdits>>

\* A refused or failed listing skips the region.
RegionFails(region) ==
    /\ pull.stage = "regions" /\ region \in pull.regions
    /\ pull' = [pull EXCEPT !.regions = @ \ {region}]
    /\ UNCHANGED <<gateway, projects, pulls, gatewayEdits>>

\* A 403 of the gap region counts as a complete, empty list.
RegionGap ==
    /\ pull.stage = "regions" /\ Gap \in pull.regions
    /\ pull' = [pull EXCEPT !.regions = @ \ {Gap}, !.successful = @ \cup {Gap}]
    /\ UNCHANGED <<gateway, projects, pulls, gatewayEdits>>

NewId == {i \in PulledIds : \A j \in PulledIds : (j >= i) => projects[j] = NoProject}

\* Services and routes of one control plane; the project read for it is saved
\* over, or a new inactive one is created at the end of the catalog.
PlanePulled(p) ==
    LET known == FirstOf(pull.read, p)
    IN /\ pull.stage = "planes" /\ p \in pull.planes
       /\ \E i \in IF known # {} THEN known
                   ELSE {n \in NewId : \A j \in NewId : n <= j} :
             projects' = [projects EXCEPT ![i] = Reconciled(@, p, gateway[p].routes)]
       /\ pull' = [pull EXCEPT !.planes = @ \ {p}]
       /\ UNCHANGED <<gateway, pulls, gatewayEdits>>

\* The first failure of a control plane ends its region.
PlaneFails(p) ==
    /\ pull.stage = "planes" /\ p \in pull.planes
    /\ pull' = [pull EXCEPT !.stage = "regions", !.planes = {}, !.region = "none"]
    /\ UNCHANGED <<gateway, projects, pulls, gatewayEdits>>

\* Mutant: a region whose planes were cut short is taken as complete.
RegionDoneAlways ==
    /\ pull.stage = "planes"
    /\ pull' = [pull EXCEPT !.stage = "regions", !.region = "none", !.planes = {},
                            !.successful = @ \cup {pull.region}]
    /\ UNCHANGED <<gateway, projects, pulls, gatewayEdits>>

RegionDone ==
    /\ pull.stage = "planes" /\ pull.planes = {}
    /\ pull' = [pull EXCEPT !.stage = "regions", !.region = "none",
                            !.successful = @ \cup {pull.region}]
    /\ UNCHANGED <<gateway, projects, pulls, gatewayEdits>>

PlanDeletions ==
    /\ pull.stage = "regions" /\ pull.regions = {}
    /\ pull' = [pull EXCEPT !.stage = "delete",
                            !.removing = ToDelete(pull.read, pull.discovered, pull.successful)]
    /\ UNCHANGED <<gateway, projects, pulls, gatewayEdits>>

DeletePulledProject(i) ==
    /\ pull.stage = "delete" /\ i \in pull.removing
    /\ projects' = [projects EXCEPT ![i] = NoProject]
    /\ pull' = [pull EXCEPT !.removing = @ \ {i}]
    /\ UNCHANGED <<gateway, pulls, gatewayEdits>>

FinishPull ==
    /\ pull.stage = "delete" /\ pull.removing = {}
    /\ pull' = NoPull
    /\ UNCHANGED <<gateway, projects, pulls, gatewayEdits>>

\* A save, a creation or a deletion fails: the pull ends where it is.
PullAborts ==
    /\ pull.stage \in {"planes", "delete"}
    /\ pull' = NoPull
    /\ UNCHANGED <<gateway, projects, pulls, gatewayEdits>>

-----------------------------------------------------------------------------
(* The user and the gateways.                                              *)

EditRequest(i, r) ==
    /\ pull.stage = "idle"
    /\ projects[i].requests[r] = "pulled"
    /\ projects' = [projects EXCEPT ![i].requests[r] = "edited"]
    /\ UNCHANGED <<gateway, pull, pulls, gatewayEdits>>

ChangeGateway(p, new) ==
    /\ gatewayEdits < MaxGatewayEdits
    /\ gatewayEdits' = gatewayEdits + 1
    /\ new # gateway[p]
    /\ gateway' = [gateway EXCEPT ![p] = new]
    /\ UNCHANGED <<projects, pull, pulls>>

-----------------------------------------------------------------------------

KonnectInit ==
    /\ gateway = [p \in Planes |-> [there |-> TRUE, routes |-> Routes]]
    /\ projects = [i \in PulledIds |-> NoProject]
    /\ pull = NoPull
    /\ pulls = 0 /\ gatewayEdits = 0

KonnectNext ==
    \/ \E unreadable \in SUBSET Live : StartPull(unreadable)
    \/ \E region \in Regions : RegionListed(region) \/ RegionFails(region)
    \/ RegionGap
    \/ \E p \in Planes : PlanePulled(p) \/ PlaneFails(p)
    \/ RegionDone \/ PlanDeletions
    \/ \E i \in PulledIds : DeletePulledProject(i)
    \/ FinishPull \/ PullAborts
    \/ \E i \in PulledIds, r \in Routes : EditRequest(i, r)
    \/ \E p \in Planes :
          \/ ChangeGateway(p, NoPlane)
          \/ \E routes \in SUBSET Routes : ChangeGateway(p, [there |-> TRUE, routes |-> routes])

KonnectSpec == KonnectInit /\ [][KonnectNext]_konnectVars

-----------------------------------------------------------------------------
(* Properties.                                                             *)

\* A managed project is removed only by a pull that saw its whole region, or
\* was refused the gap region, and either did not find its control plane there
\* or kept an older project of it: no failure halfway, whether of a region, of
\* a control plane or of a project file, costs a project.
DeletedOnlyWhenGone ==
    \A i \in PulledIds :
        (projects[i] # NoProject /\ projects'[i] = NoProject) =>
            LET p == projects[i].plane
            IN /\ RegionOf[p] \in pull.successful
               /\ \/ p \notin pull.discovered
                  \/ \E j \in Live : j < i /\ projects[j].plane = p

\* What the user changed in a request goes only with its route or its project.
LocalPartKept ==
    \A i \in PulledIds, r \in Routes :
        (projects[i].requests[r] = "edited" /\ projects'[i].requests[r] # "edited") =>
            \/ projects'[i] = NoProject
            \/ r \notin gateway[projects[i].plane].routes

\* A pull that ends with nothing skipped and every project readable leaves one
\* project for each control plane it discovered.
OneProjectEach ==
    (pull.stage = "delete" /\ pull'.stage = "idle" /\ pull.removing = {}
        /\ pull.successful = Regions /\ pull.unread = {}) =>
        \A p \in pull.discovered : Cardinality({i \in Live : projects[i].plane = p}) = 1

\* The three together, of every step.
KonnectSound == [][DeletedOnlyWhenGone /\ LocalPartKept /\ OneProjectEach]_konnectVars
=============================================================================
