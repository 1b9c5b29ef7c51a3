----------------------------- MODULE Governance -----------------------------
(***************************************************************************)
(* The organization record of a project.  The renderer edits it            *)
(* (identityGovernance.ts, IdentityGovernancePanel.tsx), every change of   *)
(* the workspace passes the authority filter of App.setWorkspace, and each *)
(* changed record is sent whole to the desktop process, whose SCIM         *)
(* connector changes its own copy and sends that back, whole, as an event. *)
(* The effect does not await the command it sends, which runs on the async *)
(* runtime, and an event is emitted after the lock on the record was       *)
(* released, so both may overtake each other.                              *)
(*                                                                         *)
(* One request lives in one of two collections: "open" has no grants,      *)
(* "scoped" has the grants of the record.  Names, e-mails, domains, the    *)
(* audit trail and the identity provider's protocol are left out; a member *)
(* stands for his e-mail address.                                          *)
(***************************************************************************)
EXTENDS Naturals, FiniteSets

CONSTANTS
    Members,      \* the people: e-mail addresses known to the organization
    FirstOwner,   \* the local owner every new project starts with
    MaxEdits,     \* bound: changes made in the renderer
    MaxScimCalls  \* bound: requests of the identity provider

ASSUME GovernanceAssumption ==
    FirstOwner \in Members /\ MaxEdits \in Nat /\ MaxScimCalls \in Nat

VARIABLES
    gov,        \* the renderer's record
    backend,    \* the desktop process's record
    syncs,      \* records on their way to the desktop process, in the order sent
    syncsSent,  \* syncs so far
    syncedLast, \* the number of the sync received last
    updates,    \* records on their way to the renderer, by the call that made them
    connector,  \* the SCIM connector: is it registered?
    draining,   \* a stopped connector is still finishing its connections
    holders,    \* the collections that hold the request
    govEdits, scimCalls

govSyncVars == <<syncs, syncsSent, syncedLast>>
govVars == <<gov, backend, govSyncVars, updates, connector, draining, holders,
             govEdits, scimCalls>>

Roles == {"owner", "admin", "editor", "viewer"}

NoMember == [role |-> "none", active |-> FALSE, scim |-> FALSE, team |-> FALSE]

Manual(role) == [role |-> role, active |-> TRUE, scim |-> FALSE, team |-> FALSE]

\* permissionsByRole: owners and admins manage members, invitations, grants.
Manages(g) == g.member[g.actor].active
              /\ g.member[g.actor].role \in {"owner", "admin"}

\* canConfigureSso: only an owner configures single sign-on.
Owns(g) == g.member[g.actor].active /\ g.member[g.actor].role = "owner"

ActiveOwners(g) ==
    {m \in Members : g.member[m].active /\ g.member[m].role = "owner"}

-----------------------------------------------------------------------------
(* Access.                                                                 *)

RoleAccess(role) == IF role = "editor" THEN "editor" ELSE "viewer"

\* A grant names a member or the team; "scoped" is the collection it is for.
GrantsTo(g, m) == {g.grants[s] : s \in {m} \cup (IF g.member[m].team THEN {"team"} ELSE {})}

ResourceAccess(g, c, m) ==
    IF ~g.member[m].active THEN "none"
    ELSE IF g.member[m].role \in {"owner", "admin"} THEN "editor"
    ELSE IF \/ c = "open" \/ \A s \in DOMAIN g.grants : g.grants[s] = "none"
            \/ "editor" \in GrantsTo(g, m)
         THEN RoleAccess(g.member[m].role)
    ELSE IF "viewer" \in GrantsTo(g, m) THEN "viewer" ELSE "none"

\* authenticationOnlyGovernanceUpdate: only who is signed in, and the groups
\* the identity provider reports for him, differ.
AuthenticationOnly(old, new) ==
    /\ old.sso
    /\ new.member[new.actor].active
    /\ [new EXCEPT !.actor = old.actor, !.member = old.member] = old
    /\ \A m \in Members :
          [new.member[m] EXCEPT !.team = old.member[m].team] = old.member[m]

\* The filter of App.setWorkspace on the organization record: with no active
\* member signed in, or an owner or admin, everything proposed is taken.
GovernanceEnforced(old, new) ==
    IF \/ ~old.member[old.actor].active
       \/ Manages(old)
       \/ AuthenticationOnly(old, new)
    THEN new
    ELSE old

\* Mutant: a collection is taken as proposed unless it is hidden.
HoldersEnforcedIfSeen(g, old, new) ==
    {c \in {"open", "scoped"} :
        IF ResourceAccess(g, c, g.actor) # "none" THEN c \in new ELSE c \in old}

\* The same filter on the collections: each one is taken as proposed only
\* where the member may edit it.
HoldersEnforced(g, old, new) ==
    IF ~g.member[g.actor].active \/ Manages(g) THEN new
    ELSE {c \in {"open", "scoped"} :
            IF ResourceAccess(g, c, g.actor) = "editor" THEN c \in new ELSE c \in old}

-----------------------------------------------------------------------------
(* The renderer.                                                           *)

\* A change of the record; the effect on workspace.governance sends the new
\* record, whoever made it, to the desktop process.
Adopt(new) ==
    /\ gov' = new
    /\ IF new = gov THEN UNCHANGED <<syncs, syncsSent>>
       ELSE /\ syncsSent' = syncsSent + 1
            /\ syncs' = syncs \cup {[number |-> syncsSent + 1, record |-> new]}
    /\ UNCHANGED syncedLast

EditGovernance(new) ==
    /\ govEdits < MaxEdits
    /\ govEdits' = govEdits + 1
    /\ Adopt(GovernanceEnforced(gov, new))
    /\ UNCHANGED <<backend, updates, connector, draining, holders, scimCalls>>

\* The controls of the organization's owner are disabled.
UpdateMember(m, member) ==
    LET new == [gov EXCEPT !.member[m] = member]
    IN /\ Manages(gov)
       /\ m # gov.owner /\ gov.member[m].role # "none"
       /\ ActiveOwners(new) # {}
       /\ EditGovernance(new)

UpdateRole(m, role) == UpdateMember(m, [gov.member[m] EXCEPT !.role = role])

UpdateActive(m) ==
    /\ ~gov.member[m].scim
    /\ UpdateMember(m, [gov.member[m] EXCEPT !.active = ~@])

AddManualMember(m) ==
    /\ Manages(gov)
    /\ gov.member[m].role = "none"
    /\ EditGovernance([gov EXCEPT !.member[m] = Manual("editor")])

ToggleTeamMember(m) ==
    /\ Manages(gov)
    /\ gov.member[m].role # "none"
    /\ EditGovernance([gov EXCEPT !.member[m].team = ~@])

CreateInvitation(m, role) ==
    /\ Manages(gov)
    /\ ~gov.member[m].active /\ gov.invited[m] = "none"
    /\ EditGovernance([gov EXCEPT !.invited[m] = role])

RevokeInvitation(m) ==
    /\ Manages(gov)
    /\ gov.invited[m] # "none"
    /\ EditGovernance([gov EXCEPT !.invited[m] = "none"])

\* An existing member keeps everything but role and activity.
Accepted(m) ==
    IF gov.member[m].role = "none" THEN Manual(gov.invited[m])
    ELSE [gov.member[m] EXCEPT !.active = TRUE, !.role = gov.invited[m]]

AcceptInvitationLocally(m) ==
    /\ gov.invited[m] # "none"
    /\ EditGovernance([gov EXCEPT !.member[m] = Accepted(m),
                                  !.invited[m] = "none"])

TransferOwnership(m) ==
    /\ gov.actor = gov.owner /\ Owns(gov)
    /\ ~gov.sso
    /\ \A n \in Members : gov.invited[n] = "none"
    /\ gov.member[m].active /\ m # gov.owner
    /\ EditGovernance([gov EXCEPT !.member[m].role = "owner",
                                  !.member[gov.owner].role = "admin",
                                  !.owner = m])

SwitchActor(m) ==
    /\ ~gov.sso
    /\ gov.member[m].active
    /\ EditGovernance([gov EXCEPT !.actor = m])

ToggleSso ==
    /\ Owns(gov)
    /\ EditGovernance([gov EXCEPT !.sso = ~@])

ToggleScim ==
    /\ Manages(gov)
    /\ gov.scim \/ gov.sso
    /\ EditGovernance([gov EXCEPT !.scim = ~@])

UpsertGrant(subject, access) ==
    /\ Manages(gov)
    /\ EditGovernance([gov EXCEPT !.grants[subject] = access])

RemoveGrant(subject) == UpsertGrant(subject, "none")

\* A sign-in through the identity provider; groups it reports add the member
\* to the team of that name.
Login(m, grouped) ==
    /\ gov.sso
    /\ gov.member[m].active
    /\ EditGovernance([gov EXCEPT !.actor = m, !.member[m].team = @ \/ grouped])

\* Moving the request, as any other change of the workspace, passes the filter.
MoveRequest(from, to) ==
    /\ govEdits < MaxEdits
    /\ govEdits' = govEdits + 1
    /\ from # to /\ from \in holders
    /\ ResourceAccess(gov, from, gov.actor) # "none"
    /\ ResourceAccess(gov, to, gov.actor) # "none"
    /\ holders' = HoldersEnforced(gov, holders, (holders \ {from}) \cup {to})
    /\ UNCHANGED <<gov, backend, govSyncVars, updates, connector, draining, scimCalls>>

\* listenForGovernanceUpdates: adopted past the filter.
AdoptUpdate ==
    /\ \E u \in updates : updates' = updates \ {u} /\ Adopt(u.record)
    /\ UNCHANGED <<backend, connector, draining, holders, govEdits, scimCalls>>

-----------------------------------------------------------------------------
(* The desktop process.                                                    *)

\* The record of the desktop process is replaced under its lock, by whichever
\* command gets it.
SyncArrives ==
    /\ \E s \in syncs : /\ syncs' = syncs \ {s}
                       /\ backend' = s.record /\ syncedLast' = s.number
    /\ UNCHANGED <<gov, syncsSent, updates, connector, draining, holders, govEdits, scimCalls>>

StartConnector ==
    /\ gov.scim /\ backend.scim
    /\ ~connector
    /\ connector' = TRUE
    /\ UNCHANGED <<gov, backend, govSyncVars, updates, draining, holders, govEdits, scimCalls>>

StopConnector ==
    /\ connector
    /\ connector' = FALSE /\ draining' = TRUE
    /\ UNCHANGED <<gov, backend, govSyncVars, updates, holders, govEdits, scimCalls>>

\* The stopped server's task removes whatever connector of this project is
\* registered; losing its registration ends a connector started meanwhile.
ConnectorCleanup ==
    /\ draining
    /\ connector' = FALSE /\ draining' = connector
    /\ UNCHANGED <<gov, backend, govSyncVars, updates, holders, govEdits, scimCalls>>

\* The event, emitted later, is on its way from here.
ScimAnswers(new) ==
    /\ scimCalls < MaxScimCalls
    /\ connector
    /\ scimCalls' = scimCalls + 1
    /\ backend' = new
    /\ updates' = updates \cup {[call |-> scimCalls + 1, record |-> new]}
    /\ UNCHANGED <<gov, govSyncVars, connector, draining, holders, govEdits>>

\* user_from_body refuses to deactivate the last active owner.
MayDeactivate(g, m) == ActiveOwners(g) # {m}

Provisioned(g, m, active) ==
    IF g.member[m].role = "none"
    THEN [g EXCEPT !.member[m] = [Manual("editor") EXCEPT !.active = active, !.scim = TRUE]]
    ELSE [g EXCEPT !.member[m].active = active, !.member[m].scim = TRUE]

\* POST /Users: matched by e-mail, a manual member becomes provisioned.
ScimCreateUser(m, active) ==
    /\ active \/ MayDeactivate(backend, m)
    /\ ScimAnswers(Provisioned(backend, m, active))

\* PUT, PATCH and DELETE of /Users/id: only members already provisioned.
ScimChangeUser(m, active) ==
    /\ backend.member[m].scim
    /\ active \/ MayDeactivate(backend, m)
    /\ ScimAnswers(Provisioned(backend, m, active))

\* POST, PUT, PATCH and DELETE of /Groups: the members a group now has.
ScimSetGroup(group) ==
    ScimAnswers([backend EXCEPT !.member =
        [m \in Members |-> [@[m] EXCEPT !.team = m \in group]]])

-----------------------------------------------------------------------------

\* A project of its first owner alone, who may have invited the others, or one
\* whose members were added, given access and signed in before; with and
\* without single sign-on and a running connector.
FirstRecord(joined, on, actor, scope, pending) ==
    [member  |-> [m \in Members |-> IF m = FirstOwner THEN Manual("owner")
                                    ELSE IF joined THEN Manual("editor") ELSE NoMember],
     actor   |-> actor,
     owner   |-> FirstOwner,
     sso     |-> on,
     scim    |-> on,
     invited |-> [m \in Members |-> IF m = FirstOwner THEN "none" ELSE pending],
     grants  |-> [s \in Members \cup {"team"} |-> IF s = "team" THEN "none" ELSE scope]]

GovernanceInit ==
    /\ \E joined, on \in BOOLEAN, actor \in Members, scope, pending \in {"none", "viewer"} :
          /\ ~joined => actor = FirstOwner /\ scope = "none"
          /\ joined => pending = "none"
          /\ gov = FirstRecord(joined, on, actor, scope, pending)
          /\ connector = on
    /\ backend = gov
    /\ syncs = {} /\ updates = {} /\ syncsSent = 0 /\ syncedLast = 0
    /\ draining = FALSE
    /\ holders \in {{"open"}, {"scoped"}}
    /\ govEdits = 0 /\ scimCalls = 0

GovernanceNext ==
    \/ \E m \in Members :
          \/ \E role \in Roles : UpdateRole(m, role)
          \/ UpdateActive(m) \/ AddManualMember(m) \/ ToggleTeamMember(m)
          \/ \E role \in Roles \ {"owner"} : CreateInvitation(m, role)
          \/ RevokeInvitation(m) \/ AcceptInvitationLocally(m)
          \/ TransferOwnership(m) \/ SwitchActor(m)
          \/ \E grouped \in BOOLEAN : Login(m, grouped)
          \/ \E active \in BOOLEAN : ScimCreateUser(m, active) \/ ScimChangeUser(m, active)
    \/ \E s \in Members \cup {"team"} :
          \/ \E access \in {"viewer", "editor"} : UpsertGrant(s, access)
          \/ RemoveGrant(s)
    \/ ToggleSso \/ ToggleScim
    \/ \E from, to \in {"open", "scoped"} : MoveRequest(from, to)
    \/ AdoptUpdate \/ SyncArrives
    \/ StartConnector \/ StopConnector \/ ConnectorCleanup
    \/ \E group \in SUBSET Members : ScimSetGroup(group)

GovernanceSpec == GovernanceInit /\ [][GovernanceNext]_govVars

-----------------------------------------------------------------------------
(* Properties.                                                             *)

\* However edits, provisioning, syncs and updates overtake each other, the
\* renderer and the desktop process hold the same record when no update is on
\* its way and the record sent last was also received last: the renderer sends
\* back every record it adopts.  Nothing makes the last one arrive last.
CopiesAgree == updates = {} /\ syncedLast = syncsSent => gov = backend

\* While someone is signed in, the request changes only in collections he may
\* edit, and no edit of the renderer by a member who does not manage the
\* organization changes roles, invitations, grants or settings.
EditsAuthorized ==
    [][ /\ \A c \in {"open", "scoped"} :
             (c \in holders) # (c \in holders') =>
                ResourceAccess(gov, c, gov.actor) = "editor"
                \/ ~gov.member[gov.actor].active
        /\ govEdits' # govEdits /\ ~Manages(gov) /\ gov.member[gov.actor].active =>
             /\ gov'.grants = gov.grants /\ gov'.invited = gov.invited
             /\ \A m \in Members : gov'.member[m].role = gov.member[m].role
                                   /\ gov'.member[m].active = gov.member[m].active ]_govVars

\* The two together.
GovernanceSound == []CopiesAgree /\ EditsAuthorized

\* What docs/IDENTITY_GOVERNANCE.md says: at least one active owner is required.
ActiveOwner == ActiveOwners(gov) # {}
=============================================================================
