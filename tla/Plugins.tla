------------------------------- MODULE Plugins -------------------------------
(***************************************************************************)
(* Installed plugins and their authority: plugins.ts runs them in workers, *)
(* pluginModules.ts and PluginWorkbench.tsx install, reload and grant.     *)
(*                                                                         *)
(* A plugin's package is its code.  Of the permissions, "run" is the one   *)
(* an operation asks for (request:read, response:read, template, action),  *)
(* "store" the one that lets it keep data.  What the user reviewed is the  *)
(* code at the time of the last grant.  A plugin's data is known by the    *)
(* code that wrote it last.  A review describes the candidate in a worker  *)
(* and installs it after that await; a send runs the hooks of the plugins  *)
(* it began with on a copy of their data and writes the copy back.         *)
(***************************************************************************)
EXTENDS Naturals, TLAPS

CONSTANTS
    PluginIds,  \* ids of plugins
    Packages    \* codes a package can have

Permissions == {"run", "store"}
NoCode == "none"

VARIABLES
    plugins,     \* workspace.plugins, by id
    pluginData,  \* workspace.pluginData: the code that wrote it last
    reviewing,   \* the review the workbench runs
    sending,     \* a send with its plugin runtime
    acting       \* a contextual or workbench action under way

pluginVars == <<plugins, pluginData, reviewing, sending, acting>>

NotInstalled == [code |-> NoCode, enabled |-> FALSE, granted |-> {}, reviewed |-> NoCode]
NoReview == [kind |-> "none"]
NoSending == [todo |-> {}, plugins |-> <<>>, data |-> <<>>, on |-> FALSE]
NoAction == [kind |-> "none"]

PluginsInit ==
    /\ plugins = [p \in PluginIds |-> NotInstalled] /\ pluginData = [p \in PluginIds |-> NoCode]
    /\ reviewing = NoReview /\ sending = NoSending /\ acting = NoAction

Installed(p) == plugins[p] # NotInstalled
Candidate(code) == [code |-> code, enabled |-> FALSE, granted |-> {}, reviewed |-> NoCode]

-----------------------------------------------------------------------------
(* Permissions.                                                            *)

GrantPermission(p, permission) ==
    /\ Installed(p) /\ permission \notin plugins[p].granted
    /\ plugins' = [plugins EXCEPT ![p].granted = @ \cup {permission}, ![p].reviewed = plugins[p].code]
    /\ UNCHANGED <<pluginData, reviewing, sending, acting>>

RevokePermission(p, permission) ==
    /\ Installed(p) /\ permission \in plugins[p].granted
    /\ plugins' = [plugins EXCEPT ![p].granted = @ \ {permission}]
    /\ UNCHANGED <<pluginData, reviewing, sending, acting>>

SwitchPlugin(p) ==
    /\ Installed(p)
    /\ plugins' = [plugins EXCEPT ![p].enabled = ~@, ![p].reviewed = plugins[p].code]
    /\ UNCHANGED <<pluginData, reviewing, sending, acting>>

RemovePlugin(p) ==
    /\ Installed(p)
    /\ plugins' = [plugins EXCEPT ![p] = NotInstalled]
    /\ pluginData' = [pluginData EXCEPT ![p] = NoCode]
    /\ UNCHANGED <<reviewing, sending, acting>>

-----------------------------------------------------------------------------
(* Reviews.                                                                *)

MayReview == reviewing = NoReview /\ acting.kind # "workbench"

(* install: workspace is the one of the render the button was pressed in.  *)
StartInstall(p, code) ==
    /\ MayReview
    /\ reviewing' = [kind |-> "install", id |-> p, code |-> code, plugins |-> plugins, data |-> pluginData]
    /\ UNCHANGED <<plugins, pluginData, sending, acting>>

(* reloadSelected and the update of the source: a copy of the record.      *)
StartReload(p, code) ==
    /\ MayReview /\ Installed(p)
    /\ reviewing' = [kind |-> "reload", id |-> p, code |-> code]
    /\ UNCHANGED <<plugins, pluginData, sending, acting>>

(* discoverLocal: packages found in a folder, matched by their paths.      *)
StartDiscovery(p, code) ==
    /\ MayReview
    /\ reviewing' = [kind |-> "discover", id |-> p, code |-> code]
    /\ UNCHANGED <<plugins, pluginData, sending, acting>>

(* pluginPackageChanged decides whether authority and data are kept.       *)
Replacement(previous, code) == IF previous.code = code THEN previous ELSE Candidate(code)

(* installReviewedPlugin on the workspace of the start of the review.      *)
InstallDone ==
    /\ reviewing.kind = "install"
    /\ LET p == reviewing.id
           previous == reviewing.plugins[p]
       IN /\ plugins' = [reviewing.plugins EXCEPT ![p] =
                    IF previous = NotInstalled THEN Candidate(reviewing.code)
                    ELSE Replacement(previous, reviewing.code)]
          /\ pluginData' = [reviewing.data EXCEPT ![p] = IF previous.code = reviewing.code THEN @ ELSE NoCode]
    /\ reviewing' = NoReview
    /\ UNCHANGED <<sending, acting>>

(* replacePluginAfterAuthorityChange.                                      *)
ReloadDone ==
    /\ reviewing.kind = "reload"
    /\ plugins' = IF Installed(reviewing.id) THEN [plugins EXCEPT ![reviewing.id] = Candidate(reviewing.code)]
                  ELSE plugins
    /\ pluginData' = [pluginData EXCEPT ![reviewing.id] = NoCode]
    /\ reviewing' = NoReview
    /\ UNCHANGED <<sending, acting>>

DiscoveryDone ==
    /\ reviewing.kind = "discover"
    /\ LET p == reviewing.id
       IN /\ plugins' = [plugins EXCEPT ![p] =
                    IF Installed(p) THEN Replacement(@, reviewing.code) ELSE Candidate(reviewing.code)]
          /\ pluginData' = [pluginData EXCEPT ![p] = IF plugins[p].code \in {NoCode, reviewing.code} THEN @ ELSE NoCode]
    /\ reviewing' = NoReview
    /\ UNCHANGED <<sending, acting>>

(* describePlugin throws, or the package is refused.                       *)
ReviewFails ==
    /\ reviewing # NoReview /\ reviewing' = NoReview
    /\ UNCHANGED <<plugins, pluginData, sending, acting>>

-----------------------------------------------------------------------------
(* Workers.                                                                *)

(* What a worker may leave in the store: only with the permission.         *)
StoreAfter(record, stored) == IF "store" \in record.granted THEN {stored, record.code} ELSE {stored}

(* The part of a record a worker and its authority depend on.              *)
Seen(record) == [code |-> record.code, enabled |-> record.enabled, granted |-> record.granted]

(* createPluginRuntime: the plugins and the data of the render.            *)
StartPluginSend ==
    /\ ~sending.on
    /\ LET todo == {p \in PluginIds : plugins[p].enabled /\ "run" \in plugins[p].granted}
       IN sending' = [todo |-> todo, plugins |-> [p \in todo |-> Seen(plugins[p])], data |-> pluginData, on |-> TRUE]
    /\ UNCHANGED <<plugins, pluginData, reviewing, acting>>

(* runPluginRequestHooks, runPluginResponseHooks and runPluginTemplateTag, *)
(* one plugin; a worker that fails or exceeds its time ends the send.      *)
RunHook(p) ==
    /\ p \in sending.todo
    /\ \E stored \in StoreAfter(sending.plugins[p], sending.data[p]) :
            sending' = [sending EXCEPT !.todo = @ \ {p}, !.plugins = [q \in sending.todo \ {p} |-> @[q]], !.data[p] = stored]
    /\ UNCHANGED <<plugins, pluginData, reviewing, acting>>

HookFails ==
    /\ sending.todo # {} /\ sending' = [sending EXCEPT !.todo = {}, !.plugins = <<>>]
    /\ UNCHANGED <<plugins, pluginData, reviewing, acting>>

(* executeRequest writes the whole copy back.                              *)
PluginSendDone ==
    /\ sending.on /\ sending.todo = {}
    /\ pluginData' = sending.data /\ sending' = NoSending
    /\ UNCHANGED <<plugins, reviewing, acting>>

MayAct(p) == plugins[p].enabled /\ "run" \in plugins[p].granted

(* pluginActionAuthorityKey.                                               *)
AuthorityKey(record) == <<record.code, record.enabled, record.granted>>

StartAction(p, kind) ==
    /\ acting = NoAction /\ MayAct(p)
    /\ kind = "workbench" => reviewing = NoReview
    /\ acting' = [kind |-> kind, id |-> p, record |-> Seen(plugins[p]), data |-> pluginData[p]]
    /\ UNCHANGED <<plugins, pluginData, reviewing, sending>>

(* runContextualPluginAction and applyContextualPluginActionResult.        *)
AnyAuthority == TRUE
SameAuthority ==
    MayAct(acting.id) /\ AuthorityKey(plugins[acting.id]) = AuthorityKey(acting.record)

ContextualActionDone ==
    /\ acting.kind = "contextual" /\ acting' = NoAction
    /\ \/ UNCHANGED pluginData
       \/ /\ SameAuthority
          /\ \E stored \in StoreAfter(acting.record, acting.data) :
                pluginData' = [pluginData EXCEPT ![acting.id] = stored]
    /\ UNCHANGED <<plugins, reviewing, sending>>

(* runAction of the workbench applies its result whatever has changed.     *)
WorkbenchActionDone ==
    /\ acting.kind = "workbench" /\ acting' = NoAction
    /\ \/ UNCHANGED pluginData
       \/ \E stored \in StoreAfter(acting.record, acting.data) :
            pluginData' = [pluginData EXCEPT ![acting.id] = stored]
    /\ UNCHANGED <<plugins, reviewing, sending>>

-----------------------------------------------------------------------------
PluginsNext ==
    \/ \E p \in PluginIds :
        \/ \E permission \in Permissions : GrantPermission(p, permission) \/ RevokePermission(p, permission)
        \/ SwitchPlugin(p) \/ RemovePlugin(p)
        \/ \E code \in Packages : StartInstall(p, code) \/ StartReload(p, code) \/ StartDiscovery(p, code)
        \/ RunHook(p)
        \/ \E kind \in {"contextual", "workbench"} : StartAction(p, kind)
    \/ InstallDone \/ ReloadDone \/ DiscoveryDone \/ ReviewFails
    \/ StartPluginSend \/ HookFails \/ PluginSendDone
    \/ ContextualActionDone \/ WorkbenchActionDone

PluginsSpec == PluginsInit /\ [][PluginsNext]_pluginVars

-----------------------------------------------------------------------------
(* A plugin has authority, or runs, only with the code the user looked at  *)
(* when the authority was given.                                           *)
AuthorityReviewed ==
    \A p \in PluginIds : plugins[p].granted # {} \/ plugins[p].enabled => plugins[p].reviewed = plugins[p].code

(* Data a contextual action leaves behind was written by the code, and     *)
(* under the grants, the plugin has when the result is applied.            *)
ResultsUnderAuthority ==
    [][acting.kind = "contextual" /\ acting' = NoAction /\ pluginData' # pluginData =>
            AuthorityKey(plugins[acting.id]) = AuthorityKey(acting.record)]_pluginVars

(* Authority is never older than the code it is for, nor are its results.  *)
PluginsSound == []AuthorityReviewed /\ ResultsUnderAuthority

(* "Nothing is available until you grant it": no step but a grant of the   *)
(* user adds a permission to a plugin.                                     *)
GrantsOnlyByUser ==
    [][\A p \in PluginIds : ~(plugins'[p].granted \subseteq plugins[p].granted) =>
            \E permission \in Permissions : GrantPermission(p, permission)]_pluginVars
-----------------------------------------------------------------------------
(* Proof of PluginsSound, for any plugins and packages.  A review that     *)
(* installs works with a copy of all records, so what holds of the records *)
(* has to hold of the copy as well.                                        *)

Codes == Packages \cup {NoCode}
Records == [code : Codes, enabled : BOOLEAN, granted : SUBSET Permissions, reviewed : Codes]
ReviewedRecords == {r \in Records : r.granted # {} \/ r.enabled => r.reviewed = r.code}

PluginsInv ==
    /\ plugins \in [PluginIds -> ReviewedRecords]
    /\ reviewing.kind \in {"none", "install", "reload", "discover"}
    /\ reviewing.kind # "none" => reviewing.id \in PluginIds /\ reviewing.code \in Packages
    /\ reviewing.kind = "install" => reviewing.plugins \in [PluginIds -> ReviewedRecords]

LEMMA FreshRecords ==
  /\ NotInstalled \in ReviewedRecords
  /\ \A code \in Packages : Candidate(code) \in ReviewedRecords
  /\ \A r \in ReviewedRecords, code \in Packages : Replacement(r, code) \in ReviewedRecords
  BY DEF NotInstalled, Candidate, Replacement, ReviewedRecords, Records, Codes

\* One record is replaced by a reviewed one, and the review goes on or ends.
LEMMA RecordChanges ==
  ASSUME PluginsInv, NEW p \in PluginIds, NEW r \in ReviewedRecords,
         plugins' = [plugins EXCEPT ![p] = r], reviewing' = reviewing \/ reviewing' = NoReview
  PROVE  PluginsInv'
  BY DEF PluginsInv, NoReview

LEMMA PermissionsKeep ==
  ASSUME PluginsInv, NEW p \in PluginIds, NEW permission \in Permissions,
         GrantPermission(p, permission) \/ RevokePermission(p, permission) \/ SwitchPlugin(p) \/ RemovePlugin(p)
  PROVE  PluginsInv'
  <1>1. plugins[p] \in ReviewedRecords /\ plugins[p] \in Records
    BY DEF PluginsInv, ReviewedRecords
  <1>2. CASE GrantPermission(p, permission)
    <2> DEFINE r == [plugins[p] EXCEPT !.granted = @ \cup {permission}, !.reviewed = plugins[p].code]
    <2>1. r \in ReviewedRecords
      BY <1>1 DEF ReviewedRecords, Records
    <2>2. plugins' = [plugins EXCEPT ![p] = r] /\ reviewing' = reviewing
      BY <1>1, <1>2 DEF GrantPermission, PluginsInv, Records
    <2>3. QED
      BY <2>1, <2>2, RecordChanges
  <1>3. CASE RevokePermission(p, permission)
    <2> DEFINE r == [plugins[p] EXCEPT !.granted = @ \ {permission}]
    <2>1. r \in ReviewedRecords
      BY <1>1 DEF ReviewedRecords, Records
    <2>2. plugins' = [plugins EXCEPT ![p] = r] /\ reviewing' = reviewing
      BY <1>1, <1>3 DEF RevokePermission, PluginsInv, Records
    <2>3. QED
      BY <2>1, <2>2, RecordChanges
  <1>4. CASE SwitchPlugin(p)
    <2> DEFINE r == [plugins[p] EXCEPT !.enabled = ~@, !.reviewed = plugins[p].code]
    <2>1. r \in ReviewedRecords
      BY <1>1 DEF ReviewedRecords, Records
    <2>2. plugins' = [plugins EXCEPT ![p] = r] /\ reviewing' = reviewing
      BY <1>1, <1>4 DEF SwitchPlugin, PluginsInv, Records
    <2>3. QED
      BY <2>1, <2>2, RecordChanges
  <1>5. CASE RemovePlugin(p)
    BY <1>5, FreshRecords, RecordChanges DEF RemovePlugin
  <1>6. QED
    BY <1>2, <1>3, <1>4, <1>5

LEMMA ReviewsStart ==
  ASSUME PluginsInv, NEW p \in PluginIds, NEW code \in Packages,
         StartInstall(p, code) \/ StartReload(p, code) \/ StartDiscovery(p, code)
  PROVE  PluginsInv'
  BY DEF PluginsInv, StartInstall, StartReload, StartDiscovery

LEMMA ReviewsEnd ==
  ASSUME PluginsInv, InstallDone \/ ReloadDone \/ DiscoveryDone \/ ReviewFails
  PROVE  PluginsInv'
  <1>1. CASE InstallDone
    <2> DEFINE p == reviewing.id
               new == IF reviewing.plugins[p] = NotInstalled THEN Candidate(reviewing.code)
                      ELSE Replacement(reviewing.plugins[p], reviewing.code)
    <2>1. p \in PluginIds /\ reviewing.code \in Packages /\ reviewing.plugins \in [PluginIds -> ReviewedRecords]
      BY <1>1 DEF InstallDone, PluginsInv
    <2>2. new \in ReviewedRecords
      BY <2>1, FreshRecords
    <2>3. plugins' = [reviewing.plugins EXCEPT ![p] = new] /\ reviewing' = NoReview
      BY <1>1 DEF InstallDone
    <2>4. QED
      BY <2>1, <2>2, <2>3 DEF PluginsInv, NoReview
  <1>2. CASE ReloadDone
    <2>1. reviewing.id \in PluginIds /\ reviewing.code \in Packages /\ reviewing' = NoReview
      BY <1>2 DEF ReloadDone, PluginsInv
    <2>2. Candidate(reviewing.code) \in ReviewedRecords
      BY <2>1, FreshRecords
    <2>3. CASE Installed(reviewing.id)
      BY <1>2, <2>1, <2>2, <2>3, RecordChanges DEF ReloadDone
    <2>4. CASE ~Installed(reviewing.id)
      BY <1>2, <2>1, <2>4 DEF ReloadDone, PluginsInv, NoReview
    <2>5. QED
      BY <2>3, <2>4
  <1>3. CASE DiscoveryDone
    <2> DEFINE p == reviewing.id
               new == IF Installed(p) THEN Replacement(plugins[p], reviewing.code) ELSE Candidate(reviewing.code)
    <2>1. p \in PluginIds /\ reviewing.code \in Packages /\ plugins[p] \in ReviewedRecords
      BY <1>3 DEF DiscoveryDone, PluginsInv
    <2>2. new \in ReviewedRecords
      BY <2>1, FreshRecords
    <2>3. plugins' = [plugins EXCEPT ![p] = new] /\ reviewing' = NoReview
      BY <1>3 DEF DiscoveryDone
    <2>4. QED
      BY <2>1, <2>2, <2>3, RecordChanges
  <1>4. CASE ReviewFails
    BY <1>4 DEF ReviewFails, PluginsInv, NoReview
  <1>5. QED
    BY <1>1, <1>2, <1>3, <1>4

LEMMA PluginsInvStep == PluginsInv /\ [PluginsNext]_pluginVars => PluginsInv'
  <1> SUFFICES ASSUME PluginsInv, [PluginsNext]_pluginVars PROVE PluginsInv'
    OBVIOUS
  <1>1. CASE UNCHANGED <<plugins, reviewing>>
    BY <1>1 DEF PluginsInv
  <1>2. ASSUME NEW p \in PluginIds, RunHook(p) \/ \E kind \in {"contextual", "workbench"} : StartAction(p, kind)
        PROVE  UNCHANGED <<plugins, reviewing>>
    BY <1>2 DEF RunHook, StartAction
  <1>3. ASSUME StartPluginSend \/ HookFails \/ PluginSendDone \/ ContextualActionDone \/ WorkbenchActionDone
        PROVE  UNCHANGED <<plugins, reviewing>>
    BY <1>3 DEF StartPluginSend, HookFails, PluginSendDone, ContextualActionDone, WorkbenchActionDone
  <1>4. ASSUME NEW p \in PluginIds, SwitchPlugin(p) \/ RemovePlugin(p) PROVE PluginsInv'
    BY <1>4, PermissionsKeep DEF Permissions
  <1>5. QED
    BY <1>1, <1>2, <1>3, <1>4, PermissionsKeep, ReviewsStart, ReviewsEnd DEF PluginsNext, pluginVars

\* A result is applied by the contextual action only, which compares the
\* authority it began with.
LEMMA ResultsApplied ==
  ASSUME [PluginsNext]_pluginVars, acting.kind = "contextual", acting' = NoAction, pluginData' # pluginData
  PROVE  AuthorityKey(plugins[acting.id]) = AuthorityKey(acting.record)
  <1>1. ~UNCHANGED acting
    BY DEF NoAction
  <1>2. ASSUME NEW p \in PluginIds, NEW kind \in {"contextual", "workbench"} PROVE ~StartAction(p, kind)
    BY DEF StartAction, NoAction
  <1>3. ContextualActionDone \/ WorkbenchActionDone
    BY <1>1, <1>2 DEF PluginsNext, pluginVars, GrantPermission, RevokePermission, SwitchPlugin, RemovePlugin,
       StartInstall, StartReload, StartDiscovery, RunHook, InstallDone, ReloadDone, DiscoveryDone, ReviewFails,
       StartPluginSend, HookFails, PluginSendDone
  <1>4. ContextualActionDone
    BY <1>3 DEF WorkbenchActionDone
  <1>5. QED
    BY <1>4 DEF ContextualActionDone, SameAuthority

\* PluginWorkbench.tsx and plugins.ts, for any plugins and packages and any
\* order of reviews, grants, sends and actions: authority is for reviewed
\* code, and a contextual action's result for the authority it began with.
THEOREM AuthorityIsReviewed == PluginsSpec => PluginsSound
  <1>1. PluginsInit => PluginsInv
    BY FreshRecords DEF PluginsInit, PluginsInv, NoReview
  <1>2. PluginsInv => AuthorityReviewed
    BY DEF PluginsInv, AuthorityReviewed, ReviewedRecords
  <1>3. [PluginsNext]_pluginVars =>
          [acting.kind = "contextual" /\ acting' = NoAction /\ pluginData' # pluginData =>
             AuthorityKey(plugins[acting.id]) = AuthorityKey(acting.record)]_pluginVars
    BY ResultsApplied
  <1>4. QED
    BY <1>1, <1>2, <1>3, PluginsInvStep, PTL DEF PluginsSpec, PluginsSound, ResultsUnderAuthority
=============================================================================
