---------------------------- MODULE RequestTabs ----------------------------
(***************************************************************************)
(* The document tabs of a project (requestTabs.ts) and how App.tsx drives  *)
(* them: every handler computes the next tab state from the one of the     *)
(* last render, an effect then reconciles tabs with the documents of the   *)
(* workspace and follows its active request, and the settled state is kept *)
(* in local storage.  Effects are flushed before the next event.           *)
(***************************************************************************)
EXTENDS Naturals, Sequences, FiniteSets, SequencesExt

CONSTANTS
    TabRequests,    \* request documents
    TabOthers,      \* other documents; RunnerDocument is one, and always there
    RunnerDocument,
    MaxOpenTabs, MaxTabHistory, MaxClosedTabs   \* 100, 100 and 50 in the code

ASSUME TabsAssumption ==
    /\ TabRequests # {} /\ TabRequests \cap TabOthers = {} /\ RunnerDocument \in TabOthers
    /\ "" \notin TabRequests \cup TabOthers
    /\ MaxOpenTabs \in Nat /\ MaxTabHistory \in Nat /\ MaxClosedTabs \in Nat

VARIABLES
    tabState,     \* requestDocumentState.state
    documents,    \* workspaceDocumentReferences of the workspace
    shownRequest, \* workspace.activeRequestId
    unsaved       \* documents created since the last autosave

tabVars == <<tabState, documents, shownRequest, unsaved>>

Nothing == ""
NoTabs == [tabs |-> <<>>, active |-> Nothing, history |-> <<>>, closed |-> <<>>, dashboard |-> FALSE]

-----------------------------------------------------------------------------
(* Tab states.                                                             *)
TabIds(tabs) == {tabs[k].id : k \in DOMAIN tabs}
Newest(s, n) == SubSeq(s, 1, IF Len(s) < n THEN Len(s) ELSE n)
Latest(s, n) == SubSeq(s, IF Len(s) > n THEN Len(s) - n + 1 ELSE 1, Len(s))
(* What a filter keeps of s: the entries at these places, in their order.  *)
Part(s, places) ==
    [n \in 1 .. Cardinality(places) |-> s[CHOOSE k \in places : Cardinality({j \in places : j < k}) = n - 1]]
Drop(s, ids) == Part(s, {k \in DOMAIN s : s[k] \notin ids})
Keep(s, ids) == Part(s, {k \in DOMAIN s : s[k] \in ids})
FirstPlace(places) == IF places = {} THEN 0 ELSE CHOOSE k \in places : \A j \in places : k <= j
TabIndex(tabs, id) == FirstPlace({k \in DOMAIN tabs : tabs[k].id = id})
IdSeq(tabs) == [k \in DOMAIN tabs |-> tabs[k].id]
Permanent(tabs, id) == [k \in DOMAIN tabs |-> IF tabs[k].id = id THEN [tabs[k] EXCEPT !.temporary = FALSE] ELSE tabs[k]]

Activate(state, id) ==
    LET history == IF state.active \in TabIds(state.tabs)
                   THEN <<state.active>> \o Drop(state.history, {state.active, id})
                   ELSE Drop(state.history, {id})
    IN IF id \notin TabIds(state.tabs) THEN state
       ELSE [state EXCEPT !.active = id, !.closed = Drop(@, {id}), !.dashboard = FALSE,
                          !.history = IF state.active = id THEN @ ELSE Newest(history, MaxTabHistory)]

ReconcileKeepingClosed(state, valid, fallback) ==
    LET kept == Part(state.tabs, {k \in DOMAIN state.tabs : state.tabs[k].id \in valid})
        tabs == IF kept = <<>> /\ ~state.dashboard /\ fallback \in valid
                THEN <<[id |-> fallback, temporary |-> TRUE]>> ELSE kept
        active == CASE state.active \in TabIds(tabs) -> state.active
                    [] state.active \notin TabIds(tabs) /\ fallback \in TabIds(tabs) -> fallback
                    [] OTHER -> IF tabs = <<>> THEN Nothing ELSE tabs[1].id
    IN [tabs |-> tabs, active |-> active, history |-> Drop(Keep(state.history, TabIds(tabs)), {active}),
        closed |-> Keep(state.closed, valid), dashboard |-> state.dashboard /\ kept = <<>>]

(* Tabs of documents that are gone are closed, and an empty strip that is  *)
(* not the dashboard shows the fallback.                                   *)
Reconcile(state, valid, fallback) ==
    LET kept == Part(state.tabs, {k \in DOMAIN state.tabs : state.tabs[k].id \in valid})
        tabs == IF kept = <<>> /\ ~state.dashboard /\ fallback \in valid
                THEN <<[id |-> fallback, temporary |-> TRUE]>> ELSE kept
        active == CASE state.active \in TabIds(tabs) -> state.active
                    [] state.active \notin TabIds(tabs) /\ fallback \in TabIds(tabs) -> fallback
                    [] OTHER -> IF tabs = <<>> THEN Nothing ELSE tabs[1].id
    IN [tabs |-> tabs, active |-> active, history |-> Drop(Keep(state.history, TabIds(tabs)), {active}),
        closed |-> Drop(Keep(state.closed, valid), TabIds(tabs)), dashboard |-> state.dashboard /\ kept = <<>>]

(* A temporary tab is replaced; at the limit nothing is opened.            *)
OpenTab(state, id, permanent) ==
    LET slot == IF permanent THEN 0 ELSE FirstPlace({k \in DOMAIN state.tabs : state.tabs[k].temporary})
        opened(tabs, history) == Activate([state EXCEPT !.tabs = tabs, !.history = history], id)
    IN CASE id \in TabIds(state.tabs) -> Activate(IF permanent THEN [state EXCEPT !.tabs = Permanent(@, id)] ELSE state, id)
         [] id \notin TabIds(state.tabs) /\ slot > 0 ->
               opened([state.tabs EXCEPT ![slot] = [id |-> id, temporary |-> TRUE]], Drop(state.history, {state.tabs[slot].id}))
         [] id \notin TabIds(state.tabs) /\ slot = 0 /\ Len(state.tabs) < MaxOpenTabs ->
               opened(Append(state.tabs, [id |-> id, temporary |-> ~permanent]), state.history)
         [] OTHER -> state

Promote(state, id) == [state EXCEPT !.tabs = Permanent(@, id)]

NowClosed(state, ids) == Latest(Drop(state.closed, ToSet(ids)) \o ids, MaxClosedTabs)
Dashboard(state) ==
    [tabs |-> <<>>, active |-> Nothing, history |-> <<>>, closed |-> NowClosed(state, IdSeq(state.tabs)), dashboard |-> TRUE]

CloseTab(state, id) ==
    LET index == TabIndex(state.tabs, id)
        tabs == RemoveAt(state.tabs, index)
        history == Drop(Keep(state.history, TabIds(tabs)), {id})
        active == CASE state.active # id -> state.active
                    [] state.active = id /\ history # <<>> -> history[1]
                    [] OTHER -> tabs[IF index > 1 THEN index - 1 ELSE 1].id
    IN CASE index = 0 -> state
         [] index > 0 /\ Len(state.tabs) = 1 -> Dashboard(state)
         [] OTHER -> [tabs |-> tabs, active |-> active, history |-> Drop(history, {active}),
                      closed |-> NowClosed(state, <<id>>), dashboard |-> FALSE]

CloseAllTabs(state) == IF state.tabs = <<>> THEN state ELSE Dashboard(state)

CloseOtherTabs(state, id) ==
    IF id \notin TabIds(state.tabs) \/ Len(state.tabs) <= 1 THEN state
    ELSE [tabs |-> <<state.tabs[TabIndex(state.tabs, id)]>>, active |-> id, history |-> <<>>,
          closed |-> Latest(Drop(state.closed, TabIds(state.tabs)) \o Drop(IdSeq(state.tabs), {id}), MaxClosedTabs),
          dashboard |-> FALSE]

ReopenTab(state, valid) ==
    LET candidates == Drop(Keep(state.closed, valid), TabIds(state.tabs))
    IN IF candidates = <<>> THEN state
       ELSE OpenTab([state EXCEPT !.closed = Drop(@, {Last(candidates)})], Last(candidates), TRUE)

CycleTab(state, offset) ==
    LET n == Len(state.tabs)
        index == TabIndex(state.tabs, state.active)
    IN IF n < 2 THEN state
       ELSE Activate(state, state.tabs[(((IF index = 0 THEN 1 ELSE index) - 1 + offset + n) % n) + 1].id)

MoveTab(state, id, target, after) ==
    LET tabs == RemoveAt(state.tabs, TabIndex(state.tabs, id))
    IN IF id = target \/ ~({id, target} \subseteq TabIds(state.tabs)) THEN state
       ELSE [state EXCEPT !.tabs = InsertAt(tabs, TabIndex(tabs, target) + after, state.tabs[TabIndex(state.tabs, id)])]

-----------------------------------------------------------------------------
(* The effect: reconcile, and follow the active request of the workspace   *)
(* while a request tab is active.                                          *)
Follow(state) ==
    IF ~state.dashboard /\ state.active \notin TabOthers /\ shownRequest \in documents /\ state.active # shownRequest
    THEN OpenTab(state, shownRequest, FALSE) ELSE state
Effect(state) == Follow(Reconcile(state, documents, shownRequest))
TabsSettled == Effect(tabState) = tabState

Reconciled ==
    /\ ~TabsSettled /\ tabState' = Effect(tabState)
    /\ UNCHANGED <<documents, shownRequest, unsaved>>

(* applyRequestDocumentState, with the workspace of the last render.       *)
Shown(state) == IF state.active \in TabRequests THEN state.active ELSE shownRequest
Apply(state) == tabState' = state /\ shownRequest' = Shown(state)
Handler(state) == TabsSettled /\ Apply(state) /\ UNCHANGED <<documents, unsaved>>

OpenDocument(id, permanent) == id \in documents /\ Handler(OpenTab(tabState, id, permanent))
UpdateActiveRequest == Handler(Promote(tabState, shownRequest))
CloseDocument(id) == Handler(CloseTab(tabState, id))
CloseAllDocuments == Handler(CloseAllTabs(tabState))
CloseOtherDocuments(id) == Handler(CloseOtherTabs(tabState, id))
ReopenDocument == Handler(ReopenTab(tabState, documents))
CycleDocument(offset) == Handler(CycleTab(tabState, offset))
ReorderDocument(id, target, after) == Handler(MoveTab(tabState, id, target, after))

(* Opening a request from a Runner promotes the Runner's tab first; the    *)
(* state that is opened is again the one of the last render, and the       *)
(* second of the two assignments stays.                                    *)
OpenFromRunner(id) ==
    /\ tabState.active = RunnerDocument /\ id \in documents \cap TabRequests
    /\ Handler(OpenTab(tabState, id, FALSE))

(* addRequest makes the request active in the workspace whatever the tabs  *)
(* do; other documents are created the same way and then opened.           *)
AddDocument(id) ==
    /\ TabsSettled /\ id \notin documents /\ unsaved = {}
    /\ documents' = documents \cup {id} /\ unsaved' = {id}
    /\ tabState' = OpenTab(tabState, id, FALSE)
    /\ shownRequest' = IF id \in TabRequests THEN id ELSE Shown(tabState')

(* A copy of the active request is made active; its tab comes by the       *)
(* effect.                                                                 *)
DuplicateActiveRequest(id) ==
    /\ TabsSettled /\ shownRequest \in documents /\ id \in TabRequests \ documents /\ unsaved = {}
    /\ documents' = documents \cup {id} /\ unsaved' = {id} /\ shownRequest' = id
    /\ UNCHANGED tabState

(* The next request is shown, or a new blank one.                          *)
DeleteActiveRequest ==
    LET rest == (documents \cap TabRequests) \ {shownRequest} IN
    /\ TabsSettled /\ shownRequest \in documents
    /\ \E next \in IF rest # {} THEN rest ELSE TabRequests \ documents :
          documents' = (documents \ {shownRequest}) \cup {next} /\ shownRequest' = next
    /\ unsaved' = unsaved \cap documents'
    /\ UNCHANGED tabState

DeleteOther(id) ==
    /\ TabsSettled /\ id \in (documents \cap TabOthers) \ {RunnerDocument}
    /\ documents' = documents \ {id} /\ unsaved' = unsaved \ {id}
    /\ Apply(CloseTab(tabState, id))

(* A folder leaves without its tab being closed by the handler.            *)
DeleteFolderDocument(id) ==
    /\ TabsSettled /\ id \in (documents \cap TabOthers) \ {RunnerDocument}
    /\ documents' = documents \ {id} /\ unsaved' = unsaved \ {id}
    /\ UNCHANGED <<tabState, shownRequest>>

Saved == TabsSettled /\ unsaved # {} /\ unsaved' = {} /\ UNCHANGED <<tabState, documents, shownRequest>>

(* A restart reads the workspace as it was saved and the tabs as they were *)
(* last settled.                                                           *)
Restart ==
    LET found == documents \ unsaved
        request == IF shownRequest \in found THEN shownRequest ELSE CHOOSE r \in found \cap TabRequests : TRUE
        state == Reconcile(tabState, found, request)
    IN /\ TabsSettled /\ found \cap TabRequests # {}
       /\ documents' = found /\ unsaved' = {} /\ tabState' = state
       /\ shownRequest' = IF state.active \in TabRequests THEN state.active ELSE request

TabsInit ==
    /\ documents = {RunnerDocument, CHOOSE r \in TabRequests : TRUE}
    /\ shownRequest = CHOOSE r \in TabRequests : TRUE
    /\ tabState = Reconcile(NoTabs, documents, shownRequest) /\ unsaved = {}

TabsNext ==
    \/ Reconciled \/ UpdateActiveRequest \/ CloseAllDocuments \/ ReopenDocument \/ DeleteActiveRequest \/ Saved \/ Restart
    \/ \E offset \in {1, -1} : CycleDocument(offset)
    \/ \E id \in TabRequests \cup TabOthers :
          \/ CloseDocument(id) \/ CloseOtherDocuments(id) \/ AddDocument(id) \/ OpenFromRunner(id)
          \/ DuplicateActiveRequest(id) \/ DeleteOther(id) \/ DeleteFolderDocument(id)
          \/ \E permanent \in BOOLEAN : OpenDocument(id, permanent)
          \/ \E target \in TabRequests \cup TabOthers, after \in 0 .. 1 : ReorderDocument(id, target, after)

TabsSpec == TabsInit /\ [][TabsNext]_tabVars

-----------------------------------------------------------------------------
(* After every event the strip is one a user can work with: no document    *)
(* twice, at most one temporary tab, one active tab (none only on the      *)
(* dashboard), history and closed tabs that can still be reached, and the  *)
(* request in the editor is the active request tab, unless the strip is    *)
(* full (requestTabs.ts; App.tsx, the reconciling effect).                 *)
TabsSound ==
    LET ids == TabIds(tabState.tabs) IN
    TabsSettled =>
        /\ Cardinality(ids) = Len(tabState.tabs)
        /\ Cardinality({k \in DOMAIN tabState.tabs : tabState.tabs[k].temporary}) <= 1
        /\ ids \subseteq documents /\ (tabState.dashboard <=> ids = {})
        /\ IF ids = {} THEN tabState.active = Nothing ELSE tabState.active \in ids
        /\ ToSet(tabState.history) \subseteq ids \ {tabState.active} /\ ToSet(tabState.closed) \subseteq documents \ ids
        /\ tabState.active \in TabRequests /\ Len(tabState.tabs) < MaxOpenTabs => tabState.active = shownRequest

(* Opening a request from a Runner keeps the Runner's tab (App.tsx,        *)
(* onOpenRequest).                                                         *)
RunnerTabKept ==
    [][\A id \in TabRequests : OpenFromRunner(id) => RunnerDocument \in TabIds(tabState'.tabs)]_tabVars
=============================================================================
