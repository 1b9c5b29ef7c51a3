----------------------------- MODULE OAuthFlow -----------------------------
(***************************************************************************)
(* How a sender gets its OAuth 2 token: oauth2.ts, fetchOAuth2Token of     *)
(* http.ts, the authorization with its dialog in App.tsx, the stop of the  *)
(* project's runtime that takes the authorization along, and the native    *)
(* registry of flows (oauth2_callback.rs).                                 *)
(*                                                                         *)
(* One request with OAuth 2 authentication is sent by several senders that *)
(* share App.tsx's one slot and dialog: the editor, its scripts, plugin    *)
(* actions, streams, MCP clients.  (The runner, the unit tests and the     *)
(* authentication editor keep a slot and a dialog each.)  A sender works   *)
(* with the authentication it copied when it began.  A token is the number *)
(* of its issue, 0 if there is none.                                       *)
(***************************************************************************)
EXTENDS Naturals, FiniteSets, TLAPS

CONSTANTS
    Senders,     \* senders of the request; each runs once
    MaxTokens    \* bound: tokens issued

NoSender == "nobody"
ASSUME OAuthAssumptions == MaxTokens \in Nat /\ NoSender \notin Senders

VARIABLES
    grant,       \* oauth2GrantType of the request
    rotates,     \* the provider: a refresh token serves once and its answers bring the next
    auth,        \* the stored authentication: access and refresh token, expired or not, a code
    flow,        \* of each sender: where its acquisition is, and its copy
    flowSlot,    \* oauthFlowId.current
    dialog,      \* oauthAuthorization: whose authorization the dialog shows
    cancelling,  \* flows whose cancellation is on its way to the native side
    stopping,    \* stopWorkspaceRuntime has taken the slot and not yet closed the dialog
    honoured,    \* refresh tokens the provider accepts
    issuedTokens,      \* tokens issued so far
    overlapped,  \* history: an authorization began while another one was under way
    missed,      \* history: flows whose slot was taken before their dialog opened
    unstored     \* history: a token was exchanged and never stored

dialogVars == <<flowSlot, dialog, cancelling, stopping, overlapped, missed>>
tokenVars == <<grant, rotates, auth, honoured, issuedTokens, unstored>>
oauthVars == <<flow, dialogVars, tokenVars>>

Grants == {"authorization_code", "implicit", "client_credentials", "password"}
Interactive == {"authorization_code", "implicit"}
NoAuth == [access |-> 0, expired |-> FALSE, refresh |-> 0, code |-> FALSE]
OfBrowser == {"preparing", "browser", "exchanging"}

OAuthInit ==
    /\ grant \in Grants /\ rotates \in BOOLEAN
    /\ auth \in {NoAuth, [access |-> 0, expired |-> FALSE, refresh |-> 0, code |-> TRUE],
                [access |-> 1, expired |-> TRUE, refresh |-> 0, code |-> FALSE],
                [access |-> 1, expired |-> TRUE, refresh |-> 1, code |-> FALSE]}
    /\ flow = [s \in Senders |-> [pc |-> "idle", copy |-> NoAuth]]
    /\ flowSlot = NoSender /\ dialog = NoSender /\ cancelling = {} /\ stopping = FALSE
    /\ honoured = {auth.refresh} \ {0} /\ issuedTokens = auth.access
    /\ overlapped = FALSE /\ missed = {} /\ unstored = FALSE

TokenUsable(a) == a.access # 0 /\ ~a.expired         \* oauth2TokenIsUsable
FlowTo(s, pc) == flow' = [flow EXCEPT ![s].pc = pc]

(* tokenAuth with what the provider sends: a new access token and perhaps  *)
(* a new refresh token; without one the refresh token of the copy stays.   *)
(* The exchange of a rotated refresh token ends it.                        *)
IssueToken(s) ==
    /\ issuedTokens < MaxTokens /\ issuedTokens' = issuedTokens + 1
    /\ \E fresh \in BOOLEAN :
         /\ grant = "implicit" => ~fresh
         /\ rotates /\ grant # "implicit" /\ flow[s].copy.refresh # 0 => fresh
         /\ flow' = [flow EXCEPT ![s] =
               [pc |-> "persisting",
                copy |-> [access |-> issuedTokens + 1, expired |-> FALSE, code |-> FALSE,
                          refresh |-> IF fresh THEN issuedTokens + 1 ELSE flow[s].copy.refresh]]]
         /\ honoured' = (IF rotates /\ flow[s].pc = "refreshing" THEN honoured \ {flow[s].copy.refresh} ELSE honoured)
                         \cup (IF fresh THEN {issuedTokens + 1} ELSE {})
    /\ UNCHANGED <<grant, rotates, auth, unstored>>

-----------------------------------------------------------------------------
(* acquireOAuth2TokenWithoutBrowser                                        *)

NeedsBrowser(a) ==
    \/ grant = "implicit"
    \/ grant = "authorization_code" /\ (a.access # 0 \/ ~a.code)

AfterCopy(a) ==
    CASE TokenUsable(a) -> "ready"
      [] ~TokenUsable(a) /\ a.refresh # 0 -> "refreshing"
      [] ~TokenUsable(a) /\ a.refresh = 0 /\ NeedsBrowser(a) -> "authorize"
      [] OTHER -> "fetching"

Acquire(s) ==
    /\ flow[s].pc = "idle"
    /\ flow' = [flow EXCEPT ![s] = [pc |-> AfterCopy(auth), copy |-> auth]]
    /\ UNCHANGED <<dialogVars, tokenVars>>

Refreshed(s) ==
    /\ flow[s].pc = "refreshing" /\ flow[s].copy.refresh \in honoured
    /\ IssueToken(s)
    /\ UNCHANGED dialogVars

(* invalid_grant, or a 401 for whatever reason: the browser, or the        *)
(* grant's own exchange without the tokens that were refused.              *)
RefreshRejected(s) ==
    /\ flow[s].pc = "refreshing"
    /\ flow' = [flow EXCEPT ![s] = IF grant \in Interactive THEN [@ EXCEPT !.pc = "authorize"]
                                   ELSE [pc |-> "fetching", copy |-> NoAuth]]
    /\ UNCHANGED <<dialogVars, tokenVars>>

(* client_credentials, password, and a code that is stored already         *)
Fetched(s) ==
    /\ flow[s].pc = "fetching"
    /\ IssueToken(s)
    /\ UNCHANGED dialogVars

(* The token endpoint fails, or its answer is lost after the exchange.     *)
TokenRequestFails(s) ==
    /\ flow[s].pc \in {"refreshing", "fetching"}
    /\ \E lost \in BOOLEAN : /\ honoured' = IF lost THEN honoured \ {flow[s].copy.refresh} ELSE honoured
                             /\ unstored' = (unstored \/ lost)
    /\ FlowTo(s, "failed")
    /\ UNCHANGED <<dialogVars, grant, rotates, auth, issuedTokens>>

-----------------------------------------------------------------------------
(* authorizeOAuth2WithStatus                                               *)

Authorize(s) ==
    /\ flow[s].pc = "authorize"
    /\ FlowTo(s, "preparing")
    /\ flowSlot' = s
    /\ overlapped' = (overlapped \/ \E t \in Senders : flow[t].pc \in OfBrowser)
    /\ UNCHANGED <<tokenVars, dialog, cancelling, stopping, missed>>

(* The URL is prepared: the dialog opens for this flow, whatever the slot  *)
(* holds by then.                                                          *)
Prepared(s) ==
    /\ flow[s].pc = "preparing"
    /\ FlowTo(s, "browser")
    /\ dialog' = s
    /\ UNCHANGED <<tokenVars, flowSlot, cancelling, stopping, overlapped, missed>>

(* A preparation that fails leaves its id in the slot.                     *)
PrepareFails(s) ==
    /\ flow[s].pc = "preparing"
    /\ FlowTo(s, "failed")
    /\ UNCHANGED <<dialogVars, tokenVars>>

(* "ready" from the native side updates the dialog of the newest flow.     *)
Ready(s) ==
    /\ flow[s].pc = "browser" /\ flowSlot = s /\ dialog # s
    /\ dialog' = s
    /\ UNCHANGED <<flow, tokenVars, flowSlot, cancelling, stopping, overlapped, missed>>

\* The slot is given back, and the dialog left open.
CloseDialogNever(s) ==
    /\ flowSlot' = IF flowSlot = s THEN NoSender ELSE flowSlot
    /\ UNCHANGED <<dialog, cancelling, stopping, overlapped, missed>>

(* finally: only the newest flow clears the slot and closes the dialog.    *)
CloseDialog(s) ==
    /\ flowSlot' = IF flowSlot = s THEN NoSender ELSE flowSlot
    /\ dialog' = IF flowSlot = s THEN NoSender ELSE dialog
    /\ UNCHANGED <<cancelling, stopping, overlapped, missed>>

(* The callback with a code is exchanged; an implicit one has the token.   *)
CallbackWithCode(s) ==
    /\ flow[s].pc = "browser" /\ grant = "authorization_code"
    /\ FlowTo(s, "exchanging")
    /\ UNCHANGED <<dialogVars, tokenVars>>

Authorized(s) ==
    /\ flow[s].pc = IF grant = "implicit" THEN "browser" ELSE "exchanging"
    /\ IssueToken(s)
    /\ CloseDialog(s)

(* Refused, wrong state, closed window, ten minutes over, exchange failed. *)
AuthorizationFails(s) ==
    /\ flow[s].pc \in {"browser", "exchanging"}
    /\ FlowTo(s, "failed")
    /\ CloseDialog(s)
    /\ UNCHANGED tokenVars

-----------------------------------------------------------------------------
(* Ending an authorization                                                 *)

\* The slot is emptied, and its flow told to cancel.
TakeSlot ==
    /\ flowSlot' = NoSender
    /\ cancelling' = cancelling \cup ({flowSlot} \cap Senders)
    /\ missed' = missed \cup {s \in Senders : flowSlot = s /\ flow[s].pc = "preparing"}

(* cancelActiveOAuthAuthorization, the button of the dialog: nothing       *)
(* without a flow in the slot.                                             *)
CancelAuthorization ==
    /\ dialog # NoSender /\ flowSlot # NoSender
    /\ TakeSlot
    /\ dialog' = NoSender
    /\ UNCHANGED <<flow, tokenVars, stopping, overlapped>>

(* stopWorkspaceRuntime, in an operation on projects: the slot is taken at *)
(* once, the dialog closed only after the cancellation was awaited; other  *)
(* senders go on meanwhile.  (The editor's own send holds the operation    *)
(* off; any of the senders may be one of the others.)                      *)
StopRuntime ==
    /\ ~stopping /\ stopping' = TRUE
    /\ TakeSlot
    /\ UNCHANGED <<flow, tokenVars, dialog, overlapped>>

\* The stop waits for a cancellation from the button too, if one is on its way.
RuntimeStopped ==
    /\ stopping /\ cancelling = {}
    /\ stopping' = FALSE /\ dialog' = NoSender
    /\ UNCHANGED <<flow, tokenVars, flowSlot, cancelling, overlapped, missed>>

(* oauth2_cancel: the native side ends a flow it has registered and that   *)
(* still waits for its callback; finally runs, and the slot is another's.  *)
CancelReaches(s) ==
    /\ s \in cancelling /\ cancelling' = cancelling \ {s}
    /\ \/ UNCHANGED flow
       \/ flow[s].pc = "browser" /\ FlowTo(s, "failed")
    /\ UNCHANGED <<tokenVars, flowSlot, dialog, stopping, overlapped, missed>>

-----------------------------------------------------------------------------
(* persistOAuth2Auth: the sender's authentication becomes the stored one;  *)
(* a script's or a plugin's own send stores none, and after a change of    *)
(* the project the request is not found.                                   *)
PersistToken(s) ==
    /\ flow[s].pc = "persisting"
    /\ \/ auth' = flow[s].copy /\ UNCHANGED unstored
       \/ unstored' = TRUE /\ UNCHANGED auth
    /\ FlowTo(s, "ready")
    /\ UNCHANGED <<dialogVars, grant, rotates, honoured, issuedTokens>>

Expires ==
    /\ auth.access # 0 /\ ~auth.expired
    /\ auth' = [auth EXCEPT !.expired = TRUE]
    /\ UNCHANGED <<flow, dialogVars, grant, rotates, honoured, issuedTokens, unstored>>

OAuthNext ==
    \/ CancelAuthorization \/ StopRuntime \/ RuntimeStopped \/ Expires
    \/ \E s \in Senders :
         \/ Acquire(s) \/ Refreshed(s) \/ RefreshRejected(s) \/ Fetched(s) \/ TokenRequestFails(s)
         \/ Authorize(s) \/ Prepared(s) \/ PrepareFails(s) \/ Ready(s) \/ CallbackWithCode(s)
         \/ Authorized(s) \/ AuthorizationFails(s) \/ CancelReaches(s) \/ PersistToken(s)

OAuthSpec == OAuthInit /\ [][OAuthNext]_oauthVars

-----------------------------------------------------------------------------
(* The authorization dialog shows a flow that is still under way and that  *)
(* its Cancel button would cancel.  It can be left over, or cancel another *)
(* flow, only after two authorizations overlapped, while the runtime is    *)
(* being stopped, or for a flow whose slot was taken before it could open  *)
(* its dialog.                                                             *)
DialogMatches ==
    dialog # NoSender /\ ~overlapped =>
      \/ dialog = flowSlot /\ flow[dialog].pc \in {"browser", "exchanging"}
      \/ stopping
      \/ dialog \in missed

(* Of a provider that rotates refresh tokens, the stored one is always the *)
(* one it honours, whichever senders refreshed and stored in which order:  *)
(* it is spent only while a sender has yet to store its successor, or      *)
(* after an exchanged token was never stored at all.  (The implicit grant  *)
(* has no refresh tokens of its own.)                                      *)
RefreshKept ==
    rotates /\ grant # "implicit" /\ ~unstored =>
      \/ auth.refresh \in honoured \cup {0}
      \/ \E s \in Senders : flow[s].pc = "persisting"

(* The dialog and the stored token, together (App.tsx, the OAuth 2 flow;   *)
(* oauth2.ts).                                                             *)
OAuthSound == DialogMatches /\ RefreshKept
-----------------------------------------------------------------------------
(* Proof of OAuthSound, for any senders and number of tokens.  Tokens are  *)
(* numbered by issue, so a new refresh token is none a sender copied: what *)
(* a sender has yet to store is its own and is honoured.  And before two   *)
(* authorizations overlap, at most one is under way.                       *)

Auths == [access : Nat, expired : BOOLEAN, refresh : Nat, code : BOOLEAN]
FlowSteps == {"idle", "refreshing", "fetching", "authorize", "persisting", "ready", "failed"} \cup OfBrowser
Flows == [pc : FlowSteps, copy : Auths]

OAuthTypeOK ==
    /\ grant \in Grants /\ rotates \in BOOLEAN /\ auth \in Auths /\ flow \in [Senders -> Flows]
    /\ flowSlot \in Senders \cup {NoSender} /\ dialog \in Senders \cup {NoSender}
    /\ cancelling \subseteq Senders /\ stopping \in BOOLEAN
    /\ issuedTokens \in Nat /\ overlapped \in BOOLEAN /\ missed \subseteq Senders /\ unstored \in BOOLEAN

CopiesKnown ==
    /\ honoured \subseteq 1..issuedTokens /\ auth.refresh <= issuedTokens
    /\ \A s \in Senders : flow[s].copy.refresh <= issuedTokens

Unshared(s) ==
    LET r == flow[s].copy.refresh
    IN r # 0 => /\ r \in honoured /\ auth.refresh # r
                /\ \A t \in Senders \ {s} : flow[t].copy.refresh # r
OwnUntilStored ==
    rotates /\ grant # "implicit" => \A s \in Senders : flow[s].pc = "persisting" => Unshared(s)

TokensFit == CopiesKnown /\ OwnUntilStored /\ RefreshKept

OneAuthorization ==
    ~overlapped =>
      /\ \A s, t \in Senders : flow[s].pc \in OfBrowser /\ flow[t].pc \in OfBrowser => s = t
      /\ \A s \in Senders : flow[s].pc = "preparing" => flowSlot = s \/ s \in missed

\* An authorization that began does not begin again: a slot once taken from
\* it stays another's.
Begun == OfBrowser \cup {"failed", "persisting", "ready"}
SlotsFit ==
    /\ \A s \in Senders : flowSlot = s \/ s \in cancelling => flow[s].pc \in Begun
    /\ flowSlot \notin cancelling

DialogFits == OneAuthorization /\ SlotsFit /\ DialogMatches

OAuthInv == OAuthTypeOK /\ TokensFit /\ DialogFits

LEMMA FlowChanges ==
  ASSUME OAuthTypeOK, NEW s \in Senders, NEW f \in Flows, flow' = [flow EXCEPT ![s] = f]
  PROVE  flow' \in [Senders -> Flows] /\ flow'[s] = f /\ \A t \in Senders \ {s} : flow'[t] = flow[t]
  BY DEF OAuthTypeOK

LEMMA StepChanges ==
  ASSUME OAuthTypeOK, NEW s \in Senders, NEW pc \in FlowSteps, FlowTo(s, pc)
  PROVE  /\ flow' \in [Senders -> Flows] /\ flow'[s].pc = pc /\ flow'[s].copy = flow[s].copy
         /\ \A t \in Senders \ {s} : flow'[t] = flow[t]
  <1> DEFINE f == [flow[s] EXCEPT !.pc = pc]
  <1>1. f \in Flows /\ f.pc = pc /\ f.copy = flow[s].copy /\ flow' = [flow EXCEPT ![s] = f]
    BY DEF OAuthTypeOK, FlowTo, Flows
  <1> HIDE DEF f
  <1>2. QED
    BY <1>1, FlowChanges

\* A sender steps without a new token; the token it copied may be lost.
LEMMA TokensStay ==
  ASSUME OAuthInv, NEW s \in Senders, flow' \in [Senders -> Flows], \A t \in Senders \ {s} : flow'[t] = flow[t],
         flow[s].pc # "persisting", flow'[s].pc # "persisting",
         flow'[s].copy.refresh \in {0, flow[s].copy.refresh, auth.refresh},
         \/ UNCHANGED <<honoured, unstored>>
         \/ unstored' /\ honoured' = honoured \ {flow[s].copy.refresh},
         UNCHANGED <<grant, rotates, auth, issuedTokens>>
  PROVE  TokensFit'
  <1>1. CopiesKnown'
    <2>1. /\ honoured \subseteq 1..issuedTokens /\ auth.refresh <= issuedTokens /\ issuedTokens \in Nat
          /\ \A t \in Senders : flow[t].copy.refresh <= issuedTokens
      BY DEF OAuthInv, OAuthTypeOK, TokensFit, CopiesKnown
    <2>2. honoured' \subseteq honoured
      OBVIOUS
    <2>3. flow'[s].copy.refresh <= issuedTokens
      BY <2>1
    <2>4. QED
      BY <2>1, <2>2, <2>3 DEF CopiesKnown
  <1>2. OwnUntilStored'
    <2> SUFFICES ASSUME rotates, grant # "implicit", NEW t \in Senders, flow'[t].pc = "persisting"
                 PROVE  Unshared(t)'
      BY DEF OwnUntilStored
    <2>1. t # s /\ flow'[t] = flow[t] /\ Unshared(t)
      BY DEF OAuthInv, TokensFit, OwnUntilStored
    <2>2. QED
      BY <2>1 DEF Unshared
  <1>3. RefreshKept'
    BY DEF OAuthInv, OAuthTypeOK, TokensFit, RefreshKept
  <1>4. QED
    BY <1>1, <1>2, <1>3 DEF TokensFit

\* The dialog's part of a step that leaves the tokens alone.
LEMMA DialogStepKeepsTokens ==
  ASSUME OAuthInv, NEW s \in Senders, NEW pc \in FlowSteps, FlowTo(s, pc), pc # "persisting",
         flow[s].pc # "persisting", UNCHANGED tokenVars
  PROVE  TokensFit' /\ flow' \in [Senders -> Flows]
  <1>1. /\ flow' \in [Senders -> Flows] /\ flow'[s].pc = pc /\ flow'[s].copy = flow[s].copy
        /\ \A t \in Senders \ {s} : flow'[t] = flow[t]
    BY StepChanges DEF OAuthInv
  <1>2. QED
    BY <1>1, TokensStay DEF tokenVars

LEMMA TokenIssued ==
  ASSUME OAuthInv, NEW s \in Senders, IssueToken(s), flow[s].pc # "persisting"
  PROVE  /\ flow' \in [Senders -> Flows] /\ flow'[s].pc = "persisting" /\ \A t \in Senders \ {s} : flow'[t] = flow[t]
         /\ issuedTokens' \in Nat /\ TokensFit'
  <1> DEFINE new(fresh) == [access |-> issuedTokens + 1, expired |-> FALSE, code |-> FALSE,
                            refresh |-> IF fresh THEN issuedTokens + 1 ELSE flow[s].copy.refresh]
             f(fresh) == [pc |-> "persisting", copy |-> new(fresh)]
  <1>1. PICK fresh \in BOOLEAN :
          /\ rotates /\ grant # "implicit" /\ flow[s].copy.refresh # 0 => fresh
          /\ flow' = [flow EXCEPT ![s] = f(fresh)]
          /\ honoured' = (IF rotates /\ flow[s].pc = "refreshing" THEN honoured \ {flow[s].copy.refresh} ELSE honoured)
                         \cup (IF fresh THEN {issuedTokens + 1} ELSE {})
    BY DEF IssueToken
  <1>2. issuedTokens \in Nat /\ issuedTokens' = issuedTokens + 1 /\ UNCHANGED <<grant, rotates, auth, unstored>>
    BY DEF IssueToken, OAuthInv, OAuthTypeOK
  <1>3. flow[s].copy.refresh \in Nat /\ flow[s].copy.refresh <= issuedTokens /\ auth.refresh \in Nat
    BY DEF OAuthInv, OAuthTypeOK, TokensFit, CopiesKnown, Flows, Auths
  <1>4. f(fresh) \in Flows /\ f(fresh).pc = "persisting"
        /\ f(fresh).copy.refresh = IF fresh THEN issuedTokens + 1 ELSE flow[s].copy.refresh
    BY <1>2, <1>3 DEF Flows, FlowSteps, Auths
  <1> HIDE DEF f
  <1>5. flow' \in [Senders -> Flows] /\ flow'[s] = f(fresh) /\ \A t \in Senders \ {s} : flow'[t] = flow[t]
    BY <1>1, <1>4, FlowChanges DEF OAuthInv
  <1>6. \A t \in Senders \ {s} : flow[t].copy.refresh \in Nat /\ flow[t].copy.refresh <= issuedTokens
    BY DEF OAuthInv, OAuthTypeOK, TokensFit, CopiesKnown, Flows, Auths
  <1>7. CopiesKnown'
    <2>1. honoured' \subseteq 1..issuedTokens' /\ auth'.refresh <= issuedTokens'
      <3>1. honoured \subseteq 1..issuedTokens /\ auth.refresh <= issuedTokens
        BY DEF OAuthInv, TokensFit, CopiesKnown
      <3>2. honoured' \subseteq honoured \cup {issuedTokens + 1}
        BY <1>1
      <3>3. QED
        BY <1>2, <1>3, <3>1, <3>2
    <2>2. \A t \in Senders : flow'[t].copy.refresh <= issuedTokens'
      BY <1>2, <1>3, <1>4, <1>5, <1>6
    <2>3. QED
      BY <2>1, <2>2 DEF CopiesKnown
  <1>8. OwnUntilStored'
    <2> SUFFICES ASSUME rotates, grant # "implicit", NEW t \in Senders, flow'[t].pc = "persisting"
                 PROVE  Unshared(t)'
      BY <1>2 DEF OwnUntilStored
    <2>1. CASE t = s
      <3>1. CASE fresh
        <4>1. issuedTokens + 1 \in honoured' /\ auth'.refresh # issuedTokens + 1
          BY <1>1, <1>2, <1>3, <3>1 DEF OAuthInv, TokensFit, CopiesKnown
        <4>2. flow'[s].copy.refresh = issuedTokens + 1
          BY <1>4, <1>5, <3>1
        <4>3. \A u \in Senders \ {s} : flow'[u].copy.refresh # issuedTokens + 1
          BY <1>2, <1>5, <1>6
        <4>4. QED
          BY <2>1, <4>1, <4>2, <4>3 DEF Unshared
      <3>2. CASE ~fresh
        BY <1>1, <1>4, <1>5, <2>1, <3>2 DEF Unshared
      <3>3. QED
        BY <3>1, <3>2
    <2>2. CASE t # s
      <3>1. flow'[t] = flow[t] /\ Unshared(t)
        BY <1>5, <2>2 DEF OAuthInv, TokensFit, OwnUntilStored
      <3>2. flow[t].copy.refresh # 0 => flow[t].copy.refresh \in honoured'
        BY <1>1, <2>2, <3>1 DEF Unshared
      <3>3. flow[t].copy.refresh # 0 => flow'[s].copy.refresh # flow[t].copy.refresh
        BY <1>2, <1>4, <1>5, <1>6, <2>2, <3>1 DEF Unshared
      <3>4. QED
        BY <1>2, <1>5, <2>2, <3>1, <3>2, <3>3 DEF Unshared
    <2>3. QED
      BY <2>1, <2>2
  <1>9. RefreshKept'
    BY <1>4, <1>5 DEF RefreshKept
  <1>10. QED
    BY <1>2, <1>4, <1>5, <1>7, <1>8, <1>9 DEF TokensFit

\* Steps that leave the dialog alone, and begin no authorization.
LEMMA DialogStays ==
  ASSUME OAuthInv, NEW s \in Senders, flow' \in [Senders -> Flows], \A t \in Senders \ {s} : flow'[t] = flow[t],
         \/ flow[s].pc \notin OfBrowser /\ flow'[s].pc \notin OfBrowser
         \/ flow[s].pc = "preparing" /\ flow'[s].pc \notin OfBrowser
         \/ flow[s].pc = "browser" /\ flow'[s].pc = "exchanging",
         flow[s].pc \in Begun => flow'[s].pc \in Begun,
         UNCHANGED dialogVars
  PROVE  DialogFits'
  BY DEF OAuthInv, OAuthTypeOK, DialogFits, OneAuthorization, SlotsFit, Begun, DialogMatches, OfBrowser, dialogVars

\* The flow is over, and its own dialog is closed.
LEMMA DialogCloses ==
  ASSUME OAuthInv, NEW s \in Senders, flow' \in [Senders -> Flows], \A t \in Senders \ {s} : flow'[t] = flow[t],
         flow'[s].pc \in {"failed", "persisting"}, CloseDialog(s), flow[s].pc \in {"browser", "exchanging"}
  PROVE  DialogFits'
  <1>1. OneAuthorization'
    BY DEF OAuthInv, OAuthTypeOK, DialogFits, OneAuthorization, OfBrowser, CloseDialog
  <1>2. SlotsFit'
    BY OAuthAssumptions DEF OAuthInv, OAuthTypeOK, DialogFits, SlotsFit, Begun, CloseDialog
  <1>3. DialogMatches'
    BY DEF OAuthInv, OAuthTypeOK, DialogFits, OneAuthorization, DialogMatches, OfBrowser, CloseDialog
  <1>4. QED
    BY <1>1, <1>2, <1>3 DEF DialogFits

LEMMA WithoutBrowser ==
  ASSUME OAuthInv, NEW s \in Senders,
         Acquire(s) \/ Refreshed(s) \/ RefreshRejected(s) \/ Fetched(s) \/ TokenRequestFails(s)
  PROVE  OAuthInv'
  <1>1. flow[s] \in Flows /\ flow[s].copy \in Auths /\ auth \in Auths
    BY DEF OAuthInv, OAuthTypeOK, Flows
  <1>2. ASSUME NEW f \in Flows, flow' = [flow EXCEPT ![s] = f], flow[s].pc \notin Begun,
               f.pc \notin {"persisting"} \cup OfBrowser, f.copy.refresh \in {0, flow[s].copy.refresh, auth.refresh},
               UNCHANGED <<dialogVars, tokenVars>>
        PROVE  OAuthInv'
    <2>1. flow' \in [Senders -> Flows] /\ flow'[s] = f /\ \A t \in Senders \ {s} : flow'[t] = flow[t]
      BY <1>2, FlowChanges DEF OAuthInv
    <2>2. TokensFit'
      BY <1>2, <2>1, TokensStay DEF tokenVars, Begun
    <2>3. DialogFits'
      BY <1>2, <2>1, DialogStays DEF Begun
    <2>4. QED
      BY <1>2, <2>1, <2>2, <2>3 DEF OAuthInv, OAuthTypeOK, dialogVars, tokenVars
  <1>3. CASE Acquire(s)
    <2> DEFINE f == [pc |-> AfterCopy(auth), copy |-> auth]
    <2>1. AfterCopy(auth) \in {"ready", "refreshing", "authorize", "fetching"}
      BY DEF AfterCopy
    <2>2. f \in Flows /\ f.pc \notin {"persisting"} \cup OfBrowser /\ f.copy = auth
      BY <1>1, <2>1 DEF Flows, FlowSteps, OfBrowser
    <2>3. flow' = [flow EXCEPT ![s] = f] /\ flow[s].pc \notin Begun /\ UNCHANGED <<dialogVars, tokenVars>>
      BY <1>3 DEF Acquire, OfBrowser, Begun
    <2> HIDE DEF f
    <2>4. QED
      BY <1>2, <2>2, <2>3
  <1>4. CASE RefreshRejected(s)
    <2> DEFINE f == IF grant \in Interactive THEN [flow[s] EXCEPT !.pc = "authorize"] ELSE [pc |-> "fetching", copy |-> NoAuth]
    <2>1. f \in Flows /\ f.pc \in {"authorize", "fetching"} /\ f.copy.refresh \in {0, flow[s].copy.refresh}
      BY <1>1 DEF Flows, FlowSteps, Auths, NoAuth
    <2>2. flow' = [flow EXCEPT ![s] = f] /\ flow[s].pc \notin Begun /\ UNCHANGED <<dialogVars, tokenVars>>
      BY <1>4 DEF RefreshRejected, OfBrowser, Begun
    <2> HIDE DEF f
    <2>3. f.pc \notin {"persisting"} \cup OfBrowser
      BY <2>1 DEF OfBrowser
    <2>4. QED
      BY <1>2, <2>1, <2>2, <2>3
  <1>5. CASE Refreshed(s) \/ Fetched(s)
    <2>1. IssueToken(s) /\ UNCHANGED dialogVars /\ flow[s].pc \notin Begun
      BY <1>5 DEF Refreshed, Fetched, OfBrowser, Begun
    <2>2. DialogFits'
      BY <2>1, TokenIssued, DialogStays DEF OfBrowser, Begun
    <2>3. UNCHANGED <<grant, rotates, auth, unstored>>
      BY <2>1 DEF IssueToken
    <2>4. QED
      BY <2>1, <2>2, <2>3, TokenIssued DEF OAuthInv, OAuthTypeOK, dialogVars, Begun
  <1>6. CASE TokenRequestFails(s)
    <2>1. /\ FlowTo(s, "failed") /\ UNCHANGED <<dialogVars, grant, rotates, auth, issuedTokens>>
          /\ flow[s].pc \in {"refreshing", "fetching"}
      BY <1>6 DEF TokenRequestFails
    <2>2. PICK lost \in BOOLEAN : /\ honoured' = IF lost THEN honoured \ {flow[s].copy.refresh} ELSE honoured
                                  /\ unstored' = (unstored \/ lost)
      BY <1>6 DEF TokenRequestFails
    <2>3. /\ flow' \in [Senders -> Flows] /\ flow'[s].pc = "failed" /\ flow'[s].copy = flow[s].copy
          /\ \A t \in Senders \ {s} : flow'[t] = flow[t]
      BY <2>1, StepChanges DEF FlowSteps, OAuthInv
    <2>4. unstored \in BOOLEAN
      BY DEF OAuthInv, OAuthTypeOK
    <2>5. \/ UNCHANGED <<honoured, unstored>>
          \/ unstored' /\ honoured' = honoured \ {flow[s].copy.refresh}
      BY <2>2, <2>4
    <2>6. TokensFit'
      BY <2>1, <2>3, <2>5, TokensStay
    <2>7. DialogFits'
      BY <2>1, <2>3, DialogStays DEF OfBrowser, Begun
    <2>8. QED
      BY <2>1, <2>2, <2>3, <2>4, <2>6, <2>7 DEF OAuthInv, OAuthTypeOK, dialogVars
  <1>7. QED
    BY <1>3, <1>4, <1>5, <1>6

LEMMA WithBrowser ==
  ASSUME OAuthInv, NEW s \in Senders,
         Authorize(s) \/ Prepared(s) \/ PrepareFails(s) \/ Ready(s) \/ CallbackWithCode(s) \/ Authorized(s) \/ AuthorizationFails(s)
  PROVE  OAuthInv'
  <1>1. CASE Authorize(s)
    <2>1. /\ FlowTo(s, "preparing") /\ flow[s].pc = "authorize" /\ flowSlot' = s
          /\ overlapped' = (overlapped \/ \E t \in Senders : flow[t].pc \in OfBrowser)
          /\ UNCHANGED <<tokenVars, dialog, cancelling, stopping, missed>>
      BY <1>1 DEF Authorize
    <2>2. TokensFit' /\ flow'[s].pc = "preparing" /\ flow' \in [Senders -> Flows] /\ \A t \in Senders \ {s} : flow'[t] = flow[t]
      BY <2>1, DialogStepKeepsTokens, StepChanges DEF FlowSteps, OfBrowser, OAuthInv
    <2>3. ~overlapped' => ~overlapped /\ \A t \in Senders : flow[t].pc \notin OfBrowser
      BY <2>1 DEF OAuthInv, OAuthTypeOK
    <2>4. DialogFits'
      BY <2>1, <2>2, <2>3 DEF OAuthInv, OAuthTypeOK, DialogFits, OneAuthorization, SlotsFit, Begun, DialogMatches, OfBrowser
    <2>5. QED
      BY <2>1, <2>2, <2>4 DEF OAuthInv, OAuthTypeOK, tokenVars
  <1>2. CASE Prepared(s)
    <2>1. /\ FlowTo(s, "browser") /\ flow[s].pc = "preparing" /\ dialog' = s
          /\ UNCHANGED <<tokenVars, flowSlot, cancelling, stopping, overlapped, missed>>
      BY <1>2 DEF Prepared
    <2>2. TokensFit' /\ flow'[s].pc = "browser" /\ flow' \in [Senders -> Flows] /\ \A t \in Senders \ {s} : flow'[t] = flow[t]
      BY <2>1, DialogStepKeepsTokens, StepChanges DEF FlowSteps, OfBrowser, OAuthInv
    <2>3. DialogFits'
      BY <2>1, <2>2 DEF OAuthInv, DialogFits, OneAuthorization, SlotsFit, Begun, DialogMatches, OfBrowser
    <2>4. QED
      BY <2>1, <2>2, <2>3 DEF OAuthInv, OAuthTypeOK, tokenVars
  <1>3. ASSUME NEW pc \in {"failed", "exchanging"}, FlowTo(s, pc), UNCHANGED <<dialogVars, tokenVars>>,
               flow[s].pc = IF pc = "failed" THEN "preparing" ELSE "browser"
        PROVE  OAuthInv'
    <2>1. TokensFit' /\ flow'[s].pc = pc /\ flow' \in [Senders -> Flows] /\ \A t \in Senders \ {s} : flow'[t] = flow[t]
      BY <1>3, DialogStepKeepsTokens, StepChanges DEF FlowSteps, OfBrowser, OAuthInv
    <2>2. DialogFits'
      BY <1>3, <2>1, DialogStays DEF OfBrowser, Begun
    <2>3. QED
      BY <1>3, <2>1, <2>2 DEF OAuthInv, OAuthTypeOK, tokenVars, dialogVars
  <1>4. CASE Ready(s)
    <2>1. /\ flow[s].pc = "browser" /\ flowSlot = s /\ dialog' = s
          /\ UNCHANGED <<flow, tokenVars, flowSlot, cancelling, stopping, overlapped, missed>>
      BY <1>4 DEF Ready
    <2>2. TokensFit'
      BY <2>1 DEF OAuthInv, TokensFit, CopiesKnown, OwnUntilStored, Unshared, RefreshKept, tokenVars
    <2>3. DialogFits'
      BY <2>1 DEF OAuthInv, DialogFits, OneAuthorization, SlotsFit, Begun, DialogMatches
    <2>4. QED
      BY <2>1, <2>2, <2>3 DEF OAuthInv, OAuthTypeOK, tokenVars
  <1>5. CASE Authorized(s)
    <2>1. IssueToken(s) /\ CloseDialog(s) /\ flow[s].pc \in {"browser", "exchanging"} /\ UNCHANGED <<grant, rotates, auth, unstored>>
      BY <1>5 DEF Authorized, IssueToken
    <2>2. DialogFits'
      BY <2>1, TokenIssued, DialogCloses
    <2>3. QED
      BY <2>1, <2>2, TokenIssued DEF OAuthInv, OAuthTypeOK, CloseDialog
  <1>6. CASE AuthorizationFails(s)
    <2>1. FlowTo(s, "failed") /\ flow[s].pc \in {"browser", "exchanging"} /\ CloseDialog(s) /\ UNCHANGED tokenVars
      BY <1>6 DEF AuthorizationFails
    <2>2. TokensFit' /\ flow'[s].pc = "failed" /\ flow' \in [Senders -> Flows] /\ \A t \in Senders \ {s} : flow'[t] = flow[t]
      BY <2>1, DialogStepKeepsTokens, StepChanges DEF FlowSteps, OAuthInv
    <2>3. DialogFits'
      BY <2>1, <2>2, DialogCloses
    <2>4. QED
      BY <2>1, <2>2, <2>3 DEF OAuthInv, OAuthTypeOK, CloseDialog, tokenVars
  <1>7. CASE PrepareFails(s)
    BY <1>3, <1>7 DEF PrepareFails
  <1>8. CASE CallbackWithCode(s)
    BY <1>3, <1>8 DEF CallbackWithCode
  <1>9. QED
    BY <1>1, <1>2, <1>4, <1>5, <1>6, <1>7, <1>8

LEMMA EndingKeeps ==
  ASSUME OAuthInv, CancelAuthorization \/ StopRuntime \/ RuntimeStopped \/ \E s \in Senders : CancelReaches(s)
  PROVE  OAuthInv'
  <1>1. ASSUME UNCHANGED <<flow, tokenVars>> PROVE TokensFit'
    BY <1>1 DEF OAuthInv, TokensFit, CopiesKnown, OwnUntilStored, Unshared, RefreshKept, tokenVars
  <1>2. ASSUME TakeSlot, UNCHANGED <<flow, overlapped>>
        PROVE  /\ OneAuthorization' /\ SlotsFit'
               /\ flowSlot' = NoSender /\ cancelling' \subseteq Senders /\ missed \subseteq missed' /\ missed' \subseteq Senders
    <2>1. flowSlot' = NoSender /\ NoSender \notin cancelling'
      BY <1>2, OAuthAssumptions DEF TakeSlot, OAuthInv, OAuthTypeOK
    <2>2. SlotsFit'
      BY <1>2, <2>1, OAuthAssumptions DEF TakeSlot, OAuthInv, DialogFits, SlotsFit
    <2>3. OneAuthorization'
      BY <1>2 DEF TakeSlot, OAuthInv, DialogFits, OneAuthorization
    <2>4. QED
      BY <1>2, <2>1, <2>2, <2>3 DEF TakeSlot, OAuthInv, OAuthTypeOK
  <1>3. CASE CancelAuthorization
    BY <1>1, <1>2, <1>3 DEF CancelAuthorization, OAuthInv, OAuthTypeOK, DialogFits, DialogMatches, tokenVars
  <1>4. CASE StopRuntime
    BY <1>1, <1>2, <1>4 DEF StopRuntime, OAuthInv, OAuthTypeOK, DialogFits, DialogMatches, tokenVars
  <1>5. CASE RuntimeStopped
    BY <1>1, <1>5 DEF RuntimeStopped, OAuthInv, OAuthTypeOK, DialogFits, OneAuthorization, SlotsFit, DialogMatches, tokenVars
  <1>6. ASSUME NEW s \in Senders, CancelReaches(s) PROVE OAuthInv'
    <2>1. cancelling' = cancelling \ {s} /\ s \in cancelling /\ UNCHANGED <<tokenVars, flowSlot, dialog, stopping, overlapped, missed>>
      BY <1>6 DEF CancelReaches
    <2>2. CASE UNCHANGED flow
      BY <1>1, <2>1, <2>2 DEF OAuthInv, OAuthTypeOK, DialogFits, OneAuthorization, SlotsFit, DialogMatches, tokenVars
    <2>3. CASE flow[s].pc = "browser" /\ FlowTo(s, "failed")
      <3>1. TokensFit' /\ flow'[s].pc = "failed" /\ flow' \in [Senders -> Flows] /\ \A t \in Senders \ {s} : flow'[t] = flow[t]
        BY <2>1, <2>3, DialogStepKeepsTokens, StepChanges DEF FlowSteps, OAuthInv
      <3>2. OneAuthorization' /\ SlotsFit'
        BY <2>1, <2>3, <3>1 DEF OAuthInv, OAuthTypeOK, DialogFits, OneAuthorization, SlotsFit, Begun, OfBrowser
      <3>3. DialogMatches'
        BY <2>1, <2>3, <3>1 DEF OAuthInv, OAuthTypeOK, DialogFits, SlotsFit, DialogMatches
      <3>4. QED
        BY <2>1, <3>1, <3>2, <3>3 DEF OAuthInv, OAuthTypeOK, DialogFits, tokenVars
    <2>4. QED
      BY <1>6, <2>2, <2>3 DEF CancelReaches
  <1>7. QED
    BY <1>3, <1>4, <1>5, <1>6

LEMMA StoredTokenKeeps ==
  ASSUME OAuthInv, Expires \/ \E s \in Senders : PersistToken(s)
  PROVE  OAuthInv'
  <1>1. CASE Expires
    <2>1. auth' = [auth EXCEPT !.expired = TRUE] /\ UNCHANGED <<flow, dialogVars, grant, rotates, honoured, issuedTokens, unstored>>
      BY <1>1 DEF Expires
    <2>2. auth' \in Auths /\ auth'.refresh = auth.refresh
      BY <2>1 DEF OAuthInv, OAuthTypeOK, Auths
    <2>3. TokensFit'
      BY <2>1, <2>2 DEF OAuthInv, TokensFit, CopiesKnown, OwnUntilStored, Unshared, RefreshKept
    <2>4. QED
      BY <2>1, <2>2, <2>3 DEF OAuthInv, OAuthTypeOK, DialogFits, OneAuthorization, SlotsFit, Begun, DialogMatches, dialogVars
  <1>2. ASSUME NEW s \in Senders, PersistToken(s) PROVE OAuthInv'
    <2>1. /\ flow[s].pc = "persisting" /\ FlowTo(s, "ready") /\ UNCHANGED <<dialogVars, grant, rotates, honoured, issuedTokens>>
          /\ \/ auth' = flow[s].copy /\ unstored' = unstored
             \/ unstored' = TRUE /\ auth' = auth
      BY <1>2 DEF PersistToken
    <2>2. /\ flow' \in [Senders -> Flows] /\ flow'[s].pc = "ready" /\ flow'[s].copy = flow[s].copy
          /\ \A t \in Senders \ {s} : flow'[t] = flow[t]
      BY <2>1, StepChanges DEF FlowSteps, OAuthInv
    <2>3. flow[s].copy \in Auths /\ flow[s].copy.refresh <= issuedTokens
      BY DEF OAuthInv, OAuthTypeOK, Flows, TokensFit, CopiesKnown
    <2>4. CopiesKnown'
      BY <2>1, <2>2, <2>3 DEF OAuthInv, OAuthTypeOK, TokensFit, CopiesKnown
    <2>5. OwnUntilStored'
      <3> SUFFICES ASSUME rotates, grant # "implicit", NEW t \in Senders, flow'[t].pc = "persisting"
                   PROVE  Unshared(t)'
        BY <2>1 DEF OwnUntilStored
      <3>1. t # s /\ flow'[t] = flow[t] /\ Unshared(t)
        BY <2>2 DEF OAuthInv, TokensFit, OwnUntilStored
      <3>2. QED
        BY <2>1, <2>2, <3>1 DEF Unshared
    <2>6. RefreshKept'
      <3> SUFFICES ASSUME rotates, grant # "implicit", ~unstored' PROVE auth'.refresh \in honoured' \cup {0}
        BY <2>1 DEF RefreshKept
      <3>1. Unshared(s) /\ auth' = flow[s].copy
        BY <2>1 DEF OAuthInv, TokensFit, OwnUntilStored
      <3>2. QED
        BY <2>1, <3>1 DEF Unshared
    <2>7. DialogFits'
      BY <2>1, <2>2, DialogStays DEF OfBrowser, Begun
    <2>8. QED
      BY <2>1, <2>2, <2>3, <2>4, <2>5, <2>6, <2>7 DEF OAuthInv, OAuthTypeOK, TokensFit, dialogVars
  <1>3. QED
    BY <1>1, <1>2

LEMMA OAuthInvInit == OAuthInit => OAuthInv
  <1> SUFFICES ASSUME OAuthInit PROVE OAuthInv
    OBVIOUS
  <1>1. NoAuth \in Auths /\ NoAuth.access = 0 /\ NoAuth.refresh = 0
    BY DEF NoAuth, Auths
  <1>2. auth \in Auths /\ auth.refresh <= auth.access /\ auth.access \in {0, 1}
    <2>1. CASE auth = NoAuth
      BY <1>1, <2>1
    <2>2. CASE auth = [access |-> 0, expired |-> FALSE, refresh |-> 0, code |-> TRUE]
      BY <2>2 DEF Auths
    <2>3. CASE auth = [access |-> 1, expired |-> TRUE, refresh |-> 0, code |-> FALSE]
      BY <2>3 DEF Auths
    <2>4. CASE auth = [access |-> 1, expired |-> TRUE, refresh |-> 1, code |-> FALSE]
      BY <2>4 DEF Auths
    <2>5. QED
      BY <2>1, <2>2, <2>3, <2>4 DEF OAuthInit
  <1>3. [pc |-> "idle", copy |-> NoAuth] \in Flows
    BY <1>1 DEF Flows, FlowSteps
  <1>4. OAuthTypeOK
    <2>1. issuedTokens \in Nat /\ flow \in [Senders -> Flows]
      BY <1>2, <1>3 DEF OAuthInit
    <2>2. QED
      BY <1>2, <2>1 DEF OAuthInit, OAuthTypeOK
  <1>5. TokensFit
    BY <1>1, <1>2 DEF OAuthInit, TokensFit, CopiesKnown, OwnUntilStored, RefreshKept, Auths
  <1>6. DialogFits
    BY OAuthAssumptions DEF OAuthInit, DialogFits, OneAuthorization, SlotsFit, Begun, DialogMatches, OfBrowser
  <1>7. QED
    BY <1>4, <1>5, <1>6 DEF OAuthInv

\* App.tsx, oauth2.ts and http.ts, for any number of senders of one request,
\* tokens, stops and answers: the dialog and the stored token stay as
\* OAuthSound says.
THEOREM OAuthStaysSound == OAuthSpec => []OAuthSound
  <1>1. OAuthInv /\ [OAuthNext]_oauthVars => OAuthInv'
    <2>1. OAuthInv /\ UNCHANGED oauthVars => OAuthInv'
      BY DEF oauthVars, dialogVars, tokenVars, OAuthInv, OAuthTypeOK, TokensFit, CopiesKnown, OwnUntilStored, Unshared,
             RefreshKept, DialogFits, OneAuthorization, SlotsFit, Begun, DialogMatches
    <2>2. QED
      BY <2>1, WithoutBrowser, WithBrowser, EndingKeeps, StoredTokenKeeps DEF OAuthNext
  <1>2. OAuthInv => OAuthSound
    BY DEF OAuthInv, OAuthSound, TokensFit, DialogFits
  <1>3. QED
    BY <1>1, <1>2, OAuthInvInit, PTL DEF OAuthSpec
=============================================================================
