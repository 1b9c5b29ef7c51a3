------------------------------ MODULE McpClient ------------------------------
(***************************************************************************)
(* The renderer's MCP client: mcp.ts keeps the session of a client,        *)
(* mcpHistory.ts its saved connections, and IntegrationWorkbench.tsx       *)
(* starts the operations.                                                  *)
(*                                                                         *)
(* One client is followed, over HTTP or over STDIO.  Its settings are      *)
(* their fingerprint.  The workbench runs one operation at a time, but     *)
(* settings may change under it, and answers to the server's requests and  *)
(* notices of changed roots go out beside it.  Every exchange is two       *)
(* steps, the server (or the native process) answering and the answer      *)
(* reaching the renderer, but for the notices, which are one.  The         *)
(* revision that guards STDIO sessions is kept as whether it is still the  *)
(* one read at the start of the call; of a saved connection, whether it    *)
(* has ended (endedAt).  Its status, a word shown that comes and goes with *)
(* markMcpHistoryConnected and ends nothing, is left out.  One resource is *)
(* subscribed to and unsubscribed from; the server is taken to advertise   *)
(* subscriptions.                                                          *)
(***************************************************************************)
EXTENDS Naturals, FiniteSets

CONSTANTS
    Settings,        \* fingerprints of the client's connection settings
    MaxConnections,  \* bound: saved connections, remote sessions and processes
    MaxChanges,      \* bound: changes of the settings or the environment
    MaxListCalls,    \* pages of the four lists a discovery asks for
    KeptConnections  \* maxHistoryResponses, as a number of saved connections

ASSUME McpClientAssumptions ==
    /\ MaxConnections \in Nat \ {0} /\ MaxChanges \in Nat /\ MaxListCalls \in Nat \ {0}
    /\ KeptConnections \in Nat \ {0}

VARIABLES
    mcpTransport, \* client.transport
    settings,     \* the fingerprint of the stored client
    changes,      \* changes so far
    session,      \* the entry of httpSessions or stdioSessions
    remote,       \* sessions of the HTTP server, by their ids
    process,      \* the native STDIO session, 0 for none
    processes,    \* processes started so far
    operation,    \* the operation the workbench runs
    notice,       \* an answer to the server or a notice of roots under way
    ending,      \* remote sessions and processes being closed
    fault,        \* the transport/error event of the native side
    channel,      \* what the closure of the newest call's channel holds
    connections   \* mcpSessions: the saved connections, by their ids

mcpVars == <<mcpTransport, settings, changes, session, remote, process, processes, operation, notice, ending,
             fault, channel, connections>>

ConnectionIds == 1..MaxConnections
NoSession == [fp |-> "none", sid |-> 0, conn |-> 0, subscribed |-> FALSE, moved |-> FALSE]
NoOperation == [pc |-> "idle", kind |-> "none", fp |-> "none", sid |-> 0, hist |-> 0, oauth |-> FALSE,
                recovered |-> FALSE, valid |-> FALSE, faulted |-> FALSE, aborted |-> FALSE, left |-> 0,
                answer |-> "none"]
\* A session of the server; "unheard" is the state of an unsubscribe whose
\* answer never came: none, sent, or taken (carried out).
GivenOut(lives) == [alive |-> lives, used |-> TRUE, subscribed |-> FALSE, unheard |-> "none"]
Unused == [alive |-> FALSE, used |-> FALSE, subscribed |-> FALSE, unheard |-> "none"]
NoNotice == [fp |-> "none", sid |-> 0]
NoChannel == [valid |-> FALSE, fp |-> "none", own |-> FALSE]
Unsaved == "none"
Cancelable == {"discover", "invoke"}

McpInit ==
    /\ mcpTransport \in {"http", "stdio"} /\ changes = 0 /\ settings = CHOOSE s \in Settings : TRUE
    /\ session = NoSession /\ operation = NoOperation /\ notice = NoNotice
    /\ remote = [s \in ConnectionIds |-> Unused]
    /\ process = 0 /\ processes = 0 /\ ending = {} /\ fault = "none" /\ channel = NoChannel
    /\ connections = [i \in ConnectionIds |-> Unsaved]

Http == mcpTransport = "http"
Current(fp) == session # NoSession /\ session.fp = fp

-----------------------------------------------------------------------------
(* mcpHistory.ts.                                                          *)

Saved == {i \in ConnectionIds : connections[i] # Unsaved}
FreshConnection == CHOOSE i \in ConnectionIds : \A j \in Saved \cup {session.conn, 0} : j < i
MayConnect == \E i \in ConnectionIds : \A j \in Saved \cup {session.conn, 0} : j < i

(* retainMcpHistorySession: older connections of the client are ended, the *)
(* newest ones are kept.                                                   *)
RetainedConnections(i) ==
    LET newer(j) == {k \in Saved \cup {i} : k > j}
    IN [j \in ConnectionIds |-> IF j = i THEN "open"
                      ELSE IF j \notin Saved \/ Cardinality(newer(j)) >= KeptConnections THEN Unsaved
                      ELSE "ended"]

FinishedConnection(i) ==
    [j \in ConnectionIds |-> IF j = i /\ connections[j] # Unsaved THEN "ended" ELSE connections[j]]

-----------------------------------------------------------------------------
(* Sessions of mcp.ts.                                                     *)

(* runtimeIdentity, rememberHttpSession: an entry of the same fingerprint  *)
(* keeps its identity and its subscriptions.                               *)
Remembered(current, fp, sid, conn) ==
    IF current # NoSession /\ current.fp = fp THEN [current EXCEPT !.sid = sid]
    ELSE [fp |-> fp, sid |-> sid, conn |-> conn, subscribed |-> FALSE, moved |-> FALSE]

RememberedStdioAnyway == Remembered(session, operation.fp, 0, operation.hist)

(* rememberStdioSession: only under the revision the call began with.      *)
RememberedStdio == IF operation.valid THEN Remembered(session, operation.fp, 0, operation.hist) ELSE session

(* forgetMcpClientSession and invalidateStdioSession: calls under way      *)
(* carry an old revision from here on.                                     *)
Invalidates(op) == channel' = [channel EXCEPT !.valid = FALSE] /\ operation' = [op EXCEPT !.valid = FALSE]

(* disconnectMcpClient up to its first await.                              *)
Target == IF Http THEN session.sid ELSE process
Disconnects == session' = NoSession /\ ending' = IF Target = 0 THEN ending ELSE ending \cup {Target}

-----------------------------------------------------------------------------
(* Operations of the workbench.                                            *)

(* prepareMcpHistorySession: the connection of the live session, or a new  *)
(* one.                                                                    *)
HistoryFor == IF Current(settings) THEN session.conn ELSE FreshConnection

Toggles == {"subscribe", "unsubscribe"}

(* discover, invokeOperation and toggleResourceSubscription, which sends   *)
(* the opposite of what is shown.                                          *)
StartMcpOperation(kind) ==
    /\ operation = NoOperation
    /\ kind \in Toggles => Current(settings) /\ session.subscribed = (kind = "unsubscribe")
    /\ Current(settings) \/ MayConnect
    /\ LET hist == HistoryFor
           reuse == Current(settings)
       IN /\ connections' = IF hist = 0 \/ hist \in Saved THEN connections ELSE RetainedConnections(hist)
          /\ operation' = [NoOperation EXCEPT !.pc = IF Http /\ ~reuse THEN "init" ELSE "call", !.kind = kind,
                !.fp = settings, !.sid = IF Http /\ reuse THEN session.sid ELSE 0, !.hist = hist,
                !.valid = ~Http, !.left = IF kind = "discover" THEN MaxListCalls ELSE 1]
          /\ session' = IF Http /\ ~reuse THEN NoSession ELSE session
    /\ channel' = [channel EXCEPT !.own = FALSE]
    /\ UNCHANGED <<mcpTransport, settings, changes, remote, process, processes, notice, ending, fault>>

(* The server's session when it carries out a toggle, and when the answer  *)
(* to one never comes: an unsubscribe may still be carried out later.      *)
Toggling == operation.pc = "call" /\ operation.kind \in Toggles /\ operation.sid # 0 /\ remote[operation.sid].alive
Toggled == IF Toggling THEN [remote EXCEPT ![operation.sid].subscribed = (operation.kind = "subscribe")] ELSE remote
Unheard == IF Toggling /\ operation.kind = "unsubscribe"
           THEN [remote EXCEPT ![operation.sid].unheard = "sent"] ELSE Toggled

(* The HTTP server answers the exchange under way.                         *)
ServerAnswers ==
    /\ Http /\ operation.pc \in {"init", "inited", "call"} /\ operation.answer = "none"
    /\ \/ operation' = [operation EXCEPT !.answer = "challenge"] /\ UNCHANGED remote
       \/ operation' = [operation EXCEPT !.answer = "failed"] /\ remote' \in {remote, Unheard}
       \/ /\ operation.pc = "init"
          /\ \/ operation' = [operation EXCEPT !.answer = "ok", !.sid = 0] /\ UNCHANGED remote
             \/ LET s == CHOOSE i \in ConnectionIds : ~remote[i].used
                IN
                  /\ \E i \in ConnectionIds : ~remote[i].used
                  /\ remote' = [remote EXCEPT ![s] = GivenOut(TRUE)]
                  /\ operation' = [operation EXCEPT !.answer = "ok", !.sid = s]
       \/ /\ operation.pc # "init" /\ operation.sid # 0 /\ ~remote[operation.sid].alive
          /\ operation' = [operation EXCEPT !.answer = "gone"] /\ UNCHANGED remote
       \/ /\ operation.pc # "init" /\ operation.sid # 0 => remote[operation.sid].alive
          /\ operation.pc # "init"
          /\ operation' = [operation EXCEPT !.answer = "ok"]
          /\ remote' = Toggled
    /\ UNCHANGED <<mcpTransport, settings, changes, session, process, processes, notice, ending, fault, channel, connections>>

LateUnsubscribe(s) ==
    /\ Http /\ remote[s].unheard = "sent"
    /\ remote' = [remote EXCEPT ![s].unheard = "taken", ![s].subscribed = FALSE]
    /\ UNCHANGED <<mcpTransport, settings, changes, session, process, processes, operation, notice, ending, fault, channel,
                   connections>>

(* mcp_stdio_call and has_mcp_stdio_session (external: McpStdio).  A call  *)
(* with other settings replaces the process.  A close that a later call    *)
(* has overtaken will end the process that call was answered by.           *)
Overtaken == IF ending # {} /\ operation.valid THEN "missed" ELSE fault

NativeAnswers ==
    /\ ~Http /\ operation.answer = "none"
    /\ \/ /\ operation.pc = "call"
          /\ LET kept == process # 0 /\ channel.fp = operation.fp
             IN \/ /\ kept \/ processes < MaxConnections
                   /\ process' = IF kept THEN process ELSE processes + 1
                   /\ processes' = IF kept THEN processes ELSE processes + 1
                   /\ fault' = IF kept \/ ending # {} THEN Overtaken ELSE "none"
                   /\ \E answer \in {"ok", "rpcError"} : operation' = [operation EXCEPT !.answer = answer]
                   /\ channel' = [valid |-> operation.valid, fp |-> operation.fp, own |-> TRUE]
                \/ /\ process' = 0 /\ operation' = [operation EXCEPT !.answer = "failed"]
                   /\ UNCHANGED <<processes, fault, channel>>
       \/ /\ operation.pc = "probe"
          /\ operation' = [operation EXCEPT !.answer = IF process # 0 THEN "has" ELSE "has not"]
          /\ fault' = Overtaken
          /\ UNCHANGED <<process, processes, channel>>
    /\ UNCHANGED <<mcpTransport, settings, changes, session, remote, notice, ending, connections>>

(* recordMcpFailure, and run of the workbench.                             *)
OperationFails(live) ==
    /\ operation' = NoOperation
    /\ connections' = IF live # NoSession /\ live.fp = operation.fp THEN connections
                      ELSE FinishedConnection(operation.hist)
    /\ UNCHANGED settings

(* The result of an operation: the stored client becomes the one the       *)
(* operation began with, completed by what it learned.                     *)
OperationEnds ==
    /\ operation' = NoOperation /\ settings' = operation.fp
    /\ connections' = connections

(* One page of a list is done: the next, or the end.                       *)
NextListCall(live) ==
    \/ /\ operation.left > 1
       /\ operation' = [operation EXCEPT !.left = @ - 1, !.pc = "call", !.answer = "none", !.oauth = FALSE,
                !.recovered = FALSE, !.valid = ~Http, !.faulted = FALSE]
       /\ UNCHANGED <<settings, connections>>
    \/ operation.left = 1 /\ OperationEnds

(* A failed page of a discovery is a warning and ends its list; any other  *)
(* failure ends the operation.                                             *)
OperationCallFails(live) ==
    IF operation.kind = "discover" /\ operation.pc = "call" /\ ~operation.aborted
    THEN NextListCall(live) ELSE OperationFails(live)

(* httpRequest: a challenge (401, or 403 for a wider scope) is answered    *)
(* once, by acquiring a token, which may fail; the client the token is     *)
(* acquired for is stored at once.                                         *)
OAuthRetry ==
    /\ Http /\ operation.answer = "challenge" /\ ~operation.oauth
    /\ \/ /\ operation' = [operation EXCEPT !.oauth = TRUE, !.answer = "none"]
          /\ settings' = operation.fp /\ UNCHANGED connections
       \/ OperationCallFails(session)
    /\ UNCHANGED <<mcpTransport, changes, session, remote, process, processes, notice, ending, fault, channel>>

(* operationWithSessionRecovery: the expired session is forgotten, one     *)
(* replacement initialised and the call retried once.                      *)
Recover ==
    /\ Http /\ operation.answer = "gone" /\ operation.pc = "call" /\ ~operation.recovered
    /\ session' = NoSession
    /\ operation' = [operation EXCEPT !.pc = "init", !.recovered = TRUE, !.answer = "none", !.sid = 0,
                !.oauth = FALSE, !.valid = FALSE]
    /\ channel' = [channel EXCEPT !.valid = FALSE]
    /\ UNCHANGED <<mcpTransport, settings, changes, remote, process, processes, notice, ending, fault, connections>>

(* setMcpResourceSubscription: the entry of the client as it is by now, if *)
(* there is one, records the toggle that was answered.                     *)
ToggleEnds(live) ==
    IF live # NoSession /\ live.fp = operation.fp
    THEN session' = [live EXCEPT !.subscribed = (operation.kind = "subscribe")] /\ OperationEnds
    ELSE session' = live /\ OperationFails(live)

(* httpSession and httpRequest: an answer reaches the renderer.            *)
HttpReplies ==
    /\ Http
    /\ \/ /\ operation.pc = "init" /\ operation.answer = "ok"
          /\ operation' = [operation EXCEPT !.pc = "inited", !.answer = "none", !.oauth = FALSE]
          /\ UNCHANGED <<session, settings, connections>>
       \/ /\ operation.pc = "inited" /\ operation.answer = "ok"
          /\ session' = Remembered(session, operation.fp, operation.sid, operation.hist)
          /\ operation' = [operation EXCEPT !.pc = "call", !.answer = "none", !.oauth = FALSE]
          /\ UNCHANGED <<settings, connections>>
       \/ /\ operation.pc = "call" /\ operation.answer = "ok"
          /\ LET live == IF operation.sid = 0 THEN session
                         ELSE Remembered(session, operation.fp, operation.sid, operation.hist)
             IN IF operation.kind \in Toggles THEN ToggleEnds(live) ELSE session' = live /\ NextListCall(live)
       \/ /\ \/ operation.answer \in {"failed", "aborted"}
             \/ operation.answer = "gone" /\ (operation.pc # "call" \/ operation.recovered)
             \/ operation.answer = "challenge" /\ operation.oauth
          /\ OperationCallFails(session) /\ UNCHANGED session
    /\ UNCHANGED <<mcpTransport, changes, remote, process, processes, notice, ending, fault, channel>>

(* stdioRequest: an answer reaches the renderer.  An invocation that was   *)
(* aborted ends like any other when it was answered after all.             *)
StdioReplies ==
    /\ ~Http
    /\ \/ /\ operation.answer = "ok"
          /\ LET live == IF operation.faulted THEN session ELSE RememberedStdio
             IN IF operation.kind \in Toggles THEN ToggleEnds(live)
                ELSE /\ session' = live
                     /\ IF operation.aborted /\ operation.kind = "discover" THEN OperationFails(live) ELSE NextListCall(live)
       \/ operation.answer = "rpcError" /\ session' = RememberedStdio /\ OperationCallFails(session')
       \/ /\ operation.answer = "failed"
          /\ session' = IF operation.valid THEN NoSession ELSE session
          /\ OperationCallFails(session')
       \/ /\ operation.answer = "aborted"
          /\ operation' = [operation EXCEPT !.pc = "probe", !.answer = "none"]
          /\ UNCHANGED <<session, settings, connections>>
       \/ operation.answer = "has" /\ session' = RememberedStdio /\ OperationFails(session')
       \/ /\ operation.answer = "has not"
          /\ session' = IF operation.valid THEN NoSession ELSE session
          /\ OperationFails(session')
    /\ channel' = [channel EXCEPT !.own = FALSE]
    /\ UNCHANGED <<mcpTransport, changes, remote, process, processes, notice, ending, fault>>

Abortable == operation.pc \in {"init", "inited", "call"} /\ operation.kind \in Cancelable
Aborting ==
    [operation EXCEPT !.aborted = TRUE, !.answer = IF Http \/ @ = "none" THEN "aborted" ELSE @]

(* cancelMcpOperation.                                                     *)
CancelMcpOperation ==
    /\ Abortable /\ ~operation.aborted
    /\ operation' = Aborting
    /\ UNCHANGED <<mcpTransport, settings, changes, session, remote, process, processes, notice, ending, fault, channel,
                   connections>>

-----------------------------------------------------------------------------
(* Disconnecting, and what happens beside an operation.                    *)

(* disconnect and selectMcpHistory, deleteSelectedMcpHistory and           *)
(* clearActiveMcpHistory, up to the await of disconnectMcpClient.          *)
StartDisconnect(kind) ==
    /\ operation = NoOperation /\ Current(settings)
    /\ Disconnects
    /\ operation' = [NoOperation EXCEPT !.pc = "closing", !.kind = kind, !.hist = session.conn, !.sid = Target]
    /\ channel' = [channel EXCEPT !.valid = FALSE]
    /\ UNCHANGED <<mcpTransport, settings, changes, remote, process, processes, notice, fault, connections>>

DisconnectDone ==
    /\ operation.pc = "closing" /\ (operation.sid = 0 \/ operation.answer = "closed")
    /\ operation' = NoOperation
    /\ connections' = IF operation.kind = "disconnect" THEN FinishedConnection(operation.hist)
                      ELSE [i \in ConnectionIds |-> IF i = operation.hist THEN Unsaved ELSE connections[i]]
    /\ UNCHANGED <<mcpTransport, settings, changes, session, remote, process, processes, notice, ending, fault, channel>>

(* updateClient with a connection setting, or another environment: the     *)
(* operation under way is aborted and the session ended without waiting.   *)
InvalidateActiveSession(s) ==
    /\ changes < MaxChanges /\ changes' = changes + 1
    /\ s # settings \/ Current(settings)
    /\ connections' = IF Current(settings) THEN FinishedConnection(session.conn)
                      ELSE connections
    /\ Disconnects /\ Invalidates(IF Abortable THEN Aborting ELSE operation)
    /\ settings' = s
    /\ UNCHANGED <<mcpTransport, remote, process, processes, notice, fault>>

(* respondMcpServerRequest and notifyMcpRootsChanged over HTTP: a session  *)
(* that was ended meanwhile is entered again, over its successor (moved).  *)
StartNotice ==
    /\ Http /\ notice = NoNotice /\ Current(settings)
    /\ notice' = [fp |-> settings, sid |-> session.sid]
    /\ UNCHANGED <<mcpTransport, settings, changes, session, remote, process, processes, operation, ending, fault, channel,
                   connections>>

NoticeReplies ==
    /\ notice # NoNotice /\ notice' = NoNotice
    /\ \/ UNCHANGED <<session, settings>>
       \/ /\ notice.sid # 0 => remote[notice.sid].alive
          /\ session' = [Remembered(session, notice.fp, notice.sid, 0) EXCEPT !.moved = @ \/ session.sid # notice.sid]
          /\ settings' \in {settings, notice.fp}
    /\ UNCHANGED <<mcpTransport, changes, remote, process, processes, operation, ending, fault, channel, connections>>

(* The DELETE of an HTTP session arrives or is lost; close_mcp_stdio_      *)
(* session closes whatever process the client has by then, in silence.     *)
RemoteCloses(x) ==
    /\ x \in ending /\ ending' = ending \ {x}
    /\ IF Http THEN /\ remote' \in {remote, [remote EXCEPT ![x] = GivenOut(FALSE)]}
                    /\ UNCHANGED <<process, fault>>
       ELSE /\ process' = 0
            /\ UNCHANGED <<remote, fault>>
    /\ operation' = IF operation.pc = "closing" /\ operation.sid = x THEN [operation EXCEPT !.answer = "closed"]
                    ELSE operation
    /\ UNCHANGED <<mcpTransport, settings, changes, session, processes, notice, channel, connections>>

(* The server drops a session; the process dies (external).                *)
SessionExpires(s) ==
    /\ Http /\ remote[s].alive /\ remote' = [remote EXCEPT ![s] = GivenOut(FALSE)]
    /\ UNCHANGED <<mcpTransport, settings, changes, session, process, processes, operation, notice, ending, fault, channel,
                   connections>>

ProcessDies ==
    /\ process # 0 /\ process' = 0 /\ fault' = "sent"
    /\ UNCHANGED <<mcpTransport, settings, changes, session, remote, processes, operation, notice, ending, channel,
                   connections>>

(* channel.onmessage of stdioRequest for transport/error.                  *)
TransportError ==
    /\ fault = "sent"
    /\ LET op == IF channel.own THEN [operation EXCEPT !.faulted = TRUE] ELSE operation
       IN IF channel.valid /\ Current(channel.fp)
          THEN session' = NoSession /\ fault' = "none" /\ Invalidates(op)
          ELSE session' = session /\ fault' = "missed" /\ operation' = op /\ channel' = channel
    /\ UNCHANGED <<mcpTransport, settings, changes, remote, process, processes, notice, ending, connections>>

-----------------------------------------------------------------------------
McpReplies == HttpReplies \/ StdioReplies \/ OAuthRetry \/ Recover

McpNext ==
    \/ \E kind \in {"discover", "invoke"} \cup Toggles : StartMcpOperation(kind)
    \/ McpReplies \/ ServerAnswers \/ NativeAnswers \/ DisconnectDone
    \/ \E x \in ConnectionIds : RemoteCloses(x)
    \/ CancelMcpOperation
    \/ \E kind \in {"disconnect", "delete"} : StartDisconnect(kind)
    \/ \E s \in Settings : InvalidateActiveSession(s)
    \/ StartNotice \/ NoticeReplies
    \/ \E s \in ConnectionIds : SessionExpires(s) \/ LateUnsubscribe(s)
    \/ ProcessDies \/ TransportError

McpSpec == McpInit /\ [][McpNext]_mcpVars

-----------------------------------------------------------------------------
(* A client shown as connected has its process, once nothing is under way  *)
(* and its transport error was not missed: a call answered after the       *)
(* disconnect does not enter the session again.                            *)
ConnectedHasProcess ==
    ~Http /\ session # NoSession /\ operation = NoOperation /\ ending = {} /\ fault = "none" => process # 0

(* A resource shown as subscribed is subscribed at the server, in the very *)
(* session the client uses, unless that session has ended there, the       *)
(* answer to an unsubscribe is on its way or never came, or a late answer  *)
(* has brought back the id of an earlier session.                          *)
SubscriptionsReal ==
    /\ Http /\ session.sid # 0 /\ session.subscribed /\ ~session.moved
    /\ remote[session.sid].alive /\ remote[session.sid].unheard = "none"
    /\ ~(operation.kind = "unsubscribe" /\ operation.answer = "ok")
    => remote[session.sid].subscribed

(* Of one client's saved connections at most one is open.                  *)
OneOpenConnection == Cardinality({i \in ConnectionIds : connections[i] = "open"}) <= 1

(* What the workbench shows of a client is so.                             *)
McpClientSound == ConnectedHasProcess /\ SubscriptionsReal /\ OneOpenConnection
=============================================================================
