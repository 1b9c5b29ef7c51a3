---------------------------- MODULE StreamConsole ----------------------------
(***************************************************************************)
(* The stream console of App.tsx composed with the session registry of     *)
(* src-tauri/src/streaming.rs.                                             *)
(*                                                                         *)
(* The renderer keeps one current session and one status; each connect     *)
(* uses a new session id.  connect_* and disconnect_* are asynchronous     *)
(* commands, and the events of a session come through a channel of their   *)
(* own, so a reply and an event may pass each other.  A session task of    *)
(* the backend is reduced to its life cycle (SocketIoSession and           *)
(* SseSession give the detail): it runs, loses its transport and gets a    *)
(* new one (not for a WebSocket), ends, and removes its sender.            *)
(***************************************************************************)
EXTENDS Naturals, Sequences, FiniteSets

CONSTANTS
    Kinds,        \* protocols a session may have
    MaxSessions,  \* bound: connects the user asks for
    MaxTroubles,  \* bound: lost transports, failed reconnects, soft errors
    MaxCommands   \* bound: view closes, request switches, project changes

ASSUME ConsoleAssumptions ==
    /\ Kinds \subseteq {"websocket", "sse", "socketio"}
    /\ MaxSessions \in Nat /\ MaxTroubles \in Nat /\ MaxCommands \in Nat

VARIABLES
    (* The renderer.                                                       *)
    current,   \* streamSession.current, 0 for undefined
    status,    \* streamStatus
    sending,   \* isSending
    issued,    \* sessions created so far; their ids are 1..issued
    call,      \* per session, the connect call: none, preparing, invoked, ok, failed, done
    closes,    \* disconnect calls that have not returned
    (* The backend.                                                        *)
    kind,      \* per session, its protocol
    senders,   \* sessions in the registry
    task,      \* per session, its task: none, running, lost, ended, closed
    told,      \* sessions whose task was sent Close
    events,    \* per session, events sent and not delivered
    (* What the properties remember.                                       *)
    given,     \* sessions the renderer gave up through a close of its own
    misled,    \* sessions shown as disconnected before their task closed
    early,     \* sessions deleted before the backend knew them
    stopped,   \* sessions created before a project change
    troubles, commands

rendererVars == <<current, status, sending, issued, call, closes>>
backendVars == <<kind, senders, task, told, events>>
history == <<given, misled, early, stopped, troubles, commands>>
vars == <<rendererVars, backendVars, history>>

Ids == 1..MaxSessions

Alive(id) == task[id] \in {"running", "lost"}

Init ==
    /\ current = 0 /\ status = "disconnected" /\ sending = FALSE /\ issued = 0
    /\ call = [id \in Ids |-> "none"] /\ closes = {}
    /\ kind \in [Ids -> Kinds]
    /\ senders = {} /\ task = [id \in Ids |-> "none"] /\ told = {}
    /\ events = [id \in Ids |-> <<>>]
    /\ given = {} /\ misled = {} /\ early = {} /\ stopped = {} /\ troubles = 0 /\ commands = 0

(* A disconnect call of the renderer.                                      *)
Closing(id, by) == [id |-> id, by |-> by, reply |-> "none"]

(* The status goes to "disconnected" for session id, which may still be    *)
(* connecting or alive.                                                    *)
ShowDisconnected(id) ==
    /\ status' = "disconnected"
    /\ misled' = IF id \in Ids /\ call[id] \in {"invoked", "ok", "done"} /\ task[id] # "closed" THEN misled \cup {id}
                 ELSE misled

-----------------------------------------------------------------------------
(* executeRequest of a streaming request.                                  *)

(* Not connected: a new session becomes the current one.                   *)
PressConnect ==
    /\ ~sending /\ status \notin {"connected", "reconnecting"}
    /\ issued < MaxSessions
    /\ issued' = issued + 1 /\ current' = issued + 1
    /\ status' = "connecting" /\ sending' = TRUE
    /\ call' = [call EXCEPT ![issued + 1] = "preparing"]
    /\ UNCHANGED <<closes, backendVars, history>>

(* connectStream renders the request, which may throw, and invokes the     *)
(* connect command.                                                        *)
Prepare(id) ==
    /\ call[id] = "preparing"
    /\ \E outcome \in {"invoked", "failed"} : call' = [call EXCEPT ![id] = outcome]
    /\ UNCHANGED <<current, status, sending, issued, closes, backendVars, history>>

\* A session that is no longer current is left alone.
ConnectReturnsAlways(id) ==
    /\ call[id] = "ok"
    /\ call' = [call EXCEPT ![id] = "done"]
    /\ sending' = FALSE
    /\ status' = IF current = id THEN "connected" ELSE status
    /\ UNCHANGED <<current, issued, closes, backendVars, history>>

(* The connect command succeeded.  A session that is no longer current is  *)
(* disconnected at once; that call is awaited too.                         *)
ConnectReturns(id) ==
    /\ call[id] = "ok"
    /\ call' = [call EXCEPT ![id] = "done"]
    /\ IF current = id
       THEN status' = "connected" /\ sending' = FALSE /\ UNCHANGED closes
       ELSE /\ closes' = closes \cup {Closing(id, "late")}
            /\ UNCHANGED <<status, sending>>
    /\ UNCHANGED <<current, issued, backendVars, history>>

\* The error path forgets the busy flag.
ConnectThrowsBusy(id) ==
    /\ call[id] = "failed"
    /\ call' = [call EXCEPT ![id] = "done"]
    /\ status' = IF current = id THEN "disconnected" ELSE status
    /\ UNCHANGED <<current, sending, issued, closes, backendVars, history>>

(* Rendering or connecting failed: an error is shown for the session.      *)
ConnectThrows(id) ==
    /\ call[id] = "failed"
    /\ call' = [call EXCEPT ![id] = "done"]
    /\ sending' = FALSE
    /\ status' = IF current = id THEN "disconnected" ELSE status
    /\ UNCHANGED <<current, issued, closes, backendVars, history>>

(* Connected or reconnecting: the button disconnects.                      *)
PressDisconnect ==
    /\ ~sending /\ status \in {"connected", "reconnecting"} /\ current # 0
    /\ sending' = TRUE
    /\ closes' = closes \cup {Closing(current, "button")}
    /\ UNCHANGED <<current, status, issued, call, backendVars, history>>

-----------------------------------------------------------------------------
(* The other places that disconnect.                                       *)

(* selectStreamSession of another session, and deleteSelectedStreamSession *)
(* or clearActiveStreamHistory: disconnect first, then forget the session. *)
(* Only the first looks at the status.                                     *)
CloseFromView(by) ==
    /\ current # 0 /\ commands < MaxCommands
    /\ by = "select" => status \in {"connected", "reconnecting"}
    /\ commands' = commands + 1
    /\ closes' = closes \cup {Closing(current, by)}
    /\ UNCHANGED <<current, status, sending, issued, call, backendVars, given,
                   misled, early, stopped, troubles>>

(* The effect that runs when the request, environment or project changes:  *)
(* forget the session and disconnect it without waiting.                   *)
SwitchRequest ==
    /\ commands < MaxCommands
    /\ commands' = commands + 1
    /\ closes' = IF current = 0 THEN closes
                 ELSE closes \cup {Closing(current, "effect")}
    /\ given' = given \cup ({current} \ {0})
    /\ current' = 0 /\ status' = "disconnected"
    /\ UNCHANGED <<sending, issued, call, backendVars, misled, early, stopped, troubles>>

(* stopWorkspaceRuntime, at a project change.                              *)
StopRuntime ==
    /\ ~sending /\ commands < MaxCommands
    /\ commands' = commands + 1
    /\ current' = 0
    /\ given' = given \cup ({current} \ {0})
    /\ stopped' = 1..issued
    /\ IF current = 0
       THEN status' = "disconnected" /\ UNCHANGED closes
       ELSE closes' = closes \cup {Closing(current, "stop")} /\ UNCHANGED status
    /\ UNCHANGED <<sending, issued, call, backendVars, misled, early, troubles>>

(* A disconnect call returns to whoever made it.                           *)
CloseReturns(c) ==
    /\ c \in closes /\ c.reply # "none"
    /\ closes' = closes \ {c}
    /\ \/ /\ c.by = "button" /\ c.reply = "ok"
          /\ current' = 0 /\ given' = given \cup {c.id}
          /\ sending' = FALSE /\ status' = "disconnected"
          /\ UNCHANGED misled
       \/ /\ c.by = "button" /\ c.reply = "error"
          /\ sending' = FALSE
          /\ IF current = c.id THEN ShowDisconnected(c.id)
                               ELSE UNCHANGED <<status, misled>>
          /\ UNCHANGED <<current, given>>
       \/ /\ c.by \in {"select", "delete"}
          /\ IF current = c.id
             THEN /\ current' = 0 /\ status' = "disconnected"
                  /\ given' = IF c.by = "select" THEN given \cup {c.id} ELSE given
             ELSE UNCHANGED <<current, status, given>>
          /\ UNCHANGED <<sending, misled>>
       \/ /\ c.by = "effect"
          /\ UNCHANGED <<current, status, sending, given, misled>>
       \/ /\ c.by = "stop"
          /\ ShowDisconnected(current)
          /\ UNCHANGED <<current, sending, given>>
       \/ /\ c.by = "late"
          /\ sending' = FALSE
          /\ UNCHANGED <<current, status, given, misled>>
    /\ UNCHANGED <<issued, call, backendVars, early, stopped, troubles, commands>>

(* sendStreamMessage or toggleSocketIoListener throws before or in the     *)
(* backend: the error is shown for the current session.                    *)
SendThrows ==
    /\ current # 0 /\ troubles < MaxTroubles
    /\ troubles' = troubles + 1
    /\ ShowDisconnected(current)
    /\ UNCHANGED <<current, sending, issued, call, closes, backendVars, given,
                   early, stopped, commands>>

(* onStreamEvent: only the current session moves the status.               *)
Deliver(id) ==
    /\ events[id] # <<>>
    /\ events' = [events EXCEPT ![id] = Tail(@)]
    /\ LET what == Head(events[id]) IN
       \/ /\ current # id /\ UNCHANGED <<status, misled>>
       \/ /\ current = id /\ what = "open"
          /\ status' = "connected" /\ UNCHANGED misled
       \/ /\ current = id /\ what = "reconnecting"
          /\ status' = "reconnecting" /\ UNCHANGED misled
       \/ /\ current = id /\ what \in {"error", "closed"}
          /\ ShowDisconnected(id)
    /\ UNCHANGED <<current, sending, issued, call, closes, kind, senders, task,
                   told, given, early, stopped, troubles, commands>>

-----------------------------------------------------------------------------
(* The backend.                                                            *)

Report(id, kinds) == events' = [events EXCEPT ![id] = @ \o kinds]

(* connect_websocket, connect_socket_io, connect_sse: after the handshake  *)
(* the sender is inserted, "open" is sent, the task is spawned and the     *)
(* reply leaves.                                                           *)
Opens(id) ==
    /\ call[id] = "invoked"
    /\ call' = [call EXCEPT ![id] = "ok"]
    /\ senders' = senders \cup {id}
    /\ task' = [task EXCEPT ![id] = "running"]
    /\ Report(id, <<"open">>)
    /\ UNCHANGED <<current, status, sending, issued, closes, kind, told, history>>

(* The handshake fails: nothing was registered.                            *)
OpenFails(id) ==
    /\ call[id] = "invoked"
    /\ call' = [call EXCEPT ![id] = "failed"]
    /\ UNCHANGED <<current, status, sending, issued, closes, backendVars, history>>

\* The sender is looked up, but neither removed nor sent Close.
CloseAnswersOk(c) ==
    /\ c \in closes /\ c.reply = "none"
    /\ closes' = (closes \ {c}) \cup {[c EXCEPT !.reply = "ok"]}
    /\ UNCHANGED <<current, status, sending, issued, call, backendVars, history>>

(* disconnect_*: remove the sender and send Close.  The receiver of a      *)
(* Socket.IO session is gone once its loop has returned.                   *)
HandleClose(c) ==
    /\ c \in closes /\ c.reply = "none"
    /\ LET sent == /\ c.id \in senders
                   /\ Alive(c.id) \/ kind[c.id] # "socketio"
       IN  /\ closes' = (closes \ {c}) \cup
                        {[c EXCEPT !.reply = IF sent THEN "ok" ELSE "error"]}
           /\ told' = IF sent THEN told \cup {c.id} ELSE told
    /\ senders' = senders \ {c.id}
    /\ early' = IF c.by = "delete" /\ task[c.id] = "none" THEN early \cup {c.id}
                ELSE early
    /\ UNCHANGED <<current, status, sending, issued, call, kind, task, events,
                   given, misled, stopped, troubles, commands>>

(* The task loses its transport and keeps the session: an "error" or a     *)
(* "close" (one here, the console treats them alike) may come before       *)
(* "reconnecting".                                                         *)
TaskLoses(id) ==
    /\ task[id] = "running" /\ kind[id] # "websocket"
    /\ troubles < MaxTroubles /\ troubles' = troubles + 1
    /\ task' = [task EXCEPT ![id] = "lost"]
    /\ \E first \in {<<>>, <<"error">>} : Report(id, first \o <<"reconnecting">>)
    /\ UNCHANGED <<rendererVars, kind, senders, told, given, misled, early, stopped,
                   commands>>

(* A reconnect fails and another one is scheduled.                         *)
TaskRetries(id) ==
    /\ task[id] = "lost"
    /\ troubles < MaxTroubles /\ troubles' = troubles + 1
    /\ Report(id, <<"error", "reconnecting">>)
    /\ UNCHANGED <<rendererVars, kind, senders, task, told, given, misled,
                   early, stopped, commands>>

TaskReopens(id) ==
    /\ task[id] = "lost"
    /\ task' = [task EXCEPT ![id] = "running"]
    /\ Report(id, <<"open">>)
    /\ UNCHANGED <<rendererVars, kind, senders, told, history>>

(* An error that does not end the session: an emit that is too long, one   *)
(* listener too many.                                                      *)
TaskComplains(id) ==
    /\ task[id] = "running" /\ kind[id] = "socketio"
    /\ troubles < MaxTroubles /\ troubles' = troubles + 1
    /\ Report(id, <<"error">>)
    /\ UNCHANGED <<rendererVars, kind, senders, task, told, given, misled,
                   early, stopped, commands>>

(* The task leaves its loop for good: the peer closed, the reconnects are  *)
(* used up, a frame was malformed.                                         *)
TaskGivesUp(id) ==
    /\ Alive(id)
    /\ task' = [task EXCEPT ![id] = "ended"]
    /\ \E last \in {<<>>, <<"error">>} : Report(id, last)
    /\ UNCHANGED <<rendererVars, kind, senders, told, history>>

(* The task receives Close.                                                *)
TaskCloses(id) ==
    /\ Alive(id) /\ id \in told
    /\ task' = [task EXCEPT ![id] = "ended"]
    /\ UNCHANGED <<rendererVars, kind, senders, told, events, history>>

(* The last step of every task.                                            *)
TaskFinishes(id) ==
    /\ task[id] = "ended"
    /\ task' = [task EXCEPT ![id] = "closed"]
    /\ senders' = senders \ {id}
    /\ Report(id, <<"closed">>)
    /\ UNCHANGED <<rendererVars, kind, told, history>>

-----------------------------------------------------------------------------
UserStep == PressConnect \/ PressDisconnect \/ SwitchRequest \/ StopRuntime
            \/ SendThrows \/ \E by \in {"select", "delete"} : CloseFromView(by)

Next ==
    \/ UserStep
    \/ \E id \in Ids :
          \/ Prepare(id) \/ ConnectReturns(id) \/ ConnectThrows(id) \/ Deliver(id)
          \/ Opens(id) \/ OpenFails(id) \/ TaskLoses(id) \/ TaskRetries(id)
          \/ TaskReopens(id) \/ TaskComplains(id) \/ TaskGivesUp(id)
          \/ TaskCloses(id) \/ TaskFinishes(id)
    \/ \E c \in closes : HandleClose(c) \/ CloseReturns(c)

(* Promises settle, commands are executed, events are delivered, and a task*)
(* takes the Close it was sent and finishes, its last write included.      *)
(* Nothing is assumed of a reconnect, nor of a connect that renders its    *)
(* request, which may ask the user, or is in its handshake, which has no   *)
(* timeout when that of the request is 0.                                  *)
Fairness ==
    /\ \A id \in Ids :
          /\ WF_vars(ConnectReturns(id)) /\ WF_vars(ConnectThrows(id))
          /\ WF_vars(Deliver(id))
          /\ WF_vars(TaskCloses(id)) /\ WF_vars(TaskFinishes(id))
    /\ WF_vars(\E c \in closes : HandleClose(c))
    /\ WF_vars(\E c \in closes : CloseReturns(c))

Spec == Init /\ [][Next]_vars /\ Fairness

-----------------------------------------------------------------------------
(* A session nobody will close: its task is alive and was not told to end, *)
(* it is not the current session, its connect call has returned, and no    *)
(* disconnect is on its way to it.                                         *)
Orphan(id) ==
    /\ Alive(id) /\ id \notin told /\ current # id
    /\ call[id] = "done" /\ \A c \in closes : c.id # id

(* The console loses a live session in two ways only: it was shown as      *)
(* disconnected before it had ended, so that the next connect replaced it; *)
(* or it was deleted so early that the backend did not know it yet.        *)
(* Switching away, selecting another session and changing projects, at any *)
(* point of a connect, never lose one.                                     *)
OrphansExplained == \A id \in Ids : Orphan(id) => id \in misled \cup early

(* A session that the renderer gave up while it was connecting, connected  *)
(* or reconnecting ends.                                                   *)
GivenUpEnds == \A id \in Ids : (id \in given) ~> (task[id] \in {"none", "closed"})

(* The send button does not stay busy, unless for a connect that waits for *)
(* the user or the server.                                                 *)
WaitsOutside == \E id \in Ids : call[id] \in {"preparing", "invoked"}
SendingEnds == []<>~WaitsOutside => []<>~sending

(* Changing projects ends the streams of the old project.                  *)
ProjectChangeEndsStreams ==
    \A id \in Ids : (id \in stopped) ~> (task[id] \in {"none", "closed"})

(* Nothing the console waits for, or has given up, stays (App.tsx, connect *)
(* and disconnect of a stream; streaming.rs, the close commands).          *)
ConsoleSettles == GivenUpEnds /\ SendingEnds
=============================================================================
