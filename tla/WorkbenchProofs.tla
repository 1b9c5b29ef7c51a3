--------------------------- MODULE WorkbenchProofs ---------------------------
(***************************************************************************)
(* Proofs about what the workbench keeps while something runs, for any     *)
(* kinds of session, servers, projects, requests and bounds: the sessions  *)
(* of the stream console that no button reaches (OrphansExplained), the    *)
(* registry of mock servers against the renderer's own list (MocksSound),  *)
(* the secrets of an open vault (SecretsKept), what a sample of a stream   *)
(* leaves open (SampleCloses), what a script leaves behind (SandboxSound), *)
(* the account of a test run (TestRunsAccount), the prompts and resends of *)
(* a rendering (TemplateSound), the plan, reports and pins of the runner's *)
(* page (PlanSound), and the document tabs (TabsSound).                    *)
(***************************************************************************)
EXTENDS StreamConsole, StreamSample, MockServers, VaultSession, ScriptSandbox, TestSuites, TemplateRender,
        RunnerPlan, RequestTabs, NaturalsInduction, WellFoundedInduction, FiniteSetTheorems, SequenceTheorems, TLAPS

(***************************************************************************)
(* The stream console: OrphansExplained.                                   *)
(***************************************************************************)

Statuses == {"disconnected", "connecting", "connected", "reconnecting"}
Calls == {"none", "preparing", "invoked", "ok", "failed", "done"}
Tasks == {"none", "running", "lost", "ended", "closed"}
Closers == {"button", "select", "delete", "effect", "stop", "late"}
Closes == [id : Ids, by : Closers, reply : {"none", "ok", "error"}]

ConsoleTypeOK ==
    /\ current \in Ids \cup {0} /\ issued \in Nat /\ status \in Statuses
    /\ call \in [Ids -> Calls] /\ task \in [Ids -> Tasks] /\ closes \subseteq Closes
    /\ sending \in BOOLEAN /\ DOMAIN events = Ids

\* A task exists from the moment its connect call succeeds, and is reachable
\* until it is told to end.
CallsFit ==
    \A id \in Ids :
      /\ id > issued => call[id] = "none"
      /\ call[id] \in {"none", "preparing", "invoked", "failed"} => task[id] = "none"
      /\ call[id] = "ok" => task[id] # "none"
      /\ task[id] = "none" => events[id] = <<>>
      /\ Alive(id) /\ id \notin told => id \in senders

\* The busy flag belongs to one connect or disconnect at a time.
Connecting(id) == call[id] \in {"preparing", "invoked", "ok", "failed"}
Awaited(c) == c.by \in {"button", "late"}
OneBusy ==
    /\ ~sending => (\A id \in Ids : ~Connecting(id)) /\ (\A c \in closes : ~Awaited(c))
    /\ \A i, j \in Ids : Connecting(i) /\ Connecting(j) => i = j
    /\ \A c, d \in closes : Awaited(c) /\ Awaited(d) => c = d
    /\ \A i \in Ids, c \in closes : ~(Connecting(i) /\ Awaited(c))

\* The status tells whether the current session has a task.
StatusFits ==
    current # 0 =>
      /\ status \in {"connected", "reconnecting"} => task[current] # "none"
      /\ Alive(current) /\ call[current] = "done" /\ current \notin misled
            => status \in {"connected", "reconnecting"}

\* A disconnect that was answered left no task that goes on, unless it came
\* before the task.
ClosesFit ==
    \A c \in closes :
      /\ c.by = "button" => current \in {0, c.id}
      /\ c.by \in {"button", "select"} => task[c.id] # "none"
      /\ c.by \in {"button", "select", "delete"} /\ c.reply # "none"
            => c.id \in told \cup early \/ task[c.id] \in {"ended", "closed"}

\* A session that is not current will be disconnected.
LeftIsClosed ==
    \A id \in Ids :
      Alive(id) /\ id \notin told \cup misled \cup early /\ current # id =>
        call[id] = "ok" \/ \E c \in closes : c.id = id /\ c.reply = "none"

ConsoleInv == ConsoleTypeOK /\ CallsFit /\ OneBusy /\ StatusFits /\ ClosesFit /\ LeftIsClosed

LEMMA ConsoleStarts == Init => ConsoleInv
<1> SUFFICES ASSUME Init PROVE ConsoleInv
  OBVIOUS
<1>1. ConsoleTypeOK
  BY DEF Init, ConsoleTypeOK, Statuses, Calls, Tasks
<1>2. CallsFit
  BY DEF Init, CallsFit, Alive
<1>3. OneBusy /\ StatusFits /\ ClosesFit /\ LeftIsClosed
  BY DEF Init, OneBusy, Connecting, StatusFits, ClosesFit, LeftIsClosed, Alive
<1> QED
  BY <1>1, <1>2, <1>3 DEF ConsoleInv

LEMMA ConsoleHolds == ConsoleInv => OrphansExplained
BY DEF ConsoleInv, LeftIsClosed, OrphansExplained, Orphan

\* PressConnect.
LEMMA ConsolePressConnect == ConsoleInv /\ PressConnect => ConsoleInv'
<1> SUFFICES ASSUME ConsoleInv, PressConnect PROVE ConsoleInv'
  OBVIOUS
<1> DEFINE new == issued + 1
<1>1. new \in Ids /\ call[new] = "none" /\ task[new] = "none" /\ issued \in Nat
  BY ConsoleAssumptions DEF ConsoleInv, ConsoleTypeOK, CallsFit, PressConnect, Ids
<1>2. ConsoleTypeOK'
  BY <1>1 DEF ConsoleInv, ConsoleTypeOK, PressConnect, Calls, Statuses, backendVars, history
<1>3. CallsFit'
  BY <1>1 DEF ConsoleInv, ConsoleTypeOK, CallsFit, PressConnect, Alive, Ids, backendVars, history
<1>4. OneBusy'
  BY <1>1 DEF ConsoleInv, ConsoleTypeOK, OneBusy, Connecting, Awaited, PressConnect
<1>5. StatusFits'
  BY <1>1 DEF ConsoleInv, ConsoleTypeOK, StatusFits, Alive, PressConnect, backendVars, history
<1>6. ClosesFit'
  BY <1>1 DEF ConsoleInv, ConsoleTypeOK, OneBusy, Awaited, ClosesFit, PressConnect, backendVars, history
<1>7. LeftIsClosed'
  <2> SUFFICES ASSUME NEW id \in Ids, Alive(id), id \notin told \cup misled \cup early, id # new
               PROVE  call'[id] = "ok" \/ \E c \in closes : c.id = id /\ c.reply = "none"
    BY <1>1 DEF LeftIsClosed, PressConnect, Alive, backendVars, history
  <2>1. call[id] \notin {"none", "preparing", "invoked", "failed", "ok"}
    BY DEF ConsoleInv, CallsFit, Alive, OneBusy, Connecting, PressConnect
  <2>2. call[id] = "done"
    BY <2>1 DEF ConsoleInv, ConsoleTypeOK, Calls
  <2>3. current # id
    BY <2>2 DEF ConsoleInv, StatusFits, PressConnect, Ids
  <2> QED
    BY <2>2, <2>3 DEF ConsoleInv, LeftIsClosed
<1> QED
  BY <1>2, <1>3, <1>4, <1>5, <1>6, <1>7 DEF ConsoleInv

\* Prepare, OpenFails: the connect call moves on, no task yet.
LEMMA ConsoleCallMoves ==
  ASSUME ConsoleInv, NEW id \in Ids, Prepare(id) \/ OpenFails(id) PROVE ConsoleInv'
<1>1. PICK next \in {"invoked", "failed"} : call' = [call EXCEPT ![id] = next]
  BY DEF Prepare, OpenFails
<1>2. /\ call[id] \in {"preparing", "invoked"}
      /\ UNCHANGED <<current, status, sending, issued, closes, kind, senders, task, told, events, given, misled, early>>
  BY DEF Prepare, OpenFails, backendVars, history
<1>3. ConsoleTypeOK'
  BY <1>1, <1>2 DEF ConsoleInv, ConsoleTypeOK, Calls
<1>4. CallsFit'
  BY <1>1, <1>2 DEF ConsoleInv, ConsoleTypeOK, CallsFit, Alive, Ids
<1>5. OneBusy'
  BY <1>1, <1>2 DEF ConsoleInv, ConsoleTypeOK, OneBusy, Connecting, Awaited
<1>6. StatusFits'
  BY <1>1, <1>2 DEF ConsoleInv, ConsoleTypeOK, StatusFits, Alive
<1>7. ClosesFit'
  BY <1>1, <1>2 DEF ConsoleInv, ClosesFit
<1>8. LeftIsClosed'
  BY <1>1, <1>2 DEF ConsoleInv, ConsoleTypeOK, LeftIsClosed, Alive
<1> QED
  BY <1>3, <1>4, <1>5, <1>6, <1>7, <1>8 DEF ConsoleInv

LEMMA ConsoleConnectReturns ==
  ASSUME ConsoleInv, NEW id \in Ids, ConnectReturns(id) PROVE ConsoleInv'
<1>1. /\ call[id] = "ok" /\ call' = [call EXCEPT ![id] = "done"]
      /\ UNCHANGED <<current, issued, kind, senders, task, told, events, given, misled, early>>
      /\ task[id] # "none" /\ call \in [Ids -> Calls] /\ Connecting(id)
  BY DEF ConnectReturns, backendVars, history, ConsoleInv, ConsoleTypeOK, CallsFit, Connecting
<1>2. \/ current = id /\ status' = "connected" /\ sending' = FALSE /\ closes' = closes
      \/ current # id /\ closes' = closes \cup {Closing(id, "late")} /\ UNCHANGED <<status, sending>>
  BY DEF ConnectReturns
<1>3. Closing(id, "late") \in Closes /\ Closing(id, "late").by = "late"
         /\ Closing(id, "late").id = id /\ Closing(id, "late").reply = "none"
  BY DEF Closing, Closes, Closers
<1>4. ConsoleTypeOK'
  BY <1>1, <1>2, <1>3 DEF ConsoleInv, ConsoleTypeOK, Calls, Statuses
<1>5. CallsFit'
  BY <1>1 DEF ConsoleInv, ConsoleTypeOK, CallsFit, Alive, Ids
<1>6. OneBusy'
  BY <1>1, <1>2, <1>3 DEF ConsoleInv, ConsoleTypeOK, OneBusy, Connecting, Awaited
<1>7. StatusFits'
  BY <1>1, <1>2 DEF ConsoleInv, ConsoleTypeOK, StatusFits, Alive
<1>8. ClosesFit'
  BY <1>1, <1>2, <1>3 DEF ConsoleInv, ClosesFit
<1>9. LeftIsClosed'
  BY <1>1, <1>2, <1>3 DEF ConsoleInv, ConsoleTypeOK, LeftIsClosed, Alive
<1> QED
  BY <1>4, <1>5, <1>6, <1>7, <1>8, <1>9 DEF ConsoleInv

LEMMA ConsoleConnectThrows ==
  ASSUME ConsoleInv, NEW id \in Ids, ConnectThrows(id) PROVE ConsoleInv'
<1>1. /\ call[id] = "failed" /\ call' = [call EXCEPT ![id] = "done"] /\ sending' = FALSE
      /\ status' = IF current = id THEN "disconnected" ELSE status
      /\ UNCHANGED <<current, issued, closes, kind, senders, task, told, events, given, misled, early>>
      /\ task[id] = "none" /\ call \in [Ids -> Calls] /\ Connecting(id)
  BY DEF ConnectThrows, backendVars, history, ConsoleInv, ConsoleTypeOK, CallsFit, Connecting
<1>2. ConsoleTypeOK'
  BY <1>1 DEF ConsoleInv, ConsoleTypeOK, Calls, Statuses
<1>3. CallsFit'
  BY <1>1 DEF ConsoleInv, ConsoleTypeOK, CallsFit, Alive, Ids
<1>4. OneBusy'
  BY <1>1 DEF ConsoleInv, ConsoleTypeOK, OneBusy, Connecting, Awaited
<1>5. StatusFits'
  BY <1>1 DEF ConsoleInv, ConsoleTypeOK, StatusFits, Alive
<1>6. ClosesFit' /\ LeftIsClosed'
  BY <1>1 DEF ConsoleInv, ConsoleTypeOK, ClosesFit, LeftIsClosed, Alive
<1> QED
  BY <1>2, <1>3, <1>4, <1>5, <1>6 DEF ConsoleInv

\* A disconnect of the current session is sent: the button, the view, the
\* request switch and the project change.
LEMMA ConsolePressDisconnect == ConsoleInv /\ PressDisconnect => ConsoleInv'
<1> SUFFICES ASSUME ConsoleInv, PressDisconnect PROVE ConsoleInv'
  OBVIOUS
<1> DEFINE c == Closing(current, "button")
<1>1. /\ current # 0 /\ current \in Ids /\ c.id = current /\ c.by = "button" /\ c.reply = "none"
      /\ c \in Closes /\ ~sending /\ status \in {"connected", "reconnecting"}
      /\ closes' = closes \cup {c} /\ sending' = TRUE /\ task[current] # "none"
      /\ UNCHANGED <<current, status, issued, call, kind, senders, task, told, events, given, misled, early>>
  BY DEF PressDisconnect, backendVars, history, Closing, Closes, Closers, ConsoleInv, ConsoleTypeOK,
         StatusFits
<1> HIDE DEF c
<1>2. ConsoleTypeOK'
  BY <1>1 DEF ConsoleInv, ConsoleTypeOK
<1>3. CallsFit' /\ StatusFits'
  BY <1>1 DEF ConsoleInv, CallsFit, StatusFits, Alive
<1>4. OneBusy'
  BY <1>1 DEF ConsoleInv, OneBusy, Connecting, Awaited
<1>5. ClosesFit' /\ LeftIsClosed'
  BY <1>1 DEF ConsoleInv, ClosesFit, LeftIsClosed, Alive
<1> QED
  BY <1>2, <1>3, <1>4, <1>5 DEF ConsoleInv

LEMMA ConsoleCloseFromView ==
  ASSUME ConsoleInv, NEW by \in {"select", "delete"}, CloseFromView(by) PROVE ConsoleInv'
<1> DEFINE c == Closing(current, by)
<1>1. /\ current # 0 /\ current \in Ids /\ c.id = current /\ c.by = by /\ c.reply = "none"
      /\ c \in Closes /\ closes' = closes \cup {c}
      /\ by = "select" => task[current] # "none"
      /\ UNCHANGED <<current, status, sending, issued, call, kind, senders, task, told, events, given, misled, early>>
  BY DEF CloseFromView, backendVars, Closing, Closes, Closers, ConsoleInv, ConsoleTypeOK,
         StatusFits
<1> HIDE DEF c
<1>2. ConsoleTypeOK'
  BY <1>1 DEF ConsoleInv, ConsoleTypeOK
<1>3. CallsFit' /\ StatusFits'
  BY <1>1 DEF ConsoleInv, CallsFit, StatusFits, Alive
<1>4. OneBusy'
  BY <1>1 DEF ConsoleInv, OneBusy, Connecting, Awaited
<1>5. ClosesFit' /\ LeftIsClosed'
  BY <1>1 DEF ConsoleInv, ClosesFit, LeftIsClosed, Alive
<1> QED
  BY <1>2, <1>3, <1>4, <1>5 DEF ConsoleInv

LEMMA ConsoleForgets == ConsoleInv /\ (SwitchRequest \/ StopRuntime) => ConsoleInv'
<1> SUFFICES ASSUME ConsoleInv, SwitchRequest \/ StopRuntime PROVE ConsoleInv'
  OBVIOUS
<1>1. PICK by \in {"effect", "stop"} :
         closes' = IF current = 0 THEN closes ELSE closes \cup {Closing(current, by)}
  BY DEF SwitchRequest, StopRuntime
<1> DEFINE c == Closing(current, by)
<1>2. c.id = current /\ c.by = by /\ c.reply = "none" /\ (current # 0 => c \in Closes)
  BY DEF Closing, Closes, Closers, ConsoleInv, ConsoleTypeOK
<1>3. /\ current' = 0 /\ status' \in {"disconnected", status}
      /\ UNCHANGED <<sending, issued, call, kind, senders, task, told, events, misled, early>>
  BY DEF SwitchRequest, StopRuntime, backendVars
<1>4. closes' = IF current = 0 THEN closes ELSE closes \cup {c}
  BY <1>1
<1> HIDE DEF c
<1>5. ConsoleTypeOK'
  BY <1>2, <1>3, <1>4 DEF ConsoleInv, ConsoleTypeOK, Statuses
<1>6. CallsFit' /\ StatusFits'
  BY <1>3 DEF ConsoleInv, CallsFit, StatusFits, Alive
<1>7. OneBusy'
  BY <1>2, <1>3, <1>4 DEF ConsoleInv, OneBusy, Connecting, Awaited
<1>8. ClosesFit' /\ LeftIsClosed'
  BY <1>2, <1>3, <1>4 DEF ConsoleInv, ClosesFit, LeftIsClosed, Alive
<1> QED
  BY <1>5, <1>6, <1>7, <1>8 DEF ConsoleInv

\* A disconnect returns.
LEMMA ConsoleCloseReturns ==
  ASSUME ConsoleInv, NEW c \in closes, CloseReturns(c) PROVE ConsoleInv'
<1>1. /\ c.reply # "none" /\ closes' = closes \ {c} /\ c \in Closes
      /\ UNCHANGED <<issued, call, kind, senders, task, told, events, early>>
  BY DEF CloseReturns, backendVars, ConsoleInv, ConsoleTypeOK
<1>2. /\ current' \in {current, 0}
      /\ current' # current => c.by \in {"button", "select", "delete"} /\ current \in {0, c.id}
  BY DEF CloseReturns, ConsoleInv, ClosesFit
<1>3. /\ status' \in {status, "disconnected"}
      /\ \/ status' = status /\ misled' = misled
         \/ current' = 0 /\ misled' = misled
         \/ current' = current /\ current # 0 /\ ShowDisconnected(current)
         \/ current' = current /\ current = 0 /\ misled' = misled
  BY DEF CloseReturns, ShowDisconnected, Ids
<1>4. sending' = IF Awaited(c) THEN FALSE ELSE sending
  BY <1>1 DEF CloseReturns, Awaited, Closes, Closers
<1>5. misled \subseteq misled'
  BY <1>3 DEF ShowDisconnected
<1>6. ConsoleTypeOK'
  BY <1>1, <1>2, <1>3, <1>4 DEF ConsoleInv, ConsoleTypeOK, Statuses
<1>7. CallsFit'
  BY <1>1 DEF ConsoleInv, CallsFit, Alive
<1>8. OneBusy'
  BY <1>1, <1>4 DEF ConsoleInv, OneBusy, Connecting, Awaited
<1>9. StatusFits'
  BY <1>1, <1>2, <1>3 DEF ConsoleInv, ConsoleTypeOK, StatusFits, ShowDisconnected, Alive
<1>10. ClosesFit'
  BY <1>1, <1>2 DEF ConsoleInv, ClosesFit
<1>11. LeftIsClosed'
  <2> SUFFICES ASSUME NEW id \in Ids, Alive(id), id \notin told \cup misled \cup early, current' # id
               PROVE  call[id] = "ok" \/ \E d \in closes \ {c} : d.id = id /\ d.reply = "none"
    BY <1>1, <1>5 DEF LeftIsClosed, Alive
  <2>1. current # id
    BY <1>1, <1>2 DEF ConsoleInv, ClosesFit, Alive
  <2> QED
    BY <1>1, <2>1 DEF ConsoleInv, LeftIsClosed
<1> QED
  BY <1>6, <1>7, <1>8, <1>9, <1>10, <1>11 DEF ConsoleInv

\* An error or an event moves the status only.
LEMMA ConsoleStatusMoves ==
  ASSUME ConsoleInv, SendThrows \/ \E id \in Ids : Deliver(id) PROVE ConsoleInv'
<1>1. /\ UNCHANGED <<current, sending, issued, call, closes, kind, senders, task, told, given, early>>
      /\ events' = events \/ \E id \in Ids : events' = [events EXCEPT ![id] = Tail(@)] /\ events[id] # <<>>
  BY DEF SendThrows, Deliver, backendVars
<1>2. \/ current # 0 /\ ShowDisconnected(current)
      \/ UNCHANGED <<status, misled>>
      \/ current # 0 /\ task[current] # "none" /\ status' \in {"connected", "reconnecting"} /\ misled' = misled
  BY DEF SendThrows, Deliver, ConsoleInv, ConsoleTypeOK, CallsFit, Ids
<1>3. misled \subseteq misled'
  BY <1>2 DEF ShowDisconnected
<1>4. ConsoleTypeOK'
  BY <1>1, <1>2 DEF ConsoleInv, ConsoleTypeOK, Statuses, ShowDisconnected
<1>5. CallsFit'
  BY <1>1 DEF ConsoleInv, ConsoleTypeOK, CallsFit, Alive
<1>6. OneBusy' /\ ClosesFit'
  BY <1>1 DEF ConsoleInv, OneBusy, Connecting, Awaited, ClosesFit
<1>7. StatusFits'
  BY <1>1, <1>2 DEF ConsoleInv, ConsoleTypeOK, StatusFits, ShowDisconnected, Alive
<1>8. LeftIsClosed'
  BY <1>1, <1>3 DEF ConsoleInv, LeftIsClosed, Alive
<1> QED
  BY <1>4, <1>5, <1>6, <1>7, <1>8 DEF ConsoleInv

LEMMA ConsoleOpens ==
  ASSUME ConsoleInv, NEW id \in Ids, Opens(id) PROVE ConsoleInv'
<1>1. /\ call[id] = "invoked" /\ call' = [call EXCEPT ![id] = "ok"]
      /\ senders' = senders \cup {id} /\ task' = [task EXCEPT ![id] = "running"]
      /\ events' = [events EXCEPT ![id] = @ \o <<"open">>]
      /\ UNCHANGED <<current, status, sending, issued, closes, kind, told, given, misled, early>>
      /\ call \in [Ids -> Calls] /\ task \in [Ids -> Tasks] /\ DOMAIN events = Ids
  BY DEF Opens, Report, history, ConsoleInv, ConsoleTypeOK
<1>2. ConsoleTypeOK'
  BY <1>1 DEF ConsoleInv, ConsoleTypeOK, Calls, Tasks
<1>3. CallsFit'
  BY <1>1 DEF ConsoleInv, CallsFit, Alive, Ids
<1>4. OneBusy'
  BY <1>1 DEF ConsoleInv, OneBusy, Connecting, Awaited
<1>5. StatusFits'
  BY <1>1 DEF ConsoleInv, ConsoleTypeOK, StatusFits, Alive
<1>6. ClosesFit'
  <2> SUFFICES ASSUME NEW c \in closes
               PROVE  /\ c.by = "button" => current \in {0, c.id}
                      /\ c.by \in {"button", "select"} => task'[c.id] # "none"
                      /\ c.by \in {"button", "select", "delete"} /\ c.reply # "none"
                            => c.id \in told \cup early \/ task'[c.id] \in {"ended", "closed"}
    BY <1>1 DEF ClosesFit
  <2>1. c.id \in Ids
    BY DEF ConsoleInv, ConsoleTypeOK, Closes
  <2>2. task[id] = "none"
    BY <1>1 DEF ConsoleInv, CallsFit
  <2> QED
    BY <1>1, <2>1, <2>2 DEF ConsoleInv, ClosesFit
<1>7. LeftIsClosed'
  BY <1>1 DEF ConsoleInv, LeftIsClosed, Alive
<1> QED
  BY <1>2, <1>3, <1>4, <1>5, <1>6, <1>7 DEF ConsoleInv

\* disconnect_* in the backend: a task that goes on is told to end.
LEMMA ConsoleHandleClose ==
  ASSUME ConsoleInv, NEW c \in closes, HandleClose(c) PROVE ConsoleInv'
<1>1. PICK reply \in {"ok", "error"} : closes' = (closes \ {c}) \cup {[c EXCEPT !.reply = reply]}
  BY DEF HandleClose
<1> DEFINE d == [c EXCEPT !.reply = reply]
<1>2. /\ c \in Closes /\ c.id \in Ids /\ c.reply = "none" /\ d \in Closes
      /\ d.id = c.id /\ d.by = c.by /\ d.reply = reply /\ closes' = (closes \ {c}) \cup {d}
  BY <1>1 DEF HandleClose, ConsoleInv, ConsoleTypeOK, Closes
<1> HIDE DEF d
<1>3. /\ senders' = senders \ {c.id} /\ told \subseteq told' /\ early \subseteq early'
      /\ Alive(c.id) => c.id \in told'
      /\ c.by = "delete" /\ task[c.id] = "none" => c.id \in early'
      /\ UNCHANGED <<current, status, sending, issued, call, kind, task, events, given, misled>>
  BY <1>2 DEF HandleClose, ConsoleInv, CallsFit
<1>4. ConsoleTypeOK'
  BY <1>2, <1>3 DEF ConsoleInv, ConsoleTypeOK
<1>5. CallsFit'
  BY <1>2, <1>3 DEF ConsoleInv, CallsFit, Alive
<1>6. OneBusy'
  BY <1>2, <1>3 DEF ConsoleInv, OneBusy, Connecting, Awaited
<1>7. StatusFits'
  BY <1>3 DEF ConsoleInv, StatusFits, Alive
<1>8. ClosesFit'
  <2>1. c.by \in {"button", "select", "delete"} => c.id \in told' \cup early' \/ task[c.id] \in {"ended", "closed"}
    BY <1>2, <1>3 DEF ConsoleInv, ConsoleTypeOK, ClosesFit, Alive, Tasks
  <2> QED
    BY <1>2, <1>3, <2>1 DEF ConsoleInv, ClosesFit
<1>9. LeftIsClosed'
  BY <1>2, <1>3 DEF ConsoleInv, LeftIsClosed, Alive
<1> QED
  BY <1>4, <1>5, <1>6, <1>7, <1>8, <1>9 DEF ConsoleInv

\* A task moves on: it never comes back to life once it has ended.
LEMMA ConsoleTaskMoves ==
  ASSUME ConsoleInv, NEW id \in Ids,
         \/ TaskLoses(id) \/ TaskRetries(id) \/ TaskReopens(id) \/ TaskComplains(id)
         \/ TaskGivesUp(id) \/ TaskCloses(id) \/ TaskFinishes(id)
  PROVE  ConsoleInv'
<1>1. PICK next \in Tasks : task' = [task EXCEPT ![id] = next]
                   /\ (next \in {"running", "lost"} => Alive(id)) /\ next # "none"
  BY DEF TaskLoses, TaskRetries, TaskReopens, TaskComplains, TaskGivesUp, TaskCloses,
         TaskFinishes, Alive, ConsoleInv, ConsoleTypeOK, Tasks
<1>2. /\ task[id] # "none" /\ call \in [Ids -> Calls] /\ task \in [Ids -> Tasks] /\ DOMAIN events = Ids
      /\ DOMAIN events' = Ids /\ \A i \in Ids \ {id} : events'[i] = events[i]
  BY DEF TaskLoses, TaskRetries, TaskReopens, TaskComplains, TaskGivesUp, TaskCloses,
         TaskFinishes, Alive, ConsoleInv, ConsoleTypeOK, Report
<1>3. UNCHANGED <<current, status, sending, issued, call, closes, kind, told, misled, early>>
  BY DEF TaskLoses, TaskRetries, TaskReopens, TaskComplains, TaskGivesUp, TaskCloses,
         TaskFinishes, history, rendererVars
<1>4. senders' = senders \/ (next \in {"ended", "closed"} /\ senders' = senders \ {id})
  BY <1>1, <1>2 DEF TaskLoses, TaskRetries, TaskReopens, TaskComplains, TaskGivesUp, TaskCloses, TaskFinishes
<1>5. ConsoleTypeOK'
  BY <1>1, <1>2, <1>3 DEF ConsoleInv, ConsoleTypeOK
<1>6. CallsFit'
  BY <1>1, <1>2, <1>3, <1>4 DEF ConsoleInv, CallsFit, Alive, Ids
<1>7. OneBusy'
  BY <1>3 DEF ConsoleInv, OneBusy, Connecting, Awaited
<1>8. StatusFits'
  BY <1>1, <1>2, <1>3 DEF ConsoleInv, ConsoleTypeOK, StatusFits, Alive
<1>9. ClosesFit'
  <2> SUFFICES ASSUME NEW c \in closes
               PROVE  /\ c.by = "button" => current \in {0, c.id}
                      /\ c.by \in {"button", "select"} => task'[c.id] # "none"
                      /\ c.by \in {"button", "select", "delete"} /\ c.reply # "none"
                            => c.id \in told \cup early \/ task'[c.id] \in {"ended", "closed"}
    BY <1>3 DEF ClosesFit
  <2>1. c.id \in Ids
    BY DEF ConsoleInv, ConsoleTypeOK, Closes
  <2>2. task[c.id] \in {"ended", "closed"} => task'[c.id] \in {"ended", "closed"}
    BY <1>1, <1>2, <2>1 DEF Alive, Tasks
  <2> QED
    BY <1>1, <1>2, <2>1, <2>2 DEF ConsoleInv, ClosesFit
<1>10. LeftIsClosed'
  BY <1>1, <1>2, <1>3 DEF ConsoleInv, LeftIsClosed, Alive
<1> QED
  BY <1>5, <1>6, <1>7, <1>8, <1>9, <1>10 DEF ConsoleInv

LEMMA ConsoleInductive == ConsoleInv /\ [Next]_vars => ConsoleInv'
<1> SUFFICES ASSUME ConsoleInv, [Next]_vars PROVE ConsoleInv'
  OBVIOUS
<1>1. CASE UserStep
  BY <1>1, ConsolePressConnect, ConsolePressDisconnect, ConsoleCloseFromView, ConsoleForgets,
     ConsoleStatusMoves DEF UserStep
<1>2. CASE \E id \in Ids : Prepare(id) \/ OpenFails(id)
  BY <1>2, ConsoleCallMoves
<1>3. CASE \E id \in Ids : ConnectReturns(id) \/ ConnectThrows(id)
  BY <1>3, ConsoleConnectReturns, ConsoleConnectThrows
<1>4. CASE \E id \in Ids : Deliver(id) \/ Opens(id)
  BY <1>4, ConsoleStatusMoves, ConsoleOpens
<1>5. CASE \E id \in Ids : \/ TaskLoses(id) \/ TaskRetries(id) \/ TaskReopens(id) \/ TaskComplains(id)
                           \/ TaskGivesUp(id) \/ TaskCloses(id) \/ TaskFinishes(id)
  BY <1>5, ConsoleTaskMoves
<1>6. CASE \E c \in closes : HandleClose(c) \/ CloseReturns(c)
  BY <1>6, ConsoleHandleClose, ConsoleCloseReturns
<1>7. CASE UNCHANGED vars
  BY <1>7 DEF ConsoleInv, ConsoleTypeOK, CallsFit, OneBusy, Connecting, StatusFits, ClosesFit, LeftIsClosed,
     Alive, vars, rendererVars, backendVars, history
<1> QED
  BY <1>1, <1>2, <1>3, <1>4, <1>5, <1>6, <1>7 DEF Next

(* A live session that the console has lost was shown as disconnected      *)
(* before it ended, or deleted before the backend knew it (connectStream,  *)
(* disconnectStream and the effects of App.tsx over streaming.rs).         *)
THEOREM OrphansStayExplained == Spec => []OrphansExplained
BY ConsoleStarts, ConsoleInductive, ConsoleHolds, PTL DEF Spec


(***************************************************************************)
(* The mock servers: MocksSound.                                           *)
(***************************************************************************)

Routes == [id : Nat, at : Places \cup {"none"}, content : Nat]
Servers == [port : Nat, routes : SUBSET Routes]
Instances == [start : Nat, seq : Nat, routes : SUBSET Routes, late : BOOLEAN]
MockCalls == [kind : {"start", "stop", "update", "stop for change"}, id : MockIds, n : Nat,
              routes : SUBSET Routes, port : Nat, phase : {"asked", "bound", "done", "failed"}, of : Nat]

MockTypeOK ==
    /\ mocks \in [MockProjects -> [MockIds -> Servers]] /\ mockProject \in MockProjects
    /\ bench \in MockIds \cup {Unmounted}
    /\ runningMocks \in [MockIds -> Nat] /\ latestMock \in [MockIds -> SUBSET Routes]
    /\ mockCalls \subseteq MockCalls /\ registry \in [MockIds -> Instances]
    /\ listeners \subseteq [start : Nat, port : Nat]
    /\ changing \in {"no", "stopping", "stopped"} /\ generatingMock \in BOOLEAN
    /\ mockEdits \in Nat /\ mockSent \in Nat

\* A server that exists has a port, the workbench shows one that exists, and
\* so did every server that was started.
Known(id) == \E p \in MockProjects : mocks[p][id] # NoMock
ServersFit ==
    /\ \A p \in MockProjects, id \in MockIds : mocks[p][id] # NoMock => mocks[p][id].port # 0
    /\ bench # Unmounted => Exists(bench)
    /\ \A id \in MockIds : runningMocks[id] # 0 => Known(id)
    /\ \A c \in mockCalls : c.kind = "start" => Known(c.id) /\ c.port # 0

\* Commands are numbered: the number of a start is its own until it is answered.
Numbered(c) == c.kind \in {"start", "update"}
InstancesNumbered ==
    /\ \A id \in MockIds : /\ runningMocks[id] <= mockSent /\ registry[id].start <= mockSent /\ registry[id].seq <= mockSent
                           /\ registry[id].start = 0 => registry[id] = NoInstance
    /\ \A l \in listeners : l.start # 0 /\ l.start <= mockSent
CallsNumbered == \A c \in mockCalls : c.of <= mockSent /\ (Numbered(c) => c.n # 0 /\ c.n <= mockSent)
OwnNumbers == \A c, d \in mockCalls : Numbered(c) /\ Numbered(d) /\ c.n = d.n => c = d
NumbersFit == InstancesNumbered /\ CallsNumbered /\ OwnNumbers

StartsFit ==
    \A c \in mockCalls : c.kind = "start" =>
      /\ \A d \in mockCalls : d.of # c.n
      /\ \A id \in MockIds : runningMocks[id] # c.n /\ (registry[id].start = c.n => c.phase = "done" /\ id = c.id)
      /\ c.phase = "done" => registry[c.id].start = c.n \/ c.id \in crossed
      /\ c.phase = "asked" => \A l \in listeners : l.start # c.n

\* A listener whose socket is closed is no longer the instance of a server.
ListenersFit ==
    \A l \in listeners : l.port = 0 =>
      /\ \A id \in MockIds : registry[id].start # l.start
      /\ \A c \in mockCalls : c.kind = "start" /\ c.n = l.start => c.phase \notin {"asked", "bound"}

\* An instance that was stopped does not come back, and leaves the list when
\* the stop is answered.
StopCallsFit ==
    \A c \in mockCalls : /\ c.kind = "stop for change" => changing = "stopping"
                         /\ c.kind = "stop" /\ c.phase # "asked" => registry[c.id].start # c.of
                         /\ c.kind = "stop" => c.of # 0
ListedFits ==
    changing # "stopping" =>
      \A id \in MockIds : registry[id] = NoInstance /\ runningMocks[id] # 0 /\ id \notin crossed =>
         \E c \in mockCalls : c.kind = "stop" /\ c.id = id /\ c.phase = "done"
StopsFit == StopCallsFit /\ ListedFits

\* While the project changes, an instance is missed, still being answered, or
\* about to be stopped.
StoppingFits ==
    changing = "stopping" => \A id \in MockIds : registry[id] # NoInstance =>
      \/ registry[id].start \in missed
      \/ \E c \in mockCalls : c.kind = "start" /\ c.n = registry[id].start
      \/ \E c \in mockCalls : c.kind = "stop for change" /\ c.id = id

TimerFits == \A id \in MockIds : bench = id /\ runningMocks[id] # 0 => latestMock[id] \in {NoTimer, Current[id].routes}

\* The routes on the screen reach the instance: a timer holds them, the newest
\* command carries them, or the newest command has brought them.
UpdatesOf(id) == {c \in mockCalls : c.kind = "update" /\ c.id = id}
Serving(id) ==
    /\ bench = id /\ runningMocks[id] # 0 /\ registry[id].start = runningMocks[id] /\ ValidRoutes(Current[id].routes)
    /\ \A c \in mockCalls : c.kind = "stop" /\ c.id = id => c.of # runningMocks[id]
EditsArrive ==
    \A id \in MockIds : Serving(id) =>
      \/ latestMock[id] = Current[id].routes
      \/ \E c \in UpdatesOf(id) : /\ c.routes = Current[id].routes /\ c.n >= registry[id].seq
                                  /\ \A d \in UpdatesOf(id) : d.n <= c.n
      \/ /\ \A d \in UpdatesOf(id) : d.n < registry[id].seq
         /\ registry[id].late \/ registry[id].routes = Current[id].routes
MockInv == /\ MockTypeOK /\ ServersFit /\ NumbersFit /\ StartsFit /\ ListenersFit /\ StopsFit
           /\ StoppingFits /\ OrphansHaveCause /\ TimerFits /\ EditsArrive

LEMMA MockHolds == MockInv => MocksSound
<1> SUFFICES ASSUME MockInv PROVE MocksSound
  OBVIOUS
<1>1. ServesEdits
  <2> SUFFICES ASSUME NEW id \in MockIds, bench = id, ~StopUnderWay(id), runningMocks[id] # 0,
                      registry[id].start = runningMocks[id], ValidRoutes(Current[id].routes), ~registry[id].late
               PROVE  \/ registry[id].routes = Current[id].routes
                      \/ latestMock[id] = Current[id].routes
                      \/ \E c \in mockCalls : c.kind = "update" /\ c.id = id /\ c.routes = Current[id].routes
    BY DEF ServesEdits
  <2>1. Serving(id)
    BY DEF Serving, StopUnderWay
  <2> QED
    BY <2>1 DEF MockInv, EditsArrive, UpdatesOf
<1>2. ListedIsRegistered
  BY DEF MockInv, StopsFit, StopCallsFit, ListedFits, ListedIsRegistered, StopUnderWay
<1> QED
  BY <1>1, <1>2 DEF MocksSound, MockInv

LEMMA MockStarts == MockInit => MockInv
<1> SUFFICES ASSUME MockInit PROVE MockInv
  OBVIOUS
<1>1. mockProject \in MockProjects
  BY MockAssumptions DEF MockInit
<1>2. NoTimer \in SUBSET Routes /\ NoMock \in Servers /\ [port |-> 4010, routes |-> {}] \in Servers
      /\ NoInstance \in Instances /\ NoInstance.start = 0 /\ NoInstance.seq = 0 /\ NoMock.port = 0
  <2>1. NoTimer \in SUBSET Routes
    BY DEF NoTimer, Routes
  <2>2. NoMock \in Servers /\ [port |-> 4010, routes |-> {}] \in Servers /\ NoMock.port = 0
    BY DEF NoMock, Servers
  <2>3. NoInstance \in Instances /\ NoInstance.start = 0 /\ NoInstance.seq = 0
    BY DEF NoInstance, Instances
  <2> QED
    BY <2>1, <2>2, <2>3
<1>3. mocks \in [MockProjects -> [MockIds -> Servers]]
      /\ \A p \in MockProjects, id \in MockIds : mocks[p][id] \in {NoMock, [port |-> 4010, routes |-> {}]}
  BY <1>2 DEF MockInit
<1>4. MockTypeOK
  <2>1. latestMock \in [MockIds -> SUBSET Routes] /\ registry \in [MockIds -> Instances]
        /\ runningMocks \in [MockIds -> Nat]
    BY <1>2 DEF MockInit
  <2>2. /\ mockCalls = {} /\ listeners = {} /\ changing = "no" /\ generatingMock = FALSE
        /\ mockEdits = 0 /\ mockSent = 0 /\ bench = Unmounted
    BY DEF MockInit
  <2> QED
    BY <1>1, <1>3, <2>1, <2>2 DEF MockTypeOK
<1>5. ServersFit
  BY <1>3 DEF MockInit, ServersFit
<1>6. NumbersFit /\ StartsFit /\ ListenersFit /\ StopsFit
  BY <1>2 DEF MockInit, NumbersFit, InstancesNumbered, CallsNumbered, OwnNumbers, StartsFit, ListenersFit, StopsFit, StopCallsFit, ListedFits
<1>7. StoppingFits /\ OrphansHaveCause /\ TimerFits /\ EditsArrive
  BY DEF MockInit, StoppingFits, OrphansHaveCause, TimerFits, EditsArrive, Serving
<1> QED
  BY <1>4, <1>5, <1>6, <1>7 DEF MockInv

-----------------------------------------------------------------------------
(* A free port: one server cannot use two of the ports.                    *)
LEMMA LeastPort ==
  ASSUME NEW S \in SUBSET Nat, S # {}
  PROVE  \E i \in S : \A j \in S : i <= j
<1>1. PICK i \in S : \A j \in S : ~ (<<j, i>> \in OpToRel(<, Nat))
  BY WFMin, NatLessThanWellFounded, Zenon
<1>2. \A j \in S : ~ (j < i)
  BY <1>1, Zenon DEF OpToRel
<1> QED
  BY <1>2

LEMMA PortsCount == IsFiniteSet(Ports) /\ Cardinality(Ports) = Cardinality(MockIds) + 1 /\ Ports \subseteq Nat \ {0}
<1> DEFINE k == Cardinality(MockIds)
<1>1. k \in Nat
  BY MockAssumptions, FS_CardinalityType
<1> HIDE DEF k
<1>2. Ports = 4010..(4010 + k)
  <2>1. Ports = {4010 + n : n \in 0..k}
    BY DEF Ports, k
  <2>2. \A p \in 4010..(4010 + k) : p - 4010 \in 0..k /\ p = 4010 + (p - 4010)
    BY <1>1
  <2>3. \A n \in 0..k : 4010 + n \in 4010..(4010 + k)
    BY <1>1
  <2> QED
    BY <2>1, <2>2, <2>3
<1>3. IsFiniteSet(4010..(4010 + k)) /\ Cardinality(4010..(4010 + k)) = k + 1
  <2>1. 4010 \in Int /\ 4010 + k \in Int /\ ~(4010 > 4010 + k) /\ (4010 + k) - 4010 + 1 = k + 1
    BY <1>1
  <2> QED
    BY <2>1, FS_Interval
<1>4. Ports \subseteq Nat \ {0}
  BY <1>1, <1>2
<1> QED
  BY <1>2, <1>3, <1>4 DEF k

LEMMA PortIsFree == MockTypeOK => NextMockPort \in Nat \ {0}
<1> SUFFICES ASSUME MockTypeOK PROVE NextMockPort \in Nat \ {0}
  OBVIOUS
<1> DEFINE free == {p \in Ports : \A id \in MockIds : Current[id].port # p}
<1>1. free # {}
  <2> SUFFICES ASSUME free = {} PROVE FALSE
    OBVIOUS
  <2> DEFINE user == [p \in Ports |-> CHOOSE id \in MockIds : Current[id].port = p]
  <2>1. \A p \in Ports : user[p] \in MockIds /\ Current[user[p]].port = p
    OBVIOUS
  <2>2. user \in [Ports -> MockIds]
    BY <2>1
  <2>3. IsFiniteSet(MockIds) /\ Cardinality(MockIds) \in Nat
    BY MockAssumptions, FS_CardinalityType
  <2>4. Cardinality(MockIds) < Cardinality(Ports)
    BY <2>3, PortsCount
  <2>5. PICK x, y \in Ports : x # y /\ user[x] = user[y]
    <3>1. IsFiniteSet(Ports) /\ IsFiniteSet(MockIds)
      BY <2>3, PortsCount
    <3>2. \A f \in [Ports -> MockIds] : \E x, y \in Ports : x # y /\ f[x] = f[y]
      BY <2>4, <3>1, FS_PigeonHole
    <3> QED
      BY <2>2, <3>2
  <2> QED
    BY <2>1, <2>5
<1>2. free \subseteq Nat
  BY PortsCount
<1>3. PICK p \in free : \A q \in free : p <= q
  BY <1>1, <1>2, LeastPort
<1>4. \A q \in Ports : q < p => \E id \in MockIds : Current[id].port = q
  BY <1>2, <1>3, PortsCount
<1>5. NextMockPort \in Ports
  BY <1>3, <1>4 DEF NextMockPort
<1> QED
  BY <1>5, PortsCount

-----------------------------------------------------------------------------
(* What the window does on its own: edits, opened servers, new servers.    *)

\* The shown server's routes are in its timer, or nothing about it changed.
ShownFits ==
    \A id \in MockIds : bench' = id /\ runningMocks[id] # 0 =>
      \/ latestMock'[id] = (Current[id].routes)'
      \/ bench = id /\ latestMock'[id] = latestMock[id] /\ (Current[id].routes)' = Current[id].routes

LEMMA ScreenStep ==
  ASSUME MockInv, MockTypeOK', ShownFits,
         UNCHANGED <<runningMocks, mockCalls, registry, listeners, missed, crossed, mockSent>>,
         changing' = changing \/ (changing = "stopped" /\ changing' = "no"),
         \A p \in MockProjects, id \in MockIds :
            /\ mocks[p][id] # NoMock => mocks'[p][id] # NoMock
            /\ mocks'[p][id] # NoMock => mocks'[p][id].port # 0,
         bench' # Unmounted => Exists(bench)'
  PROVE  MockInv'
<1>1. ServersFit'
  <2>1. \A id \in MockIds : Known(id) => Known(id)'
    BY DEF Known
  <2>2. (\A id \in MockIds : runningMocks[id] # 0 => Known(id))'
    BY <2>1 DEF MockInv, ServersFit
  <2>3. (\A c \in mockCalls : c.kind = "start" => Known(c.id) /\ c.port # 0)'
    BY <2>1 DEF MockInv, ServersFit, MockTypeOK, MockCalls
  <2> QED
    BY <2>2, <2>3 DEF ServersFit
<1>2. NumbersFit' /\ StartsFit'
  BY DEF MockInv, NumbersFit, InstancesNumbered, CallsNumbered, OwnNumbers, StartsFit, Numbered
<1>3. ListenersFit' /\ StopsFit'
  BY DEF MockInv, ListenersFit, StopsFit, StopCallsFit, ListedFits
<1>4. StoppingFits' /\ OrphansHaveCause'
  BY DEF MockInv, StoppingFits, OrphansHaveCause
<1>5. TimerFits'
  BY DEF MockInv, TimerFits, ShownFits
<1>6. EditsArrive'
  <2> SUFFICES ASSUME NEW id \in MockIds, Serving(id)', latestMock'[id] # (Current[id].routes)'
               PROVE  (\/ \E c \in UpdatesOf(id) : /\ c.routes = Current[id].routes /\ c.n >= registry[id].seq
                                                   /\ \A d \in UpdatesOf(id) : d.n <= c.n
                       \/ /\ \A d \in UpdatesOf(id) : d.n < registry[id].seq
                          /\ registry[id].late \/ registry[id].routes = Current[id].routes)'
    BY DEF EditsArrive
  <2>1. bench = id /\ latestMock'[id] = latestMock[id] /\ (Current[id].routes)' = Current[id].routes
    BY DEF Serving, ShownFits
  <2>2. Serving(id)
    BY <2>1 DEF Serving
  <2>3. UpdatesOf(id)' = UpdatesOf(id)
    BY DEF UpdatesOf
  <2> QED
    BY <2>1, <2>2, <2>3 DEF MockInv, EditsArrive
<1> QED
  BY <1>1, <1>2, <1>3, <1>4, <1>5, <1>6 DEF MockInv

\* A server written over the one of this id.
LEMMA ServerWritten ==
  ASSUME MockTypeOK, ServersFit, NEW id \in MockIds, NEW s \in Servers, s.port # 0,
         mocks' = [mocks EXCEPT ![mockProject][id] = s]
  PROVE  /\ mocks' \in [MockProjects -> [MockIds -> Servers]]
         /\ \A p \in MockProjects, j \in MockIds :
              mocks'[p][j] = IF p = mockProject /\ j = id THEN s ELSE mocks[p][j]
         /\ \A p \in MockProjects, j \in MockIds :
              /\ mocks[p][j] # NoMock => mocks'[p][j] # NoMock
              /\ mocks'[p][j] # NoMock => mocks'[p][j].port # 0
<1>1. mocks \in [MockProjects -> [MockIds -> Servers]] /\ mockProject \in MockProjects
  BY DEF MockTypeOK
<1>2. \A p \in MockProjects, j \in MockIds :
              mocks'[p][j] = IF p = mockProject /\ j = id THEN s ELSE mocks[p][j]
  BY <1>1
<1>3. mocks' \in [MockProjects -> [MockIds -> Servers]]
  BY <1>1
<1>4. s # NoMock
  BY DEF NoMock
<1> QED
  BY <1>2, <1>3, <1>4 DEF ServersFit

LEMMA RouteTyped == MockTypeOK => \A place \in Places : MockRoute(place) \in Routes
BY DEF MockTypeOK, MockRoute, Routes

LEMMA RoutesSet ==
  ASSUME MockInv, NEW routes \in SUBSET Routes, bench # Unmounted, SetRoutes(routes)
  PROVE  MockInv'
<1> DEFINE old == mocks[mockProject][bench]
           s == [port |-> old.port, routes |-> routes]
<1>1. MockTypeOK /\ ServersFit /\ bench \in MockIds /\ mockProject \in MockProjects
      /\ mocks \in [MockProjects -> [MockIds -> Servers]]
  BY DEF MockInv, MockTypeOK
<1>2. old \in Servers /\ old.port # 0
  BY <1>1 DEF ServersFit, Exists, Current
<1>3. s \in Servers /\ s.port # 0 /\ s.routes = routes /\ [old EXCEPT !.routes = routes] = s
  BY <1>2 DEF Servers
<1>4. mocks' = [mocks EXCEPT ![mockProject][bench] = s]
  <2>1. mocks' = [mocks EXCEPT ![mockProject][bench].routes = routes]
    BY DEF SetRoutes
  <2>2. mocks' = [mocks EXCEPT ![mockProject] = [mocks[mockProject] EXCEPT ![bench] = [old EXCEPT !.routes = routes]]]
    BY <1>1, <2>1
  <2> QED
    BY <1>1, <1>3, <2>2
<1> HIDE DEF s
<1>5. /\ mocks' \in [MockProjects -> [MockIds -> Servers]]
      /\ \A p \in MockProjects, j \in MockIds :
           mocks'[p][j] = IF p = mockProject /\ j = bench THEN s ELSE mocks[p][j]
      /\ \A p \in MockProjects, j \in MockIds :
           /\ mocks[p][j] # NoMock => mocks'[p][j] # NoMock
           /\ mocks'[p][j] # NoMock => mocks'[p][j].port # 0
  BY <1>1, <1>3, <1>4, ServerWritten
<1>6. latestMock' = SyncEffect(bench, routes, runningMocks)
      /\ UNCHANGED <<mockProject, bench, runningMocks, mockCalls, registry, listeners, changing,
                   generatingMock, mockSent, mockChanges, missed, crossed>> /\ mockEdits' = mockEdits + 1
  BY DEF SetRoutes
<1>7. latestMock' \in [MockIds -> SUBSET Routes] /\ (runningMocks[bench] # 0 => latestMock'[bench] = routes)
  BY <1>1, <1>6 DEF SyncEffect, MockTypeOK
<1>8. MockTypeOK'
  BY <1>1, <1>5, <1>6, <1>7 DEF MockTypeOK
<1>9. ShownFits
  BY <1>1, <1>3, <1>5, <1>6, <1>7 DEF ShownFits, Current
<1>10. Exists(bench)'
  BY <1>1, <1>5, <1>6 DEF Exists, Current, MockInv, ServersFit
<1> QED
  BY <1>5, <1>6, <1>8, <1>9, <1>10, ScreenStep

LEMMA EditSteps == MockInv /\ (AddRoute \/ UpdateRoute \/ DeleteRoute) => MockInv'
<1> SUFFICES ASSUME MockInv, AddRoute \/ UpdateRoute \/ DeleteRoute PROVE MockInv'
  OBVIOUS
<1>1. MockTypeOK /\ bench # Unmounted /\ Current[bench].routes \in SUBSET Routes /\ mockEdits + 1 \in Nat
  <2>1. bench # Unmounted
    BY DEF AddRoute, UpdateRoute, DeleteRoute
  <2>2. MockTypeOK /\ bench \in MockIds /\ mockProject \in MockProjects /\ mockEdits + 1 \in Nat
    BY <2>1 DEF MockInv, MockTypeOK
  <2>3. mocks[mockProject][bench] \in Servers
    BY <2>2 DEF MockTypeOK
  <2> QED
    BY <2>1, <2>2, <2>3 DEF Current, Servers
<1>2. CASE AddRoute
  <2>1. PICK place \in Places : SetRoutes(Current[bench].routes \cup {MockRoute(place)})
    BY <1>2 DEF AddRoute
  <2> QED
    BY <1>1, <2>1, RouteTyped, RoutesSet
<1>3. CASE UpdateRoute
  <2>1. PICK r \in Current[bench].routes, place \in Places :
          SetRoutes((Current[bench].routes \ {r}) \cup {[r EXCEPT !.at = place, !.content = mockEdits + 1]})
    BY <1>3 DEF UpdateRoute
  <2>2. [r EXCEPT !.at = place, !.content = mockEdits + 1] \in Routes
    BY <1>1 DEF Routes
  <2> QED
    BY <1>1, <2>1, <2>2, RoutesSet
<1>4. CASE DeleteRoute
  <2>1. PICK r \in Current[bench].routes : SetRoutes(Current[bench].routes \ {r})
    BY <1>4 DEF DeleteRoute
  <2> QED
    BY <1>1, <2>1, RoutesSet
<1> QED
  BY <1>2, <1>3, <1>4

LEMMA ViewSteps == MockInv /\ (OpenBench \/ LeaveBench \/ AskGenerate \/ ProjectChanged) => MockInv'
<1> SUFFICES ASSUME MockInv, OpenBench \/ LeaveBench \/ AskGenerate \/ ProjectChanged PROVE MockInv'
  OBVIOUS
<1>1. /\ UNCHANGED <<mocks, runningMocks, mockCalls, registry, listeners, missed, crossed, mockEdits, mockSent>>
      /\ changing' = changing \/ (changing = "stopped" /\ changing' = "no")
      /\ generatingMock' \in {TRUE, generatingMock}
  BY DEF OpenBench, LeaveBench, AskGenerate, ProjectChanged
<1>2. /\ mockProject' \in MockProjects
      /\ \/ UNCHANGED <<mockProject, bench, latestMock>>
         \/ bench' = Unmounted /\ latestMock' = [id \in MockIds |-> NoTimer]
         \/ /\ mockProject' = mockProject /\ bench' \in MockIds /\ Exists(bench')
            /\ latestMock' = SyncEffect(bench', Current[bench'].routes, runningMocks)
  BY DEF OpenBench, LeaveBench, AskGenerate, ProjectChanged, MockInv, MockTypeOK
<1>3. MockTypeOK /\ NoTimer \in SUBSET Routes /\ Unmounted \notin MockIds
  BY MockAssumptions DEF MockInv, NoTimer, Routes, Unmounted
<1>4. /\ latestMock' \in [MockIds -> SUBSET Routes]
      /\ \/ UNCHANGED <<mockProject, bench, latestMock>>
         \/ bench' = Unmounted
         \/ /\ mockProject' = mockProject /\ bench' \in MockIds /\ Exists(bench')
            /\ (runningMocks[bench'] # 0 => latestMock'[bench'] = Current[bench'].routes)
  BY <1>2, <1>3 DEF MockTypeOK, SyncEffect, Current, Servers
<1>5. MockTypeOK'
  BY <1>1, <1>2, <1>4 DEF MockInv, MockTypeOK
<1>6. ShownFits
  BY <1>1, <1>3, <1>4 DEF ShownFits, Current
<1>7. bench' # Unmounted => Exists(bench)'
  BY <1>1, <1>4 DEF MockInv, ServersFit, Exists, Current
<1>8. \A p \in MockProjects, id \in MockIds : mocks[p][id] # NoMock => mocks[p][id].port # 0
  BY DEF MockInv, ServersFit
<1> QED
  BY <1>1, <1>5, <1>6, <1>7, <1>8, ScreenStep

\* A server of a new id does not run.
LEMMA NewServerAdded ==
  ASSUME MockInv, NEW id \in MockIds, NEW s \in Servers, s.port # 0,
         \A p \in MockProjects : mocks[p][id] = NoMock,
         mocks' = [mocks EXCEPT ![mockProject][id] = s], bench' = id,
         mockEdits' \in Nat, generatingMock' \in BOOLEAN,
         UNCHANGED <<mockProject, runningMocks, latestMock, mockCalls, registry, listeners,
                     changing, mockSent, missed, crossed>>
  PROVE  MockInv'
<1>1. MockTypeOK /\ ServersFit /\ mockProject \in MockProjects /\ s # NoMock
  BY DEF MockInv, MockTypeOK, NoMock
<1>2. /\ mocks' \in [MockProjects -> [MockIds -> Servers]]
      /\ \A p \in MockProjects, j \in MockIds :
           mocks'[p][j] = IF p = mockProject /\ j = id THEN s ELSE mocks[p][j]
      /\ \A p \in MockProjects, j \in MockIds :
           /\ mocks[p][j] # NoMock => mocks'[p][j] # NoMock
           /\ mocks'[p][j] # NoMock => mocks'[p][j].port # 0
  BY <1>1, ServerWritten
<1>3. runningMocks[id] = 0
  BY <1>1 DEF ServersFit, Known
<1>4. MockTypeOK'
  BY <1>1, <1>2 DEF MockTypeOK
<1>5. ShownFits
  BY <1>3 DEF ShownFits
<1>6. Exists(bench)'
  BY <1>1, <1>2 DEF Exists, Current
<1> QED
  BY <1>2, <1>4, <1>5, <1>6, ScreenStep

LEMMA CreateSteps == MockInv /\ (CreateMock \/ GenerateReturns) => MockInv'
<1> SUFFICES ASSUME MockInv, CreateMock \/ GenerateReturns PROVE MockInv'
  OBVIOUS
<1>1. MockTypeOK /\ mockEdits + 1 \in Nat /\ mockEdits \in Nat /\ generatingMock \in BOOLEAN
  BY DEF MockInv, MockTypeOK
<1>2. CASE CreateMock
  <2> DEFINE s == [port |-> 4010, routes |-> {}]
  <2>1. PICK id \in MockIds :
          /\ \A p \in MockProjects : mocks[p][id] = NoMock
          /\ mocks' = [mocks EXCEPT ![mockProject][id] = s]
          /\ bench' = id
    BY <1>2 DEF CreateMock
  <2>2. s \in Servers /\ s.port # 0
    BY DEF Servers
  <2>3. UNCHANGED <<mockProject, runningMocks, latestMock, mockCalls, registry, listeners,
                   changing, generatingMock, mockEdits, mockSent, missed, crossed>>
    BY <1>2 DEF CreateMock
  <2> HIDE DEF s
  <2> QED
    BY <1>1, <2>1, <2>2, <2>3, NewServerAdded
<1>3. CASE GenerateReturns
  <2>1. UNCHANGED <<mockProject, latestMock, runningMocks, mockCalls, registry, listeners, changing,
                    mockSent, missed, crossed>> /\ generatingMock' = FALSE
    BY <1>3 DEF GenerateReturns
  <2>2. CASE UNCHANGED <<mocks, bench, latestMock, mockEdits>>
    <3>1. MockTypeOK'
      BY <1>1, <2>1, <2>2 DEF MockTypeOK
    <3>2. ShownFits
      BY <2>1, <2>2 DEF ShownFits, Current
    <3>3. bench' # Unmounted => Exists(bench)'
      BY <2>1, <2>2 DEF MockInv, ServersFit, Exists, Current
    <3>4. \A p \in MockProjects, id \in MockIds : mocks[p][id] # NoMock => mocks[p][id].port # 0
      BY DEF MockInv, ServersFit
    <3> QED
      BY <2>1, <2>2, <3>1, <3>2, <3>3, <3>4, ScreenStep
  <2>3. CASE ~UNCHANGED <<mocks, bench, latestMock, mockEdits>>
    <3>1. PICK id \in MockIds, port \in Ports :
             /\ \A p \in MockProjects : mocks[p][id] = NoMock
             /\ mocks' = [mocks EXCEPT ![mockProject][id] = [port |-> port, routes |-> {MockRoute("/a")}]]
             /\ bench' = id
      BY <1>3, <2>3 DEF GenerateReturns
    <3>2. mockEdits' = mockEdits + 1
      BY <1>3, <2>3 DEF GenerateReturns
    <3> DEFINE s == [port |-> port, routes |-> {MockRoute("/a")}]
    <3>3. s \in Servers /\ s.port # 0
      <4>1. MockRoute("/a") \in Routes
        BY <1>1, RouteTyped DEF Places
      <4>2. port \in Nat /\ port # 0
        BY PortsCount
      <4> QED
        BY <4>1, <4>2 DEF Servers
    <3>4. mocks' = [mocks EXCEPT ![mockProject][id] = s]
      BY <3>1
    <3> HIDE DEF s
    <3> QED
      BY <1>1, <2>1, <3>1, <3>2, <3>3, <3>4, NewServerAdded
  <2> QED
    BY <2>2, <2>3
<1> QED
  BY <1>2, <1>3

-----------------------------------------------------------------------------
(* Commands are sent.                                                      *)

LEMMA NumberTyped == MockTypeOK => mockSent \in Nat /\ mockSent + 1 \in Nat
<1> SUFFICES ASSUME mockSent \in Nat PROVE mockSent + 1 \in Nat
  BY DEF MockTypeOK
<1> QED
  OBVIOUS

LEMMA CallFields ==
  ASSUME MockTypeOK, NEW what \in {"start", "stop", "update", "stop for change"}, NEW id \in MockIds,
         NEW routes \in SUBSET Routes, NEW port \in Nat
  PROVE  [kind |-> what, id |-> id, n |-> mockSent + 1, routes |-> routes, port |-> port,
          phase |-> "asked", of |-> runningMocks[id]] \in MockCalls
<1>1. runningMocks[id] \in Nat
  BY DEF MockTypeOK
<1> QED
  BY <1>1, NumberTyped DEF MockCalls

\* A command with other routes and another port, or of another kind.
Carrying(c, routes, port) == [c EXCEPT !.routes = routes, !.port = port]

LEMMA CallCarries ==
  ASSUME NEW c \in MockCalls, NEW routes \in SUBSET Routes, NEW port \in Nat
  PROVE  /\ Carrying(c, routes, port) \in MockCalls /\ Carrying(c, routes, port).port = port
         /\ Carrying(c, routes, port).kind = c.kind /\ Carrying(c, routes, port).id = c.id
         /\ Carrying(c, routes, port).n = c.n /\ Carrying(c, routes, port).phase = c.phase
         /\ Carrying(c, routes, port).of = c.of
BY DEF MockCalls, Carrying

LEMMA CallRenamed ==
  ASSUME NEW c \in MockCalls, NEW what \in {"start", "stop", "update", "stop for change"}
  PROVE  LET d == [c EXCEPT !.kind = what] IN
         d \in MockCalls /\ d.kind = what /\ d.id = c.id /\ d.n = c.n /\ d.phase = c.phase /\ d.of = c.of
BY DEF MockCalls

LEMMA CallAsked ==
  ASSUME MockTypeOK, NEW what \in {"start", "stop", "update", "stop for change"}, NEW id \in MockIds
  PROVE  LET c == MockCall(what, id) IN
         c \in MockCalls /\ c.kind = what /\ c.id = id /\ c.n = mockSent + 1 /\ c.phase = "asked"
            /\ c.of = runningMocks[id]
BY CallFields DEF MockCall

LEMMA CallSent ==
  ASSUME MockInv, NEW c \in MockCalls, mockCalls' = mockCalls \cup {c}, mockSent' = mockSent + 1,
         c.kind \in {"start", "stop", "update"}, c.phase = "asked", c.n = mockSent + 1,
         c.of = runningMocks[c.id], c.kind = "stop" => c.of # 0,
         UNCHANGED <<runningMocks, registry, listeners, missed, crossed, changing>>
  PROVE  NumbersFit' /\ StartsFit' /\ ListenersFit' /\ StopsFit' /\ StoppingFits' /\ OrphansHaveCause'
<1>1. MockTypeOK /\ NumbersFit /\ mockSent \in Nat /\ c.id \in MockIds /\ c.of \in Nat /\ c.of <= mockSent
  BY DEF MockInv, MockTypeOK, NumbersFit, InstancesNumbered, CallsNumbered, OwnNumbers, MockCalls
<1>2. /\ \A d \in mockCalls : d.n \in Nat /\ d.of \in Nat /\ d.of <= mockSent
      /\ \A d \in mockCalls : Numbered(d) => d.n # 0 /\ d.n <= mockSent
      /\ \A id \in MockIds : /\ runningMocks[id] \in Nat /\ runningMocks[id] <= mockSent
                             /\ registry[id].start \in Nat /\ registry[id].start <= mockSent
                             /\ registry[id].seq \in Nat /\ registry[id].seq <= mockSent
      /\ \A l \in listeners : l.start \in Nat /\ l.start <= mockSent
  <2>1. \A d \in mockCalls : d.n \in Nat /\ d.of \in Nat
    BY <1>1 DEF MockTypeOK, MockCalls
  <2>2. \A id \in MockIds : runningMocks[id] \in Nat /\ registry[id].start \in Nat /\ registry[id].seq \in Nat
    BY <1>1 DEF MockTypeOK, Instances
  <2>3. \A l \in listeners : l.start \in Nat
    BY <1>1 DEF MockTypeOK
  <2> QED
    BY <1>1, <2>1, <2>2, <2>3 DEF NumbersFit, InstancesNumbered, CallsNumbered, OwnNumbers
<1>3. NumbersFit'
  <2>1. InstancesNumbered'
    BY <1>1, <1>2 DEF NumbersFit, InstancesNumbered
  <2>2. CallsNumbered'
    <3>1. c.of <= mockSent + 1 /\ c.n # 0 /\ c.n <= mockSent + 1
      BY <1>1
    <3>2. \A d \in mockCalls : d.of <= mockSent + 1 /\ (Numbered(d) => d.n # 0 /\ d.n <= mockSent + 1)
      BY <1>1, <1>2
    <3> QED
      BY <3>1, <3>2 DEF CallsNumbered, Numbered
  <2>3. OwnNumbers'
    BY <1>1, <1>2 DEF NumbersFit, OwnNumbers, Numbered
  <2> QED
    BY <2>1, <2>2, <2>3 DEF NumbersFit
<1>4. \A d \in mockCalls : d.kind = "start" => d.n <= mockSent
  BY <1>2 DEF Numbered
<1>5. StartsFit'
  <2> SUFFICES ASSUME NEW d \in mockCalls', d.kind = "start"
               PROVE  /\ \A b \in mockCalls' : b.of # d.n
                      /\ \A id \in MockIds : runningMocks[id] # d.n /\ (registry[id].start = d.n => d.phase = "done" /\ id = d.id)
                      /\ d.phase = "done" => registry[d.id].start = d.n \/ d.id \in crossed
                      /\ d.phase = "asked" => \A l \in listeners : l.start # d.n
    BY DEF StartsFit
  <2>1. CASE d = c
    BY <1>1, <1>2, <2>1
  <2>2. CASE d \in mockCalls
    BY <1>1, <2>2 DEF MockInv, StartsFit
  <2> QED
    BY <2>1, <2>2
<1>6. ListenersFit'
  <2>1. \A l \in listeners : l.start # c.n
    BY <1>1, <1>2
  <2> QED
    BY <2>1 DEF MockInv, ListenersFit
<1>7. StopsFit'
  BY DEF MockInv, StopsFit, StopCallsFit, ListedFits
<1>8. StoppingFits' /\ OrphansHaveCause'
  BY DEF MockInv, StoppingFits, OrphansHaveCause
<1> QED
  BY <1>3, <1>5, <1>6, <1>7, <1>8

LEMMA TimerSends == MockInv /\ SyncTimerFires => MockInv'
<1> SUFFICES ASSUME MockInv, SyncTimerFires PROVE MockInv'
  OBVIOUS
<1>1. PICK id \in MockIds :
          /\ latestMock[id] # NoTimer
          /\ latestMock' = [latestMock EXCEPT ![id] = NoTimer]
          /\ mockCalls' = mockCalls \cup {[MockCall("update", id) EXCEPT !.routes = latestMock[id]]}
  BY DEF SyncTimerFires
<1>2. mockSent' = mockSent + 1
      /\ UNCHANGED <<mocks, mockProject, bench, runningMocks, registry, listeners, changing,
                   generatingMock, mockEdits, mockChanges, missed, crossed>>
  BY DEF SyncTimerFires
<1> DEFINE c == [kind |-> "update", id |-> id, n |-> mockSent + 1, routes |-> latestMock[id], port |-> 0,
                phase |-> "asked", of |-> runningMocks[id]]
<1>3. MockTypeOK /\ mockSent \in Nat /\ runningMocks[id] \in Nat /\ latestMock[id] \in SUBSET Routes
  BY DEF MockInv, MockTypeOK
<1>4. c \in MockCalls /\ c.kind = "update" /\ c.id = id /\ c.phase = "asked" /\ c.n = mockSent + 1
      /\ c.of = runningMocks[id] /\ c.routes = latestMock[id]
  BY <1>3, CallFields
<1>5. mockCalls' = mockCalls \cup {c}
  BY <1>1 DEF MockCall
<1> HIDE DEF c
<1>6. NumbersFit' /\ StartsFit' /\ ListenersFit' /\ StopsFit' /\ StoppingFits' /\ OrphansHaveCause'
  BY <1>2, <1>4, <1>5, CallSent
<1>7. NoTimer \in SUBSET Routes
  BY DEF NoTimer, Routes
<1>8. MockTypeOK'
  BY <1>1, <1>2, <1>3, <1>4, <1>5, <1>7 DEF MockTypeOK
<1>9. ServersFit'
  BY <1>2, <1>4, <1>5 DEF MockInv, ServersFit, Known, Exists, Current
<1>10. TimerFits'
  BY <1>1, <1>2, <1>3 DEF MockInv, TimerFits, Current, MockTypeOK
<1>11. EditsArrive'
  <2> SUFFICES ASSUME NEW j \in MockIds, Serving(j)'
               PROVE  (\/ latestMock[j] = Current[j].routes
                       \/ \E e \in UpdatesOf(j) : /\ e.routes = Current[j].routes /\ e.n >= registry[j].seq
                                                  /\ \A d \in UpdatesOf(j) : d.n <= e.n
                       \/ /\ \A d \in UpdatesOf(j) : d.n < registry[j].seq
                          /\ registry[j].late \/ registry[j].routes = Current[j].routes)'
    BY DEF EditsArrive
  <2>1. Serving(j) /\ Current' = Current
    BY <1>2, <1>5 DEF Serving, Current
  <2>2. CASE j = id
    <3>1. c.routes = Current[j].routes
      BY <1>1, <1>4, <2>1, <2>2 DEF MockInv, TimerFits, Serving
    <3>2. c.n >= registry[j].seq
      BY <1>3, <1>4 DEF MockInv, NumbersFit, InstancesNumbered, CallsNumbered, OwnNumbers, MockTypeOK, Instances
    <3>3. \A d \in UpdatesOf(j)' : d.n <= c.n
      <4>1. \A d \in mockCalls : d.kind = "update" => d.n \in Nat /\ d.n <= mockSent
        BY <1>3 DEF MockInv, NumbersFit, InstancesNumbered, CallsNumbered, OwnNumbers, Numbered, MockTypeOK, MockCalls
      <4> QED
        BY <1>3, <1>4, <1>5, <4>1 DEF UpdatesOf
    <3>4. c \in UpdatesOf(j)'
      BY <1>4, <1>5, <2>2 DEF UpdatesOf
    <3> QED
      BY <1>2, <2>1, <3>1, <3>2, <3>3, <3>4
  <2>3. CASE j # id
    <3>1. UpdatesOf(j)' = UpdatesOf(j) /\ latestMock'[j] = latestMock[j]
      BY <1>1, <1>3, <1>4, <1>5, <2>3 DEF UpdatesOf, MockTypeOK
    <3> QED
      BY <1>2, <2>1, <3>1 DEF MockInv, EditsArrive
  <2> QED
    BY <2>2, <2>3
<1> QED
  BY <1>6, <1>8, <1>9, <1>10, <1>11 DEF MockInv

LEMMA ToggleSends == MockInv /\ ToggleServer => MockInv'
<1> SUFFICES ASSUME MockInv, ToggleServer PROVE MockInv'
  OBVIOUS
<1> DEFINE stop == MockCall("stop", bench)
           start == [MockCall("start", bench) EXCEPT !.routes = Current[bench].routes, !.port = Current[bench].port]
           c == IF runningMocks[bench] # 0 THEN stop ELSE start
<1>1. /\ bench # Unmounted /\ mockSent' = mockSent + 1
      /\ mockCalls' = mockCalls \cup {c}
      /\ latestMock' = IF runningMocks[bench] # 0 THEN [latestMock EXCEPT ![bench] = NoTimer] ELSE latestMock
      /\ UNCHANGED <<mocks, mockProject, bench, runningMocks, registry, listeners, changing,
                   generatingMock, mockEdits, mockChanges, missed, crossed>>
  <2>1. bench # Unmounted /\ mockSent' = mockSent + 1
        /\ UNCHANGED <<mocks, mockProject, bench, runningMocks, registry, listeners, changing,
                       generatingMock, mockEdits, mockChanges, missed, crossed>>
    BY DEF ToggleServer
  <2>4. /\ mockCalls' = mockCalls \cup {c}
        /\ latestMock' = IF runningMocks[bench] # 0 THEN [latestMock EXCEPT ![bench] = NoTimer] ELSE latestMock
    BY DEF ToggleServer
  <2> QED
    BY <2>1, <2>4
<1>2. MockTypeOK /\ bench \in MockIds /\ mockSent \in Nat /\ runningMocks[bench] \in Nat /\ mockProject \in MockProjects
  BY <1>1 DEF MockInv, MockTypeOK
<1>3. Current[bench] \in Servers /\ Current[bench] # NoMock /\ Current[bench].port # 0
  BY <1>1, <1>2 DEF MockInv, MockTypeOK, ServersFit, Exists, Current
<1>4. stop \in MockCalls /\ stop.kind = "stop" /\ stop.id = bench /\ stop.phase = "asked" /\ stop.n = mockSent + 1
      /\ stop.of = runningMocks[bench]
  BY <1>2, CallAsked
<1>5. start \in MockCalls /\ start.kind = "start" /\ start.id = bench /\ start.phase = "asked" /\ start.n = mockSent + 1
      /\ start.of = runningMocks[bench] /\ start.port # 0
  <2> DEFINE routes == Current[bench].routes
             port == Current[bench].port
  <2>1. routes \in SUBSET Routes /\ port \in Nat /\ port # 0
    BY <1>3 DEF Servers
  <2> HIDE DEF routes, port
  <2> DEFINE asked == MockCall("start", bench)
  <2>2. asked \in MockCalls /\ asked.kind = "start" /\ asked.id = bench /\ asked.n = mockSent + 1
        /\ asked.phase = "asked" /\ asked.of = runningMocks[bench]
    BY <1>2, CallAsked
  <2> HIDE DEF asked
  <2>3. start = Carrying(asked, routes, port)
    BY DEF Carrying, asked, routes, port
  <2> HIDE DEF start, c, stop
  <2> QED
    BY <2>1, <2>2, <2>3, CallCarries
<1> HIDE DEF stop, start
<1>6. /\ c \in MockCalls /\ c.id = bench /\ c.phase = "asked" /\ c.n = mockSent + 1 /\ c.of = runningMocks[bench]
      /\ c.kind = IF runningMocks[bench] # 0 THEN "stop" ELSE "start"
      /\ c.kind = "start" => c.port # 0
  BY <1>4, <1>5
<1> HIDE DEF c
<1>7. NumbersFit' /\ StartsFit' /\ ListenersFit' /\ StopsFit' /\ StoppingFits' /\ OrphansHaveCause'
  BY <1>1, <1>6, CallSent
<1>8. NoTimer \in SUBSET Routes
  BY DEF NoTimer, Routes
<1>9. MockTypeOK'
  BY <1>1, <1>2, <1>6, <1>8 DEF MockTypeOK
<1>10. ServersFit'
  <2>1. Known(bench)
    BY <1>2, <1>3 DEF Known, Current
  <2> QED
    BY <1>1, <1>6, <2>1 DEF MockInv, ServersFit, Known, Exists, Current
<1>11. TimerFits'
  BY <1>1, <1>2 DEF MockInv, TimerFits, Current, MockTypeOK
<1>12. EditsArrive'
  <2> SUFFICES ASSUME NEW j \in MockIds, Serving(j)'
               PROVE  (\/ latestMock[j] = Current[j].routes
                       \/ \E e \in UpdatesOf(j) : /\ e.routes = Current[j].routes /\ e.n >= registry[j].seq
                                                  /\ \A d \in UpdatesOf(j) : d.n <= e.n
                       \/ /\ \A d \in UpdatesOf(j) : d.n < registry[j].seq
                          /\ registry[j].late \/ registry[j].routes = Current[j].routes)'
    BY DEF EditsArrive
  <2>1. bench = j /\ runningMocks[j] # 0
    BY <1>1 DEF Serving
  <2>2. c \in mockCalls' /\ c.kind = "stop" /\ c.id = j /\ c.of = runningMocks[j]
    BY <1>1, <1>6, <2>1
  <2> QED
    BY <1>1, <2>2 DEF Serving
<1> QED
  BY <1>7, <1>9, <1>10, <1>11, <1>12 DEF MockInv

\* The server a response makes or changes.
LEMMA TargetServer ==
  ASSUME MockInv, NEW id \in MockIds, NEW s \in Targets(id)
  PROVE  s \in Servers /\ s.port # 0
<1>1. MockTypeOK /\ mockEdits + 1 \in Nat /\ Current[id] \in Servers
  BY DEF MockInv, MockTypeOK, Current
<1>2. CASE Exists(id)
  <2>1. PICK routes : /\ s = [port |-> Current[id].port, routes |-> routes]
                      /\ \/ \E place \in Places : routes = Current[id].routes \cup {MockRoute(place)}
                         \/ \E r \in Current[id].routes : routes = (Current[id].routes \ {r}) \cup {[r EXCEPT !.content = mockEdits + 1]}
    BY <1>2 DEF Targets, RouteTargets
  <2>2. \A r \in Current[id].routes : r \in Routes /\ [r EXCEPT !.content = mockEdits + 1] \in Routes
    BY <1>1 DEF Servers, Routes
  <2>3. routes \in SUBSET Routes
    BY <1>1, <2>1, <2>2, RouteTyped DEF Servers
  <2>4. Current[id].port \in Nat \ {0}
    BY <1>1, <1>2 DEF MockInv, ServersFit, Exists, Current, Servers, MockTypeOK
  <2> QED
    BY <2>1, <2>3, <2>4 DEF Servers
<1>3. CASE ~Exists(id)
  <2>1. s = [port |-> NextMockPort, routes |-> {MockRoute("/a")}]
    BY <1>3 DEF Targets, NewTargets
  <2>2. MockRoute("/a") \in Routes
    BY <1>1, RouteTyped DEF Places
  <2>3. NextMockPort \in Nat \ {0}
    BY <1>1, PortIsFree
  <2> QED
    BY <2>1, <2>2, <2>3 DEF Servers
<1> QED
  BY <1>2, <1>3

LEMMA ResponseApplied == MockInv /\ ApplyResponse => MockInv'
<1> SUFFICES ASSUME MockInv, ApplyResponse PROVE MockInv'
  OBVIOUS
<1>0. PICK id \in MockIds : \E s \in Targets(id) :
          /\ mocks' = [mocks EXCEPT ![mockProject][id] = s]
          /\ IF runningMocks[id] # 0
             THEN /\ mockSent' = mockSent + 1
                  /\ mockCalls' = mockCalls \cup {[MockCall("update", id) EXCEPT !.routes = s.routes]}
             ELSE UNCHANGED <<mockSent, mockCalls>>
  BY DEF ApplyResponse
<1>1. PICK s \in Targets(id) :
          /\ mocks' = [mocks EXCEPT ![mockProject][id] = s]
          /\ IF runningMocks[id] # 0
             THEN /\ mockSent' = mockSent + 1
                  /\ mockCalls' = mockCalls \cup {[MockCall("update", id) EXCEPT !.routes = s.routes]}
             ELSE UNCHANGED <<mockSent, mockCalls>>
  BY <1>0
<1>2. /\ bench = Unmounted /\ mockEdits' = mockEdits + 1
      /\ UNCHANGED <<mockProject, bench, runningMocks, latestMock, registry, listeners, changing,
                     generatingMock, mockChanges, missed, crossed>>
  BY DEF ApplyResponse
<1>3. s \in Servers /\ s.port # 0 /\ MockTypeOK /\ ServersFit /\ mockEdits + 1 \in Nat /\ Unmounted \notin MockIds
  BY TargetServer, MockAssumptions DEF MockInv, MockTypeOK, Unmounted
<1>4. /\ mocks' \in [MockProjects -> [MockIds -> Servers]]
      /\ \A p \in MockProjects, j \in MockIds :
           /\ mocks[p][j] # NoMock => mocks'[p][j] # NoMock
           /\ mocks'[p][j] # NoMock => mocks'[p][j].port # 0
  BY <1>1, <1>3, ServerWritten
<1>5. ShownFits
  BY <1>2, <1>3 DEF ShownFits
<1>6. CASE UNCHANGED <<mockSent, mockCalls>>
  <2>1. MockTypeOK'
    BY <1>2, <1>3, <1>4, <1>6 DEF MockTypeOK
  <2> QED
    BY <1>2, <1>4, <1>5, <1>6, <2>1, ScreenStep
<1>7. CASE mockSent' = mockSent + 1 /\ mockCalls' = mockCalls \cup {[MockCall("update", id) EXCEPT !.routes = s.routes]}
  <2> DEFINE c == [kind |-> "update", id |-> id, n |-> mockSent + 1, routes |-> s.routes, port |-> 0,
                  phase |-> "asked", of |-> runningMocks[id]]
  <2>1. c \in MockCalls /\ c.kind = "update" /\ c.id = id /\ c.phase = "asked" /\ c.n = mockSent + 1
        /\ c.of = runningMocks[id] /\ mockCalls' = mockCalls \cup {c} /\ mockSent \in Nat
    <3>1. s.routes \in SUBSET Routes /\ mockSent \in Nat
      BY <1>3 DEF Servers, MockTypeOK
    <3>2. c \in MockCalls
      BY <1>3, <3>1, CallFields
    <3>3. mockCalls' = mockCalls \cup {c}
      BY <1>7 DEF MockCall
    <3> QED
      BY <3>1, <3>2, <3>3
  <2> HIDE DEF c
  <2>2. NumbersFit' /\ StartsFit' /\ ListenersFit' /\ StopsFit' /\ StoppingFits' /\ OrphansHaveCause'
    BY <1>2, <1>7, <2>1, CallSent
  <2>3. MockTypeOK'
    BY <1>2, <1>3, <1>4, <1>7, <2>1 DEF MockTypeOK
  <2>4. ServersFit'
    <3>1. \A j \in MockIds : Known(j) => Known(j)'
      BY <1>4 DEF Known
    <3>2. \A d \in mockCalls' : d.kind = "start" => d \in mockCalls /\ d.id \in MockIds
      BY <1>3, <2>1 DEF MockTypeOK, MockCalls
    <3> QED
      BY <1>2, <1>4, <3>1, <3>2 DEF MockInv, ServersFit
  <2>5. TimerFits' /\ EditsArrive'
    BY <1>2, <1>3 DEF TimerFits, EditsArrive, Serving
  <2> QED
    BY <2>2, <2>3, <2>4, <2>5 DEF MockInv
<1> QED
  BY <1>1, <1>6, <1>7

\* Every listed server is asked to stop.
LEMMA ChangeBegins == MockInv /\ BeginProjectChange => MockInv'
<1> SUFFICES ASSUME MockInv, BeginProjectChange PROVE MockInv'
  OBVIOUS
<1> DEFINE Stop(id) == [MockCall("stop", id) EXCEPT !.kind = "stop for change"]
<1>1. /\ changing' = "stopping" /\ mockCalls' = mockCalls \cup {Stop(id) : id \in ListedMocks}
      /\ UNCHANGED <<mocks, mockProject, bench, runningMocks, latestMock, registry, listeners,
                     generatingMock, mockEdits, mockSent, missed, crossed>>
  BY DEF BeginProjectChange
<1>2. \A id \in MockIds : /\ Stop(id) \in MockCalls /\ Stop(id).kind = "stop for change" /\ Stop(id).id = id
                          /\ Stop(id).of = runningMocks[id]
  <2> SUFFICES ASSUME NEW id \in MockIds
               PROVE  /\ Stop(id) \in MockCalls /\ Stop(id).kind = "stop for change" /\ Stop(id).id = id
                      /\ Stop(id).of = runningMocks[id]
    OBVIOUS
  <2> DEFINE asked == MockCall("stop", id)
  <2>1. asked \in MockCalls /\ asked.id = id /\ asked.of = runningMocks[id]
    BY CallAsked DEF MockInv
  <2> HIDE DEF asked
  <2>2. LET d == [asked EXCEPT !.kind = "stop for change"] IN
         d \in MockCalls /\ d.kind = "stop for change" /\ d.id = asked.id /\ d.of = asked.of
    BY <2>1, CallRenamed
  <2> QED
    BY <2>1, <2>2 DEF asked
<1> HIDE DEF Stop
<1>3. \A c \in mockCalls' : c \in mockCalls \/ (/\ c \in MockCalls /\ c.kind = "stop for change"
                                                /\ \E id \in MockIds : c.of = runningMocks[id])
  <2>1. ASSUME NEW c \in mockCalls', c \notin mockCalls
        PROVE  c \in MockCalls /\ c.kind = "stop for change" /\ \E id \in MockIds : c.of = runningMocks[id]
    <3>1. PICK id \in MockIds : c = Stop(id)
      BY <1>1, <2>1 DEF ListedMocks
    <3> QED
      BY <1>2, <3>1
  <2> QED
    BY <2>1
<1>4. MockTypeOK'
  BY <1>1, <1>3 DEF MockInv, MockTypeOK
<1>5. ServersFit'
  BY <1>1, <1>3 DEF MockInv, ServersFit, Known, Exists, Current
<1>6. NumbersFit'
  BY <1>1, <1>3 DEF MockInv, NumbersFit, InstancesNumbered, CallsNumbered, OwnNumbers, Numbered
<1>7. StartsFit'
  <2>1. \A c \in mockCalls' : c.kind = "start" => c \in mockCalls
    BY <1>3
  <2>2. \A c \in mockCalls : c.kind = "start" => \A d \in mockCalls' : d.of # c.n
    BY <1>3 DEF MockInv, StartsFit
  <2> QED
    BY <1>1, <2>1, <2>2 DEF MockInv, StartsFit
<1>8. ListenersFit' /\ StopsFit' /\ OrphansHaveCause' /\ TimerFits'
  <2>1. \A c \in mockCalls' : c.kind \in {"start", "stop"} => c \in mockCalls
    BY <1>3
  <2>2. mockCalls \subseteq mockCalls'
    BY <1>1
  <2>3. ListenersFit'
    BY <1>1, <2>1 DEF MockInv, ListenersFit
  <2>4. StopsFit'
    BY <1>1, <2>1 DEF MockInv, StopsFit, StopCallsFit, ListedFits
  <2>5. OrphansHaveCause'
    BY <1>1, <2>2 DEF MockInv, OrphansHaveCause
  <2>6. TimerFits'
    BY <1>1 DEF MockInv, TimerFits, Current
  <2> QED
    BY <2>3, <2>4, <2>5, <2>6
<1>9. StoppingFits'
  BY <1>1, <1>2 DEF MockInv, OrphansHaveCause, StoppingFits, ListedMocks
<1>10. EditsArrive'
  <2>1. \A id \in MockIds : UpdatesOf(id)' = UpdatesOf(id) /\ (Serving(id)' => Serving(id))
    BY <1>1, <1>3 DEF UpdatesOf, Serving, Current
  <2> QED
    BY <1>1, <2>1 DEF MockInv, EditsArrive, Current
<1> QED
  BY <1>4, <1>5, <1>6, <1>7, <1>8, <1>9, <1>10 DEF MockInv

-----------------------------------------------------------------------------
(* The desktop process.                                                    *)

Moved(c, phase) == [c EXCEPT !.phase = phase]

LEMMA CallMoved ==
  ASSUME NEW c \in MockCalls, NEW phase \in {"asked", "bound", "done", "failed"}
  PROVE  /\ Moved(c, phase) \in MockCalls /\ Moved(c, phase).phase = phase
         /\ Moved(c, phase).kind = c.kind /\ Moved(c, phase).id = c.id /\ Moved(c, phase).n = c.n
         /\ Moved(c, phase).port = c.port /\ Moved(c, phase).of = c.of
BY DEF MockCalls, Moved

LEMMA ReplacedByMoved == \A c, phase : Replace(c, phase) = (mockCalls \ {c}) \cup {Moved(c, phase)}
BY DEF Replace, Moved

\* A start or a stop moves to its next phase: what only reads the other
\* fields is kept.
LEMMA PhaseMoves ==
  ASSUME MockInv, NEW c \in mockCalls, NEW d \in MockCalls, mockCalls' = (mockCalls \ {c}) \cup {d},
         d.kind = c.kind, d.id = c.id, d.n = c.n, d.port = c.port, d.of = c.of,
         c.kind \in {"start", "stop"},
         UNCHANGED mockRendererVars
  PROVE  /\ ServersFit' /\ CallsNumbered' /\ OwnNumbers' /\ TimerFits'
         /\ mockCalls' \subseteq MockCalls
         /\ \A id \in MockIds : UpdatesOf(id)' = UpdatesOf(id)
         /\ Current' = Current
<1>1. UNCHANGED <<mocks, mockProject, bench, runningMocks, latestMock, changing, mockSent>>
  BY DEF mockRendererVars
<1>2. mockCalls \subseteq MockCalls /\ MockTypeOK
  BY DEF MockInv, MockTypeOK
<1>3. Current' = Current
  BY <1>1 DEF Current
<1>4. ServersFit'
  <2>1. (\A e \in mockCalls : e.kind = "start" => Known(e.id) /\ e.port # 0)'
    BY <1>1 DEF MockInv, ServersFit, Known
  <2> QED
    BY <1>1, <1>3, <2>1 DEF MockInv, ServersFit, Known, Exists
<1>5. CallsNumbered'
  BY <1>1 DEF MockInv, NumbersFit, CallsNumbered, Numbered
<1>6. OwnNumbers'
  BY <1>1 DEF MockInv, NumbersFit, OwnNumbers, Numbered
<1>7. TimerFits'
  BY <1>1, <1>3 DEF MockInv, TimerFits
<1>8. \A id \in MockIds : UpdatesOf(id)' = UpdatesOf(id)
  BY DEF UpdatesOf
<1> QED
  BY <1>2, <1>3, <1>4, <1>5, <1>6, <1>7, <1>8

LEMMA Binds == MockInv /\ StartBinds => MockInv'
<1> SUFFICES ASSUME MockInv, StartBinds PROVE MockInv'
  OBVIOUS
<1>1. PICK c \in mockCalls :
          /\ c.kind = "start" /\ c.phase = "asked"
          /\ \/ /\ mockCalls' = Replace(c, "bound")
                /\ listeners' = listeners \cup {[start |-> c.n, port |-> c.port]}
             \/ /\ mockCalls' = Replace(c, "failed")
                /\ UNCHANGED listeners
  BY DEF StartBinds
<1>2. UNCHANGED mockRendererVars /\ UNCHANGED <<registry, missed, crossed>>
      /\ UNCHANGED <<mocks, mockProject, bench, runningMocks, latestMock, changing, generatingMock, mockEdits, mockSent>>
  BY DEF StartBinds, mockRendererVars
<1>3. MockTypeOK /\ c \in MockCalls /\ c.n \in Nat /\ c.port \in Nat
  BY DEF MockInv, MockTypeOK, MockCalls
<1>4. PICK d \in MockCalls : /\ d.phase \in {"bound", "failed"} /\ d.kind = "start" /\ d.id = c.id /\ d.n = c.n
                             /\ d.port = c.port /\ d.of = c.of
                             /\ mockCalls' = (mockCalls \ {c}) \cup {d}
  <2>1. PICK phase \in {"bound", "failed"} : mockCalls' = Replace(c, phase)
    BY <1>1
  <2> QED
    BY <1>1, <1>3, <2>1, CallMoved, ReplacedByMoved
<1>5. listeners \subseteq listeners' /\ \A l \in listeners' \ listeners : l.start = c.n /\ l.port = c.port
                                     /\ l \in [start : Nat, port : Nat]
  BY <1>1, <1>3
<1>6. /\ ServersFit' /\ CallsNumbered' /\ OwnNumbers' /\ TimerFits' /\ mockCalls' \subseteq MockCalls
      /\ \A id \in MockIds : UpdatesOf(id)' = UpdatesOf(id)
      /\ Current' = Current
  BY <1>1, <1>2, <1>4, PhaseMoves
<1>7. MockTypeOK'
  BY <1>2, <1>3, <1>5, <1>6 DEF MockTypeOK
<1>8. c.n <= mockSent /\ c.n # 0 /\ c.port # 0 /\ \A e \in mockCalls : e.kind = "start" /\ e # c => e.n # c.n
  BY <1>1 DEF MockInv, NumbersFit, CallsNumbered, OwnNumbers, Numbered, ServersFit
<1>9. InstancesNumbered'
  BY <1>2, <1>5, <1>8 DEF MockInv, NumbersFit, InstancesNumbered
<1>10. StartsFit'
  <2> SUFFICES ASSUME NEW e \in mockCalls', e.kind = "start"
               PROVE  /\ \A b \in mockCalls' : b.of # e.n
                      /\ \A id \in MockIds : runningMocks[id] # e.n /\ (registry[id].start = e.n => e.phase = "done" /\ id = e.id)
                      /\ e.phase = "done" => registry[e.id].start = e.n \/ e.id \in crossed
                      /\ e.phase = "asked" => \A l \in listeners' : l.start # e.n
    BY <1>2 DEF StartsFit
  <2>1. CASE e = d
    BY <1>1, <1>4, <2>1 DEF MockInv, StartsFit
  <2>2. CASE e \in mockCalls /\ e # c
    BY <1>1, <1>4, <1>5, <1>8, <2>2 DEF MockInv, StartsFit
  <2> QED
    BY <1>4, <2>1, <2>2
<1>11. ListenersFit'
  BY <1>1, <1>2, <1>4, <1>5, <1>8 DEF MockInv, ListenersFit
<1>12. StopsFit'
  BY <1>1, <1>2, <1>4 DEF MockInv, StopsFit, StopCallsFit, ListedFits
<1>13. StoppingFits' /\ OrphansHaveCause'
  <2>1. \A n : (\E e \in mockCalls : e.kind = "start" /\ e.n = n) => \E e \in mockCalls' : e.kind = "start" /\ e.n = n
    BY <1>1, <1>4
  <2>2. \A e \in mockCalls : e.kind # "start" => e \in mockCalls'
    BY <1>1, <1>4
  <2>3. StoppingFits'
    <3> SUFFICES ASSUME changing = "stopping", NEW id \in MockIds, registry[id] # NoInstance, registry[id].start \notin missed
                 PROVE  \/ \E e \in mockCalls' : e.kind = "start" /\ e.n = registry[id].start
                        \/ \E e \in mockCalls' : e.kind = "stop for change" /\ e.id = id
      BY <1>2 DEF StoppingFits
    <3>1. \/ \E e \in mockCalls : e.kind = "start" /\ e.n = registry[id].start
          \/ \E e \in mockCalls : e.kind = "stop for change" /\ e.id = id
      BY DEF MockInv, StoppingFits
    <3> QED
      BY <2>1, <2>2, <3>1
  <2>4. OrphansHaveCause'
    BY <1>2, <2>1 DEF MockInv, OrphansHaveCause
  <2> QED
    BY <2>3, <2>4
<1>14. EditsArrive'
  <2>1. \A id \in MockIds : Serving(id)' => Serving(id)
    BY <1>1, <1>2, <1>4, <1>6 DEF Serving
  <2> QED
    BY <1>2, <1>6, <2>1 DEF MockInv, EditsArrive
<1> QED
  BY <1>6, <1>7, <1>9, <1>10, <1>11, <1>12, <1>13, <1>14 DEF MockInv, NumbersFit

LEMMA Registers == MockInv /\ StartRegisters => MockInv'
<1> SUFFICES ASSUME MockInv, StartRegisters PROVE MockInv'
  OBVIOUS
<1>1. PICK c \in mockCalls :
          /\ c.kind = "start" /\ c.phase = "bound"
          /\ \/ /\ registry[c.id] = NoInstance
                /\ registry' = [registry EXCEPT ![c.id] =
                        [start |-> c.n, seq |-> c.n, routes |-> c.routes, late |-> FALSE]]
                /\ mockCalls' = Replace(c, "done")
                /\ UNCHANGED listeners
             \/ /\ mockCalls' = Replace(c, "failed")
                /\ listeners' = {l \in listeners : l.start # c.n}
                /\ UNCHANGED registry
  BY DEF StartRegisters
<1>2. UNCHANGED mockRendererVars /\ UNCHANGED <<missed, crossed>>
      /\ UNCHANGED <<mocks, mockProject, bench, runningMocks, latestMock, changing, generatingMock, mockEdits, mockSent>>
  BY DEF StartRegisters, mockRendererVars
<1>3. MockTypeOK /\ c \in MockCalls /\ c.n \in Nat /\ c.id \in MockIds /\ c.routes \in SUBSET Routes
  BY DEF MockInv, MockTypeOK, MockCalls
<1> DEFINE new == [start |-> c.n, seq |-> c.n, routes |-> c.routes, late |-> FALSE]
<1>4. new \in Instances /\ new.start = c.n /\ new.seq = c.n
  BY <1>3 DEF Instances
<1> HIDE DEF new
<1>5. PICK d \in MockCalls :
         /\ d.kind = "start" /\ d.id = c.id /\ d.n = c.n /\ d.port = c.port /\ d.of = c.of
         /\ mockCalls' = (mockCalls \ {c}) \cup {d}
         /\ \/ registry[c.id] = NoInstance /\ registry' = [registry EXCEPT ![c.id] = new] /\ d.phase = "done"
            \/ registry' = registry /\ d.phase = "failed"
  <2>1. PICK phase \in {"done", "failed"} :
          /\ mockCalls' = Replace(c, phase)
          /\ \/ registry[c.id] = NoInstance /\ registry' = [registry EXCEPT ![c.id] = new] /\ phase = "done"
             \/ registry' = registry /\ phase = "failed"
    BY <1>1 DEF new
  <2>2. mockCalls' = (mockCalls \ {c}) \cup {Moved(c, phase)}
    BY <2>1, ReplacedByMoved
  <2>3. /\ Moved(c, phase) \in MockCalls /\ Moved(c, phase).phase = phase
        /\ Moved(c, phase).kind = c.kind /\ Moved(c, phase).id = c.id /\ Moved(c, phase).n = c.n
        /\ Moved(c, phase).port = c.port /\ Moved(c, phase).of = c.of
    BY <1>3, <2>1, CallMoved
  <2> QED
    BY <1>1, <2>1, <2>2, <2>3
<1>6. listeners' \subseteq listeners
  BY <1>1
<1>7. /\ ServersFit' /\ CallsNumbered' /\ OwnNumbers' /\ TimerFits' /\ mockCalls' \subseteq MockCalls
      /\ \A id \in MockIds : UpdatesOf(id)' = UpdatesOf(id)
      /\ Current' = Current
  BY <1>1, <1>2, <1>5, PhaseMoves
<1>8. registry \in [MockIds -> Instances] /\ registry' \in [MockIds -> Instances]
  BY <1>3, <1>4, <1>5 DEF MockTypeOK
<1>9. MockTypeOK'
  BY <1>2, <1>3, <1>6, <1>7, <1>8 DEF MockTypeOK
<1>10. /\ c.n <= mockSent /\ c.n # 0 /\ \A e \in mockCalls : e.kind = "start" /\ e # c => e.n # c.n
       /\ \A id \in MockIds : registry[id].start # c.n /\ runningMocks[id] # c.n
       /\ \A e \in mockCalls : e.of # c.n
       /\ NoInstance.start = 0
       /\ \A l \in listeners : l.port = 0 => l.start # c.n
  <2>1. c.n <= mockSent /\ c.n # 0 /\ \A e \in mockCalls : e.kind = "start" /\ e # c => e.n # c.n
    BY <1>1 DEF MockInv, NumbersFit, CallsNumbered, OwnNumbers, Numbered
  <2>2. /\ \A id \in MockIds : registry[id].start # c.n /\ runningMocks[id] # c.n
        /\ \A e \in mockCalls : e.of # c.n
    BY <1>1 DEF MockInv, StartsFit
  <2>3. \A l \in listeners : l.port = 0 => l.start # c.n
    BY <1>1 DEF MockInv, ListenersFit
  <2> QED
    BY <2>1, <2>2, <2>3 DEF NoInstance
<1>11. /\ \A id \in MockIds \ {c.id} : registry'[id] = registry[id]
       /\ registry'[c.id] = registry[c.id] \/ (registry[c.id] = NoInstance /\ registry'[c.id] = new)
  <2>1. CASE registry' = registry
    <3>1. \A id \in MockIds \ {c.id} : registry'[id] = registry[id]
      BY <2>1
    <3>2. registry'[c.id] = registry[c.id]
      BY <2>1
    <3> QED
      BY <3>1, <3>2
  <2>2. CASE registry[c.id] = NoInstance /\ registry' = [registry EXCEPT ![c.id] = new]
    BY <1>3, <1>8, <2>2
  <2> QED
    BY <1>5, <2>1, <2>2
<1>12. InstancesNumbered'
  BY <1>2, <1>4, <1>6, <1>10, <1>11 DEF MockInv, NumbersFit, InstancesNumbered
<1>13. StartsFit'
  <2> SUFFICES ASSUME NEW e \in mockCalls', e.kind = "start"
               PROVE  /\ \A b \in mockCalls' : b.of # e.n
                      /\ \A id \in MockIds : runningMocks[id] # e.n /\ (registry'[id].start = e.n => e.phase = "done" /\ id = e.id)
                      /\ e.phase = "done" => registry'[e.id].start = e.n \/ e.id \in crossed
                      /\ e.phase = "asked" => \A l \in listeners' : l.start # e.n
    BY <1>2 DEF StartsFit
  <2>1. CASE e = d
    BY <1>3, <1>4, <1>5, <1>8, <1>10, <1>11, <2>1
  <2>2. CASE e \in mockCalls /\ e # c
    <3>1. \A b \in mockCalls' : b.of # e.n
      BY <1>5, <2>2 DEF MockInv, StartsFit
    <3>2. e.id \in MockIds /\ e.n # c.n /\ e.n # 0
      BY <1>3, <1>10, <2>2 DEF MockTypeOK, MockCalls, MockInv, NumbersFit, CallsNumbered, Numbered
    <3> QED
      BY <1>4, <1>6, <1>10, <1>11, <2>2, <3>1, <3>2 DEF MockInv, StartsFit
  <2> QED
    BY <1>5, <2>1, <2>2
<1>14. ListenersFit'
  BY <1>4, <1>5, <1>6, <1>10, <1>11 DEF MockInv, ListenersFit
<1>15. StopsFit'
  <2>1. \A e \in mockCalls' : e.kind # "start" => e \in mockCalls
    BY <1>5
  <2>2. \A e \in mockCalls : e.kind # "start" => e \in mockCalls'
    BY <1>1, <1>5
  <2>3. StopCallsFit'
    <3> SUFFICES ASSUME NEW e \in mockCalls', e.kind # "start"
                 PROVE  /\ e.kind = "stop for change" => changing = "stopping"
                        /\ e.kind = "stop" /\ e.phase # "asked" => registry'[e.id].start # e.of
                        /\ e.kind = "stop" => e.of # 0
      BY <1>2 DEF StopCallsFit
    <3>1. e \in mockCalls /\ e.id \in MockIds /\ e.of # c.n
      BY <1>3, <1>10, <2>1 DEF MockTypeOK, MockCalls
    <3> QED
      BY <1>4, <1>11, <3>1 DEF MockInv, StopsFit, StopCallsFit
  <2>4. new # NoInstance
    BY <1>4, <1>10
  <2>5. ASSUME changing # "stopping", NEW id \in MockIds, registry'[id] = NoInstance, runningMocks[id] # 0, id \notin crossed
        PROVE  \E e \in mockCalls' : e.kind = "stop" /\ e.id = id /\ e.phase = "done"
    <3>1. registry[id] = NoInstance
      BY <1>11, <2>4, <2>5
    <3>2. PICK e \in mockCalls : e.kind = "stop" /\ e.id = id /\ e.phase = "done"
      BY <2>5, <3>1 DEF MockInv, StopsFit, StopCallsFit, ListedFits
    <3> QED
      BY <2>2, <3>2
  <2> QED
    BY <1>2, <2>3, <2>5 DEF StopsFit, ListedFits
<1>16. StoppingFits' /\ OrphansHaveCause'
  <2>1. \A n : (\E e \in mockCalls : e.kind = "start" /\ e.n = n) => \E e \in mockCalls' : e.kind = "start" /\ e.n = n
    BY <1>1, <1>5
  <2>2. \A e \in mockCalls : e.kind # "start" => e \in mockCalls'
    BY <1>1, <1>5
  <2>3. \E e \in mockCalls' : e.kind = "start" /\ e.n = new.start
    BY <1>4, <1>5
  <2>4. StoppingFits'
    <3> SUFFICES ASSUME changing = "stopping", NEW id \in MockIds, registry'[id] # NoInstance, registry'[id].start \notin missed
                 PROVE  \/ \E e \in mockCalls' : e.kind = "start" /\ e.n = registry'[id].start
                        \/ \E e \in mockCalls' : e.kind = "stop for change" /\ e.id = id
      BY <1>2 DEF StoppingFits
    <3>1. CASE registry'[id] = new
      BY <2>3, <3>1
    <3>2. CASE registry'[id] = registry[id]
      <4>1. \/ \E e \in mockCalls : e.kind = "start" /\ e.n = registry[id].start
            \/ \E e \in mockCalls : e.kind = "stop for change" /\ e.id = id
        BY <3>2 DEF MockInv, StoppingFits
      <4> QED
        BY <2>1, <2>2, <3>2, <4>1
    <3> QED
      BY <1>11, <3>1, <3>2
  <2>5. OrphansHaveCause'
    <3> SUFFICES ASSUME NEW id \in MockIds, registry'[id] # NoInstance, runningMocks[id] = 0,
                        registry'[id].start \notin missed
                 PROVE  \E e \in mockCalls' : e.kind = "start" /\ e.n = registry'[id].start
      BY <1>2 DEF OrphansHaveCause
    <3>1. CASE registry'[id] = new
      BY <2>3, <3>1
    <3>2. CASE registry'[id] = registry[id]
      <4>1. \E e \in mockCalls : e.kind = "start" /\ e.n = registry[id].start
        BY <3>2 DEF MockInv, OrphansHaveCause
      <4> QED
        BY <2>1, <3>2, <4>1
    <3> QED
      BY <1>11, <3>1, <3>2
  <2> QED
    BY <2>4, <2>5
<1>17. EditsArrive'
  <2>1. \A id \in MockIds : Serving(id)' => Serving(id) /\ registry'[id] = registry[id]
    BY <1>1, <1>2, <1>4, <1>5, <1>7, <1>10, <1>11 DEF Serving
  <2> QED
    BY <1>2, <1>7, <2>1 DEF MockInv, EditsArrive
<1> QED
  BY <1>7, <1>9, <1>12, <1>13, <1>14, <1>15, <1>16, <1>17 DEF MockInv, NumbersFit

\* An instance is removed by a stop.
LEMMA Stops == MockInv /\ StopArrives => MockInv'
<1> SUFFICES ASSUME MockInv, StopArrives PROVE MockInv'
  OBVIOUS
<1>1. PICK c \in mockCalls :
          /\ c.kind = "stop" /\ c.phase = "asked"
          /\ registry' = [registry EXCEPT ![c.id] = NoInstance]
          /\ mockCalls' = Replace(c, IF registry[c.id] # NoInstance THEN "done" ELSE "failed")
          /\ crossed' = IF registry[c.id].start \notin {0, c.of} THEN crossed \cup {c.id}
                        ELSE crossed
  BY DEF StopArrives
<1>2. UNCHANGED mockRendererVars /\ UNCHANGED <<missed, listeners>>
      /\ UNCHANGED <<mocks, mockProject, bench, runningMocks, latestMock, changing, generatingMock, mockEdits, mockSent>>
  BY DEF StopArrives, mockRendererVars
<1>3. MockTypeOK /\ c \in MockCalls /\ c.id \in MockIds /\ registry \in [MockIds -> Instances]
  BY DEF MockInv, MockTypeOK, MockCalls
<1>4. PICK d \in MockCalls :
         /\ d.kind = "stop" /\ d.id = c.id /\ d.n = c.n /\ d.port = c.port /\ d.of = c.of
         /\ mockCalls' = (mockCalls \ {c}) \cup {d}
         /\ d.phase = IF registry[c.id] # NoInstance THEN "done" ELSE "failed"
  <2>1. PICK phase \in {"done", "failed"} :
          /\ mockCalls' = Replace(c, phase)
          /\ phase = IF registry[c.id] # NoInstance THEN "done" ELSE "failed"
    BY <1>1
  <2>2. mockCalls' = (mockCalls \ {c}) \cup {Moved(c, phase)}
    BY <2>1, ReplacedByMoved
  <2>3. /\ Moved(c, phase) \in MockCalls /\ Moved(c, phase).phase = phase
        /\ Moved(c, phase).kind = c.kind /\ Moved(c, phase).id = c.id /\ Moved(c, phase).n = c.n
        /\ Moved(c, phase).port = c.port /\ Moved(c, phase).of = c.of
    BY <1>3, <2>1, CallMoved
  <2> QED
    BY <1>1, <2>1, <2>2, <2>3
<1>5. /\ ServersFit' /\ CallsNumbered' /\ OwnNumbers' /\ TimerFits' /\ mockCalls' \subseteq MockCalls
      /\ \A id \in MockIds : UpdatesOf(id)' = UpdatesOf(id)
      /\ Current' = Current
  BY <1>1, <1>2, <1>4, PhaseMoves
<1>6. NoInstance \in Instances /\ NoInstance.start = 0 /\ NoInstance.seq = 0
  BY DEF NoInstance, Instances
<1>7. /\ \A id \in MockIds \ {c.id} : registry'[id] = registry[id]
      /\ registry'[c.id] = NoInstance /\ registry' \in [MockIds -> Instances]
  BY <1>1, <1>3, <1>6
<1>8. MockTypeOK'
  BY <1>2, <1>3, <1>5, <1>7 DEF MockTypeOK
<1>9. /\ \A e \in mockCalls' : e.kind # "stop" => e \in mockCalls
      /\ \A e \in mockCalls : e.kind # "stop" => e \in mockCalls'
      /\ crossed \subseteq crossed'
  BY <1>1, <1>4
<1>10. \A e \in mockCalls : /\ e.id \in MockIds
                            /\ e.kind = "start" => e.n # 0
                            /\ e.kind = "stop" => e.of # 0
  <2>1. \A e \in mockCalls : e.id \in MockIds
    BY <1>3 DEF MockTypeOK, MockCalls
  <2> QED
    BY <2>1 DEF MockInv, NumbersFit, CallsNumbered, Numbered, StopsFit, StopCallsFit
<1>11. InstancesNumbered'
  <2>1. mockSent \in Nat
    BY NumberTyped DEF MockInv
  <2>2. 0 <= mockSent
    BY <2>1
  <2> QED
    BY <1>2, <1>6, <1>7, <2>2 DEF MockInv, NumbersFit, InstancesNumbered
<1>12. StartsFit'
  <2> SUFFICES ASSUME NEW e \in mockCalls', e.kind = "start"
               PROVE  /\ \A b \in mockCalls' : b.of # e.n
                      /\ \A id \in MockIds : runningMocks[id] # e.n /\ (registry'[id].start = e.n => e.phase = "done" /\ id = e.id)
                      /\ e.phase = "done" => registry'[e.id].start = e.n \/ e.id \in crossed'
                      /\ e.phase = "asked" => \A l \in listeners : l.start # e.n
    BY <1>2 DEF StartsFit
  <2>1. e \in mockCalls /\ e.n # 0 /\ e.id \in MockIds
    BY <1>9, <1>10
  <2>2. \A b \in mockCalls' : b.of # e.n
    BY <1>4, <2>1 DEF MockInv, StartsFit
  <2>3. \A id \in MockIds : runningMocks[id] # e.n /\ (registry'[id].start = e.n => e.phase = "done" /\ id = e.id)
    BY <1>6, <1>7, <2>1 DEF MockInv, StartsFit
  <2>4. e.phase = "done" => registry'[e.id].start = e.n \/ e.id \in crossed'
    <3>1. CASE e.id # c.id
      BY <1>7, <1>9, <2>1, <3>1 DEF MockInv, StartsFit
    <3>2. CASE e.id = c.id
      <4>1. c.of # e.n
        BY <2>1 DEF MockInv, StartsFit
      <4>2. e.phase = "done" => registry[c.id].start = e.n \/ c.id \in crossed
        BY <2>1, <3>2 DEF MockInv, StartsFit
      <4> QED
        BY <1>1, <2>1, <3>2, <4>1, <4>2
    <3> QED
      BY <3>1, <3>2
  <2>5. e.phase = "asked" => \A l \in listeners : l.start # e.n
    BY <2>1 DEF MockInv, StartsFit
  <2> QED
    BY <2>2, <2>3, <2>4, <2>5
<1>13. ListenersFit'
  <2> SUFFICES ASSUME NEW l \in listeners, l.port = 0
               PROVE  /\ \A id \in MockIds : registry'[id].start # l.start
                      /\ \A e \in mockCalls' : e.kind = "start" /\ e.n = l.start => e.phase \notin {"asked", "bound"}
    BY <1>2 DEF ListenersFit
  <2>1. l.start # 0
    BY DEF MockInv, NumbersFit, InstancesNumbered
  <2> QED
    BY <1>6, <1>7, <1>9, <2>1 DEF MockInv, ListenersFit
<1>14. StopsFit'
  <2>1. StopCallsFit'
    <3> SUFFICES ASSUME NEW e \in mockCalls'
                 PROVE  /\ e.kind = "stop for change" => changing = "stopping"
                        /\ e.kind = "stop" /\ e.phase # "asked" => registry'[e.id].start # e.of
                        /\ e.kind = "stop" => e.of # 0
      BY <1>2 DEF StopCallsFit
    <3>1. CASE e = d
      BY <1>1, <1>4, <1>6, <1>7, <1>10, <3>1
    <3>2. CASE e \in mockCalls
      BY <1>6, <1>7, <1>10, <3>2 DEF MockInv, StopsFit, StopCallsFit
    <3> QED
      BY <1>4, <3>1, <3>2
  <2>2. ListedFits'
    <3> SUFFICES ASSUME changing # "stopping", NEW id \in MockIds, registry'[id] = NoInstance,
                        runningMocks[id] # 0, id \notin crossed'
                 PROVE  \E e \in mockCalls' : e.kind = "stop" /\ e.id = id /\ e.phase = "done"
      BY <1>2 DEF ListedFits
    <3>1. CASE registry[id] = NoInstance
      <4>1. PICK e \in mockCalls : e.kind = "stop" /\ e.id = id /\ e.phase = "done"
        BY <1>9, <3>1 DEF MockInv, StopsFit, ListedFits
      <4> QED
        BY <1>1, <1>4, <4>1
    <3>2. CASE registry[id] # NoInstance
      BY <1>4, <1>7, <3>2
    <3> QED
      BY <3>1, <3>2
  <2> QED
    BY <2>1, <2>2 DEF StopsFit
<1>15. StoppingFits'
  BY <1>2, <1>7, <1>9 DEF MockInv, StoppingFits
<1>16. OrphansHaveCause'
  BY <1>2, <1>7, <1>9 DEF MockInv, OrphansHaveCause
<1>17. EditsArrive'
  <2>1. ASSUME NEW id \in MockIds, Serving(id)' PROVE Serving(id) /\ registry'[id] = registry[id]
    <3>1. runningMocks[id] # 0 /\ registry'[id].start = runningMocks[id]
      BY <1>2, <2>1 DEF Serving
    <3>2. id # c.id
      BY <1>6, <1>7, <3>1
    <3>3. \A e \in mockCalls : e.kind = "stop" /\ e.id = id => e \in mockCalls'
      BY <1>4, <3>2
    <3> QED
      BY <1>2, <1>5, <1>7, <2>1, <3>2, <3>3 DEF Serving
  <2> QED
    BY <1>2, <1>5, <2>1 DEF MockInv, EditsArrive
<1> QED
  BY <1>5, <1>8, <1>11, <1>12, <1>13, <1>14, <1>15, <1>16, <1>17 DEF MockInv, NumbersFit

LEMMA ChangeStops == MockInv /\ ChangeStopArrives => MockInv'
<1> SUFFICES ASSUME MockInv, ChangeStopArrives PROVE MockInv'
  OBVIOUS
<1>1. PICK c \in mockCalls :
          /\ c.kind = "stop for change"
          /\ mockCalls' = mockCalls \ {c}
          /\ registry' = [registry EXCEPT ![c.id] = NoInstance]
          /\ crossed' = IF registry[c.id].start \notin {0, c.of} THEN crossed \cup {c.id}
                        ELSE crossed
  BY DEF ChangeStopArrives
<1>2. /\ UNCHANGED <<missed, listeners>>
      /\ UNCHANGED <<mocks, mockProject, bench, runningMocks, latestMock, changing, generatingMock, mockEdits, mockSent>>
  BY DEF ChangeStopArrives, mockRendererVars
<1>3. MockTypeOK /\ c \in MockCalls /\ c.id \in MockIds /\ registry \in [MockIds -> Instances] /\ Current' = Current
      /\ changing = "stopping"
  BY <1>1, <1>2 DEF MockInv, MockTypeOK, MockCalls, Current, StopsFit, StopCallsFit
<1>4. NoInstance \in Instances /\ NoInstance.start = 0 /\ NoInstance.seq = 0
  BY DEF NoInstance, Instances
<1>5. /\ \A id \in MockIds \ {c.id} : registry'[id] = registry[id]
      /\ registry'[c.id] = NoInstance /\ registry' \in [MockIds -> Instances]
  BY <1>1, <1>3, <1>4
<1>6. MockTypeOK'
  BY <1>1, <1>2, <1>3, <1>5 DEF MockTypeOK
<1>7. ServersFit' /\ TimerFits'
  BY <1>1, <1>2, <1>3 DEF MockInv, ServersFit, Known, Exists, TimerFits
<1>8. CallsNumbered' /\ OwnNumbers'
  BY <1>1, <1>2 DEF MockInv, NumbersFit, CallsNumbered, OwnNumbers
<1>9. InstancesNumbered'
  <2>1. mockSent \in Nat
    BY NumberTyped DEF MockInv
  <2>2. 0 <= mockSent
    BY <2>1
  <2> QED
    BY <1>2, <1>4, <1>5, <2>2 DEF MockInv, NumbersFit, InstancesNumbered
<1>10. \A e \in mockCalls : /\ e.id \in MockIds
                            /\ e.kind = "start" => e.n # 0
                            /\ e.kind = "stop" => e.of # 0
  <2>1. \A e \in mockCalls : e.id \in MockIds
    BY <1>3 DEF MockTypeOK, MockCalls
  <2> QED
    BY <2>1 DEF MockInv, NumbersFit, CallsNumbered, Numbered, StopsFit, StopCallsFit
<1>11. StartsFit'
  <2> SUFFICES ASSUME NEW e \in mockCalls', e.kind = "start"
               PROVE  /\ \A b \in mockCalls' : b.of # e.n
                      /\ \A id \in MockIds : runningMocks[id] # e.n /\ (registry'[id].start = e.n => e.phase = "done" /\ id = e.id)
                      /\ e.phase = "done" => registry'[e.id].start = e.n \/ e.id \in crossed'
                      /\ e.phase = "asked" => \A l \in listeners : l.start # e.n
    BY <1>2 DEF StartsFit
  <2>1. e \in mockCalls /\ e.n # 0 /\ e.id \in MockIds /\ \A b \in mockCalls' : b \in mockCalls
    BY <1>1, <1>10
  <2>2. /\ \A b \in mockCalls : b.of # e.n
        /\ \A id \in MockIds : runningMocks[id] # e.n /\ (registry[id].start = e.n => e.phase = "done" /\ id = e.id)
        /\ e.phase = "done" => registry[e.id].start = e.n \/ e.id \in crossed
        /\ e.phase = "asked" => \A l \in listeners : l.start # e.n
    BY <2>1 DEF MockInv, StartsFit
  <2>3. e.phase = "done" => registry'[e.id].start = e.n \/ e.id \in crossed'
    <3>1. CASE e.id # c.id
      BY <1>1, <1>5, <2>1, <2>2, <3>1
    <3>2. CASE e.id = c.id
      BY <1>1, <2>1, <2>2, <3>2
    <3> QED
      BY <3>1, <3>2
  <2>4. \A id \in MockIds : registry'[id].start = e.n => registry[id].start = e.n
    BY <1>4, <1>5, <2>1
  <2> QED
    BY <2>1, <2>2, <2>3, <2>4
<1>12. ListenersFit'
  <2> SUFFICES ASSUME NEW l \in listeners, l.port = 0
               PROVE  /\ \A id \in MockIds : registry'[id].start # l.start
                      /\ \A e \in mockCalls' : e.kind = "start" /\ e.n = l.start => e.phase \notin {"asked", "bound"}
    BY <1>2 DEF ListenersFit
  <2>1. l.start # 0
    BY DEF MockInv, NumbersFit, InstancesNumbered
  <2> QED
    BY <1>1, <1>4, <1>5, <2>1 DEF MockInv, ListenersFit
<1>13. StopsFit'
  <2>1. StopCallsFit'
    BY <1>1, <1>2, <1>4, <1>5, <1>10 DEF MockInv, StopsFit, StopCallsFit
  <2> QED
    BY <1>2, <1>3, <2>1 DEF StopsFit, ListedFits
<1>14. \A e \in mockCalls : e.kind = "start" => e \in mockCalls'
  BY <1>1
<1>15. StoppingFits'
  <2> SUFFICES ASSUME NEW id \in MockIds, registry'[id] # NoInstance, registry'[id].start \notin missed
               PROVE  \/ \E e \in mockCalls' : e.kind = "start" /\ e.n = registry'[id].start
                      \/ \E e \in mockCalls' : e.kind = "stop for change" /\ e.id = id
    BY <1>2 DEF StoppingFits
  <2>1. id # c.id /\ registry'[id] = registry[id]
    BY <1>5
  <2>2. \/ \E e \in mockCalls : e.kind = "start" /\ e.n = registry[id].start
        \/ \E e \in mockCalls : e.kind = "stop for change" /\ e.id = id
    BY <1>3, <2>1 DEF MockInv, StoppingFits
  <2> QED
    BY <1>1, <1>14, <2>1, <2>2
<1>16. OrphansHaveCause'
  BY <1>2, <1>5, <1>14 DEF MockInv, OrphansHaveCause
<1>17. EditsArrive'
  <2>1. ASSUME NEW id \in MockIds, Serving(id)' PROVE Serving(id) /\ registry'[id] = registry[id]
    <3>1. runningMocks[id] # 0 /\ registry'[id].start = runningMocks[id]
      BY <1>2, <2>1 DEF Serving
    <3>2. id # c.id
      BY <1>4, <1>5, <3>1
    <3>3. \A e \in mockCalls : e.kind = "stop" /\ e.id = id => e \in mockCalls'
      BY <1>1
    <3> QED
      BY <1>2, <1>3, <1>5, <2>1, <3>2, <3>3 DEF Serving
  <2>2. \A id \in MockIds : UpdatesOf(id)' = UpdatesOf(id)
    BY <1>1 DEF UpdatesOf
  <2> QED
    BY <1>2, <1>3, <2>1, <2>2 DEF MockInv, EditsArrive
<1> QED
  BY <1>6, <1>7, <1>8, <1>9, <1>11, <1>12, <1>13, <1>15, <1>16, <1>17 DEF MockInv, NumbersFit

\* A listener closes its socket and ends: no server is its instance any more.
LEMMA ListenerLeaves == MockInv /\ (SocketCloses \/ ListenerEnds) => MockInv'
<1> SUFFICES ASSUME MockInv, SocketCloses \/ ListenerEnds PROVE MockInv'
  OBVIOUS
<1>1. /\ UNCHANGED <<mockCalls, missed, crossed>>
      /\ UNCHANGED <<mocks, mockProject, bench, runningMocks, latestMock, changing, generatingMock, mockEdits, mockSent>>
  BY DEF SocketCloses, ListenerEnds, mockRendererVars
<1>2. MockTypeOK /\ registry \in [MockIds -> Instances] /\ listeners \subseteq [start : Nat, port : Nat]
      /\ UNCHANGED Current
  BY <1>1 DEF MockInv, MockTypeOK, Current
<1>3. PICK l \in listeners :
        \/ l.port # 0 /\ ToldToStop(l) /\ registry' = registry
             /\ listeners' = (listeners \ {l}) \cup {[l EXCEPT !.port = 0]}
        \/ l.port = 0 /\ listeners' = listeners \ {l} /\ registry' = Cleanup(l.start)
  BY DEF SocketCloses, ListenerEnds
<1>4. CASE l.port = 0 /\ listeners' = listeners \ {l} /\ registry' = Cleanup(l.start)
  <2>1. \A id \in MockIds : registry[id].start # l.start
    BY <1>4 DEF MockInv, ListenersFit
  <2>2. registry' = registry
    BY <1>2, <1>4, <2>1 DEF Cleanup
  <2>3. \A k \in listeners' : k \in listeners
    BY <1>4
  <2>4. MockTypeOK' /\ ServersFit'
    BY <1>1, <1>2, <2>2, <2>3 DEF MockInv, MockTypeOK, ServersFit, Known, Exists
  <2>5. NumbersFit'
    BY <1>1, <2>2, <2>3 DEF MockInv, NumbersFit, InstancesNumbered, CallsNumbered, OwnNumbers
  <2>6. StartsFit' /\ ListenersFit'
    BY <1>1, <2>2, <2>3 DEF MockInv, StartsFit, ListenersFit
  <2>7. StopsFit' /\ StoppingFits' /\ OrphansHaveCause'
    BY <1>1, <2>2 DEF MockInv, StopsFit, StopCallsFit, ListedFits, StoppingFits, OrphansHaveCause
  <2>8. TimerFits' /\ EditsArrive'
    BY <1>1, <1>2, <2>2 DEF MockInv, TimerFits, EditsArrive, Serving, UpdatesOf
  <2> QED
    BY <2>4, <2>5, <2>6, <2>7, <2>8 DEF MockInv
<1>5. CASE /\ l.port # 0 /\ ToldToStop(l) /\ registry' = registry
           /\ listeners' = (listeners \ {l}) \cup {[l EXCEPT !.port = 0]}
  <2> DEFINE m == [l EXCEPT !.port = 0]
  <2>1. m \in [start : Nat, port : Nat] /\ m.start = l.start
    BY <1>2
  <2> HIDE DEF m
  <2>2. \A k \in listeners' : k \in listeners \/ k = m
    BY <1>5 DEF m
  <2>3. l.start # 0 /\ l.start <= mockSent
    BY DEF MockInv, NumbersFit, InstancesNumbered
  <2>4. \A id \in MockIds : registry[id].start # l.start
    BY <1>5 DEF ToldToStop
  <2>5. \A c \in mockCalls : c.kind = "start" /\ c.n = l.start => c.phase \notin {"asked", "bound"}
    BY <1>5 DEF ToldToStop, MockInv, StartsFit
  <2>6. MockTypeOK' /\ ServersFit'
    BY <1>1, <1>2, <1>5, <2>1, <2>2 DEF MockInv, MockTypeOK, ServersFit, Known, Exists
  <2>7. NumbersFit'
    BY <1>1, <1>5, <2>1, <2>2, <2>3 DEF MockInv, NumbersFit, InstancesNumbered, CallsNumbered, OwnNumbers
  <2>8. StartsFit'
    BY <1>1, <1>5, <2>1, <2>2 DEF MockInv, StartsFit
  <2>9. ListenersFit'
    BY <1>1, <1>5, <2>1, <2>2, <2>4, <2>5 DEF MockInv, ListenersFit
  <2>10. StopsFit' /\ StoppingFits' /\ OrphansHaveCause'
    BY <1>1, <1>5 DEF MockInv, StopsFit, StopCallsFit, ListedFits, StoppingFits, OrphansHaveCause
  <2>11. TimerFits' /\ EditsArrive'
    BY <1>1, <1>2, <1>5 DEF MockInv, TimerFits, EditsArrive, Serving, UpdatesOf
  <2> QED
    BY <2>6, <2>7, <2>8, <2>9, <2>10, <2>11 DEF MockInv
<1> QED
  BY <1>3, <1>4, <1>5

\* A call is answered: what only reads the other calls is kept.
LEMMA CallLeaves ==
  ASSUME MockInv, NEW c \in mockCalls, mockCalls' = mockCalls \ {c},
         UNCHANGED <<mocks, mockProject, bench, mockSent>>
  PROVE  CallsNumbered' /\ OwnNumbers' /\ Current' = Current
BY DEF MockInv, NumbersFit, CallsNumbered, OwnNumbers, Current

\* An update is written over the routes of whatever runs.
LEMMA Updates == MockInv /\ UpdateArrives => MockInv'
<1> SUFFICES ASSUME MockInv, UpdateArrives PROVE MockInv'
  OBVIOUS
<1>1. PICK c \in mockCalls :
          /\ c.kind = "update"
          /\ mockCalls' = mockCalls \ {c}
          /\ registry' = IF ValidRoutes(c.routes) /\ registry[c.id] # NoInstance
                         THEN [registry EXCEPT ![c.id] =
                                 [start |-> @.start, seq |-> IF c.n < @.seq THEN @.seq ELSE c.n,
                                  routes |-> c.routes, late |-> c.n < @.seq]]
                         ELSE registry
  BY DEF UpdateArrives
<1>2. /\ UNCHANGED <<missed, crossed, listeners>>
      /\ UNCHANGED <<mocks, mockProject, bench, runningMocks, latestMock, changing, generatingMock, mockEdits, mockSent>>
  BY DEF UpdateArrives, mockRendererVars
<1>3. MockTypeOK /\ c \in MockCalls /\ c.id \in MockIds /\ c.n \in Nat /\ c.routes \in SUBSET Routes
      /\ registry \in [MockIds -> Instances] /\ mockSent \in Nat
  BY DEF MockInv, MockTypeOK, MockCalls
<1> DEFINE old == registry[c.id]
           new == [start |-> old.start, seq |-> IF c.n < old.seq THEN old.seq ELSE c.n,
                   routes |-> c.routes, late |-> c.n < old.seq]
<1>4. old \in Instances /\ old.start \in Nat /\ old.seq \in Nat
  BY <1>3 DEF Instances
<1>5. \/ registry' = registry /\ ~(ValidRoutes(c.routes) /\ old # NoInstance)
      \/ registry' = [registry EXCEPT ![c.id] = new] /\ ValidRoutes(c.routes) /\ old # NoInstance
  BY <1>1, <1>3
<1>6. /\ new.start = old.start /\ new.routes = c.routes
      /\ c.n < old.seq => new.seq = old.seq
      /\ ~(c.n < old.seq) => new.seq = c.n
  OBVIOUS
<1>6a. new.late = (c.n < old.seq)
  OBVIOUS
<1>6b. new \in Instances
  BY <1>3, <1>4 DEF Instances
<1>7. c.n <= mockSent
  BY <1>1 DEF MockInv, NumbersFit, CallsNumbered, Numbered
<1> HIDE DEF new
<1>8. /\ \A id \in MockIds \ {c.id} : registry'[id] = registry[id]
      /\ registry'[c.id] = old \/ (ValidRoutes(c.routes) /\ old # NoInstance /\ registry'[c.id] = new)
      /\ registry' \in [MockIds -> Instances]
  <2>1. CASE registry' = registry
    <3>1. /\ \A id \in MockIds \ {c.id} : registry'[id] = registry[id]
          /\ registry'[c.id] = old
      BY <2>1
    <3> QED
      BY <1>3, <2>1, <3>1
  <2>2. CASE registry' = [registry EXCEPT ![c.id] = new] /\ ValidRoutes(c.routes) /\ old # NoInstance
    BY <1>3, <1>6b, <2>2
  <2> QED
    BY <1>5, <2>1, <2>2
<1>9. \A id \in MockIds : registry'[id].start = registry[id].start /\ (registry'[id] = NoInstance <=> registry[id] = NoInstance)
  <2>1. old # NoInstance => new # NoInstance
    <3>1. old # NoInstance => old.start # 0
      BY <1>3 DEF MockInv, NumbersFit, InstancesNumbered
    <3> QED
      BY <1>6, <3>1 DEF NoInstance
  <2> QED
    BY <1>6, <1>8, <2>1
<1>10. /\ \A e \in mockCalls' : e \in mockCalls
       /\ \A e \in mockCalls : e.kind # "update" => e \in mockCalls'
  BY <1>1
<1>11. CallsNumbered' /\ OwnNumbers' /\ Current' = Current
  BY <1>1, <1>2, CallLeaves
<1>12. MockTypeOK'
  BY <1>2, <1>3, <1>8, <1>10 DEF MockTypeOK
<1>13. ServersFit' /\ TimerFits'
  BY <1>2, <1>10, <1>11 DEF MockInv, ServersFit, Known, Exists, TimerFits
<1>14. InstancesNumbered'
  <2>1. \A id \in MockIds : registry'[id].seq <= mockSent
    <3>1. \A id \in MockIds : registry[id].seq <= mockSent
      BY DEF MockInv, NumbersFit, InstancesNumbered
    <3>2. new.seq <= mockSent
      BY <1>3, <1>6, <1>7, <3>1
    <3> QED
      BY <1>8, <3>1, <3>2
  <2>2. \A id \in MockIds : runningMocks[id] <= mockSent /\ registry[id].start <= mockSent
                              /\ (registry[id].start = 0 => registry[id] = NoInstance)
    BY DEF MockInv, NumbersFit, InstancesNumbered
  <2>3. \A l \in listeners : l.start # 0 /\ l.start <= mockSent
    BY DEF MockInv, NumbersFit, InstancesNumbered
  <2>4. \A id \in MockIds : /\ runningMocks[id] <= mockSent /\ registry'[id].start <= mockSent /\ registry'[id].seq <= mockSent
                            /\ registry'[id].start = 0 => registry'[id] = NoInstance
    BY <1>8, <1>9, <2>1, <2>2
  <2> QED
    BY <1>2, <2>3, <2>4 DEF InstancesNumbered
<1>15. StartsFit'
  <2> SUFFICES ASSUME NEW e \in mockCalls', e.kind = "start"
               PROVE  /\ \A b \in mockCalls' : b.of # e.n
                      /\ \A id \in MockIds : runningMocks[id] # e.n /\ (registry'[id].start = e.n => e.phase = "done" /\ id = e.id)
                      /\ e.phase = "done" => registry'[e.id].start = e.n \/ e.id \in crossed
                      /\ e.phase = "asked" => \A l \in listeners : l.start # e.n
    BY <1>2 DEF StartsFit
  <2>1. e \in mockCalls /\ e.id \in MockIds
    BY <1>3, <1>10 DEF MockTypeOK, MockCalls
  <2> QED
    BY <1>9, <1>10, <2>1 DEF MockInv, StartsFit
<1>16. ListenersFit'
  BY <1>2, <1>9, <1>10 DEF MockInv, ListenersFit
<1>17. StopsFit'
  <2>1. StopCallsFit'
    BY <1>2, <1>9, <1>10, <1>3 DEF MockInv, StopsFit, StopCallsFit, MockTypeOK, MockCalls
  <2>2. ListedFits'
    BY <1>2, <1>9, <1>10 DEF MockInv, StopsFit, ListedFits
  <2> QED
    BY <2>1, <2>2 DEF StopsFit
<1>18. StoppingFits'
  <2> SUFFICES ASSUME changing = "stopping", NEW id \in MockIds, registry'[id] # NoInstance,
                      registry'[id].start \notin missed
               PROVE  \/ \E e \in mockCalls' : e.kind = "start" /\ e.n = registry'[id].start
                      \/ \E e \in mockCalls' : e.kind = "stop for change" /\ e.id = id
    BY <1>2 DEF StoppingFits
  <2>1. \/ \E e \in mockCalls : e.kind = "start" /\ e.n = registry[id].start
        \/ \E e \in mockCalls : e.kind = "stop for change" /\ e.id = id
    BY <1>9 DEF MockInv, StoppingFits
  <2> QED
    BY <1>9, <1>10, <2>1
<1>19. OrphansHaveCause'
  BY <1>2, <1>9, <1>10 DEF MockInv, OrphansHaveCause
<1>20. EditsArrive'
  <2> SUFFICES ASSUME NEW j \in MockIds, Serving(j)', latestMock[j] # Current[j].routes
               PROVE  (\/ \E e \in UpdatesOf(j) : /\ e.routes = Current[j].routes /\ e.n >= registry[j].seq
                                                  /\ \A d \in UpdatesOf(j) : d.n <= e.n
                       \/ /\ \A d \in UpdatesOf(j) : d.n < registry[j].seq
                          /\ registry[j].late \/ registry[j].routes = Current[j].routes)'
    BY <1>2, <1>11 DEF EditsArrive
  <2>1. Serving(j) /\ ValidRoutes(Current[j].routes) /\ registry[j].start # 0
    <3>1. \A e \in mockCalls : e.kind = "stop" /\ e.id = j => e \in mockCalls'
      BY <1>10
    <3> QED
      BY <1>2, <1>9, <1>11, <3>1 DEF Serving
  <2>2. \A d \in mockCalls : d.n \in Nat /\ d.id \in MockIds
    BY <1>3 DEF MockTypeOK, MockCalls
  <2>3. UpdatesOf(j)' = UpdatesOf(j) \ {c}
    BY <1>1 DEF UpdatesOf
  <2>4. \/ \E e \in UpdatesOf(j) : /\ e.routes = Current[j].routes /\ e.n >= registry[j].seq
                                   /\ \A d \in UpdatesOf(j) : d.n <= e.n
        \/ /\ \A d \in UpdatesOf(j) : d.n < registry[j].seq
           /\ registry[j].late \/ registry[j].routes = Current[j].routes
    BY <2>1 DEF MockInv, EditsArrive
  <2>5. CASE registry'[j] = registry[j] /\ c.id # j
    <3>1. UpdatesOf(j)' = UpdatesOf(j)
      BY <2>3, <2>5 DEF UpdatesOf
    <3> QED
      BY <1>11, <2>4, <2>5, <3>1
  <2>6. CASE registry'[j] = registry[j] /\ c.id = j /\ ~ValidRoutes(c.routes)
    <3>1. c.routes # Current[j].routes
      BY <2>1, <2>6
    <3> QED
      BY <1>11, <2>3, <2>4, <2>6, <3>1
  <2>7. CASE c.id = j /\ registry'[j] = new
    <3>1. registry[j] = old /\ c \in UpdatesOf(j)
      BY <1>1, <2>7 DEF UpdatesOf
    <3>2. \A d \in UpdatesOf(j) : d \in mockCalls /\ d.n \in Nat /\ (d # c => d.n # c.n)
      BY <1>1, <2>2 DEF UpdatesOf, MockInv, NumbersFit, OwnNumbers, Numbered
    <3>3. CASE \E e \in UpdatesOf(j) : /\ e.routes = Current[j].routes /\ e.n >= registry[j].seq
                                       /\ \A d \in UpdatesOf(j) : d.n <= e.n
      <4>1. PICK e \in UpdatesOf(j) : /\ e.routes = Current[j].routes /\ e.n >= registry[j].seq
                                      /\ \A d \in UpdatesOf(j) : d.n <= e.n
        BY <3>3
      <4>2. CASE e = c
        <5>1. ~(c.n < old.seq) /\ new.seq = c.n
          BY <1>3, <1>4, <1>6, <3>1, <4>1, <4>2
        <5>2. \A d \in UpdatesOf(j)' : d.n < new.seq
          BY <1>3, <2>3, <3>2, <4>1, <4>2, <5>1
        <5>3. new.routes = Current[j].routes
          BY <1>6, <4>1, <4>2
        <5> QED
          BY <1>11, <2>7, <5>2, <5>3
      <4>3. CASE e # c
        <5>1. e \in UpdatesOf(j)' /\ \A d \in UpdatesOf(j)' : d.n <= e.n
          BY <2>3, <4>1, <4>3
        <5>2. e.n >= new.seq
          BY <1>3, <1>4, <1>6, <3>1, <3>2, <4>1
        <5> QED
          BY <1>11, <2>7, <4>1, <5>1, <5>2
      <4> QED
        BY <4>2, <4>3
    <3>4. CASE \A d \in UpdatesOf(j) : d.n < registry[j].seq
      <4>1. c.n < old.seq /\ new.seq = old.seq
        BY <1>6, <3>1, <3>4
      <4>2. new.late
        BY <1>6a, <4>1
      <4>3. \A d \in UpdatesOf(j)' : d.n < new.seq
        BY <2>3, <3>1, <3>4, <4>1
      <4> QED
        BY <2>7, <4>2, <4>3
    <3> QED
      BY <2>4, <3>3, <3>4
  <2>8. c.id = j => ~(registry[j] = NoInstance)
    BY <2>1 DEF NoInstance
  <2> QED
    <3>1. c.id # j => registry'[j] = registry[j]
      BY <1>8
    <3>2. c.id = j => registry'[j] = new \/ (registry'[j] = registry[j] /\ ~ValidRoutes(c.routes))
      BY <1>3, <1>5, <2>8
    <3> QED
      BY <2>5, <2>6, <2>7, <3>1, <3>2
<1> QED
  BY <1>11, <1>12, <1>13, <1>14, <1>15, <1>16, <1>17, <1>18, <1>19, <1>20 DEF MockInv, NumbersFit

-----------------------------------------------------------------------------
(* Answers reach the window.                                               *)

LEMMA StartAnswers == MockInv /\ StartAnswered => MockInv'
<1> SUFFICES ASSUME MockInv, StartAnswered PROVE MockInv'
  OBVIOUS
<1>1. PICK c \in mockCalls :
          /\ c.kind = "start" /\ c.phase \in {"done", "failed"}
          /\ mockCalls' = mockCalls \ {c}
          /\ \/ c.phase = "failed" /\ UNCHANGED <<runningMocks, latestMock, missed>>
             \/ /\ c.phase = "done"
                /\ runningMocks' = [runningMocks EXCEPT ![c.id] = c.n]
                /\ latestMock' = StartedEffect(c.id, [runningMocks EXCEPT ![c.id] = c.n])
                /\ missed' = IF changing = "stopping" THEN missed \cup {c.n} ELSE missed
  BY DEF StartAnswered
<1>2. UNCHANGED <<mocks, mockProject, bench, registry, listeners, changing, generatingMock,
                   mockEdits, mockSent, crossed>>
  BY DEF StartAnswered
<1>3. MockTypeOK /\ c \in MockCalls /\ c.id \in MockIds /\ c.n \in Nat /\ mockProject \in MockProjects
  BY DEF MockInv, MockTypeOK, MockCalls
<1>4. CallsNumbered' /\ OwnNumbers' /\ Current' = Current
  BY <1>1, <1>2, CallLeaves
<1>5. /\ \A e \in mockCalls' : e \in mockCalls /\ e # c
      /\ \A e \in mockCalls : e.kind # "start" => e \in mockCalls'
      /\ \A e \in mockCalls : e # c => e \in mockCalls'
      /\ missed \subseteq missed'
  BY <1>1
<1>6. c.n # 0 /\ c.n <= mockSent /\ \A e \in mockCalls' : e.kind = "start" => e.n # c.n
  BY <1>1, <1>5 DEF MockInv, NumbersFit, CallsNumbered, OwnNumbers, Numbered
<1>7. /\ \A id \in MockIds \ {c.id} : runningMocks'[id] = runningMocks[id]
      /\ runningMocks'[c.id] \in {runningMocks[c.id], c.n}
      /\ runningMocks' \in [MockIds -> Nat]
  BY <1>1, <1>3 DEF MockTypeOK
<1>8. /\ \A id \in MockIds : bench = id /\ id # c.id => latestMock'[id] = latestMock[id]
      /\ bench = c.id /\ runningMocks'[c.id] # runningMocks[c.id] => latestMock'[c.id] = Current[c.id].routes
      /\ latestMock'[c.id] # latestMock[c.id] => bench = c.id /\ latestMock'[c.id] = Current[c.id].routes
      /\ latestMock' \in [MockIds -> SUBSET Routes]
  <2>1. latestMock \in [MockIds -> SUBSET Routes] /\ runningMocks \in [MockIds -> Nat]
        /\ \A id \in MockIds : Current[id].routes \in SUBSET Routes
    BY <1>3 DEF MockTypeOK, Current, Servers
  <2>2. CASE c.phase = "failed" /\ UNCHANGED <<runningMocks, latestMock, missed>>
    BY <2>1, <2>2
  <2>3. CASE /\ runningMocks' = [runningMocks EXCEPT ![c.id] = c.n]
             /\ latestMock' = StartedEffect(c.id, [runningMocks EXCEPT ![c.id] = c.n])
    <3>1. [runningMocks EXCEPT ![c.id] = c.n][c.id] = c.n /\ c.id # Unmounted
      BY <1>3, <2>1, MockAssumptions DEF Unmounted
    <3>2. latestMock' = IF bench = c.id THEN [latestMock EXCEPT ![c.id] = Current[c.id].routes] ELSE latestMock
      BY <1>6, <2>3, <3>1 DEF StartedEffect, SyncEffect
    <3> QED
      BY <1>3, <2>1, <3>2
  <2> QED
    BY <1>1, <2>2, <2>3
<1>9. MockTypeOK'
  BY <1>2, <1>3, <1>5, <1>7, <1>8 DEF MockTypeOK
<1>10. ServersFit'
  <2>1. \A id \in MockIds : Known(id)' = Known(id)
    BY <1>2 DEF Known
  <2>2. Known(c.id) /\ \A e \in mockCalls' : e.id \in MockIds
    BY <1>1, <1>3, <1>5 DEF MockInv, ServersFit, MockTypeOK, MockCalls
  <2>3. (\A id \in MockIds : runningMocks[id] # 0 => Known(id))'
    BY <1>7, <2>1, <2>2 DEF MockInv, ServersFit
  <2>4. (\A e \in mockCalls : e.kind = "start" => Known(e.id) /\ e.port # 0)'
    BY <1>5, <2>1, <2>2 DEF MockInv, ServersFit
  <2> QED
    BY <1>2, <1>4, <2>3, <2>4 DEF MockInv, ServersFit, Exists
<1>11. InstancesNumbered'
  BY <1>2, <1>6, <1>7 DEF MockInv, NumbersFit, InstancesNumbered
<1>12. StartsFit'
  BY <1>2, <1>5, <1>6, <1>7 DEF MockInv, StartsFit
<1>13. ListenersFit'
  BY <1>2, <1>5 DEF MockInv, ListenersFit
<1>14. StopsFit'
  <2>1. StopCallsFit'
    BY <1>2, <1>5 DEF MockInv, StopsFit, StopCallsFit
  <2>2. ListedFits'
    <3> SUFFICES ASSUME changing # "stopping", NEW id \in MockIds, registry[id] = NoInstance,
                        runningMocks'[id] # 0, id \notin crossed
                 PROVE  \E e \in mockCalls' : e.kind = "stop" /\ e.id = id /\ e.phase = "done"
      BY <1>2 DEF ListedFits
    <3>1. CASE runningMocks'[id] = runningMocks[id]
      BY <1>5, <3>1 DEF MockInv, StopsFit, ListedFits
    <3>2. CASE runningMocks'[id] # runningMocks[id]
      <4>1. id = c.id /\ c.phase = "done"
        BY <1>1, <1>7, <3>2
      <4>2. registry[c.id].start = c.n
        BY <1>1, <4>1 DEF MockInv, StartsFit
      <4> QED
        BY <1>6, <4>1, <4>2 DEF NoInstance
    <3> QED
      BY <3>1, <3>2
  <2> QED
    BY <2>1, <2>2 DEF StopsFit
<1>15. \A id \in MockIds : registry[id].start = c.n => c.phase = "done" /\ id = c.id
  BY <1>1 DEF MockInv, StartsFit
<1>16. StoppingFits'
  <2> SUFFICES ASSUME changing = "stopping", NEW id \in MockIds, registry[id] # NoInstance,
                      registry[id].start \notin missed'
               PROVE  \/ \E e \in mockCalls' : e.kind = "start" /\ e.n = registry[id].start
                      \/ \E e \in mockCalls' : e.kind = "stop for change" /\ e.id = id
    BY <1>2 DEF StoppingFits
  <2>1. registry[id].start # c.n
    BY <1>1, <1>15
  <2>2. \/ \E e \in mockCalls : e.kind = "start" /\ e.n = registry[id].start
        \/ \E e \in mockCalls : e.kind = "stop for change" /\ e.id = id
    BY <1>5 DEF MockInv, StoppingFits
  <2> QED
    BY <1>1, <1>5, <2>1, <2>2
<1>17. OrphansHaveCause'
  <2> SUFFICES ASSUME NEW id \in MockIds, registry[id] # NoInstance, runningMocks'[id] = 0,
                      registry[id].start \notin missed'
               PROVE  \E e \in mockCalls' : e.kind = "start" /\ e.n = registry[id].start
    BY <1>2 DEF OrphansHaveCause
  <2>1. registry[id].start # c.n
    BY <1>1, <1>3, <1>6, <1>15 DEF MockTypeOK
  <2>2. runningMocks[id] = 0
    BY <1>6, <1>7
  <2>3. \E e \in mockCalls : e.kind = "start" /\ e.n = registry[id].start
    BY <1>5, <2>2 DEF MockInv, OrphansHaveCause
  <2> QED
    BY <1>5, <2>1, <2>3
<1>18. TimerFits'
  BY <1>2, <1>4, <1>7, <1>8 DEF MockInv, TimerFits
<1>19. EditsArrive'
  <2>1. \A id \in MockIds : UpdatesOf(id)' = UpdatesOf(id)
    BY <1>1, <1>5 DEF UpdatesOf
  <2>2. ASSUME NEW id \in MockIds, Serving(id)', latestMock'[id] # Current[id].routes
        PROVE  Serving(id) /\ latestMock[id] # Current[id].routes
    <3>1. bench = id
      BY <1>2, <2>2 DEF Serving
    <3>2. runningMocks'[id] = runningMocks[id] /\ latestMock'[id] = latestMock[id]
      BY <1>7, <1>8, <2>2, <3>1
    <3> QED
      BY <1>2, <1>4, <1>5, <2>2, <3>2 DEF Serving
  <2> QED
    BY <1>2, <1>4, <2>1, <2>2 DEF MockInv, EditsArrive
<1> QED
  BY <1>4, <1>9, <1>10, <1>11, <1>12, <1>13, <1>14, <1>16, <1>17, <1>18, <1>19 DEF MockInv, NumbersFit

LEMMA StopAnswers == MockInv /\ StopAnswered => MockInv'
<1> SUFFICES ASSUME MockInv, StopAnswered PROVE MockInv'
  OBVIOUS
<1>1. PICK c \in mockCalls :
          /\ c.kind = "stop" /\ c.phase \in {"done", "failed"}
          /\ mockCalls' = mockCalls \ {c}
          /\ runningMocks' = IF c.phase = "done" THEN [runningMocks EXCEPT ![c.id] = 0]
                             ELSE runningMocks
          /\ missed' = IF c.phase = "done" /\ registry[c.id] # NoInstance
                       THEN missed \cup {registry[c.id].start} ELSE missed
  BY DEF StopAnswered
<1>2. UNCHANGED <<mocks, mockProject, bench, latestMock, registry, listeners, changing, generatingMock,
                   mockEdits, mockSent, crossed>>
  BY DEF StopAnswered
<1>3. MockTypeOK /\ c \in MockCalls /\ c.id \in MockIds /\ runningMocks \in [MockIds -> Nat]
  BY DEF MockInv, MockTypeOK, MockCalls
<1>4. CallsNumbered' /\ OwnNumbers' /\ Current' = Current
  BY <1>1, <1>2, CallLeaves
<1>5. /\ \A e \in mockCalls' : e \in mockCalls /\ e # c
      /\ \A e \in mockCalls : e.kind # "stop" => e \in mockCalls'
      /\ \A e \in mockCalls : e # c => e \in mockCalls'
      /\ missed \subseteq missed'
  BY <1>1
<1>6. /\ \A id \in MockIds \ {c.id} : runningMocks'[id] = runningMocks[id]
      /\ c.phase = "failed" => runningMocks'[c.id] = runningMocks[c.id]
      /\ c.phase = "done" => runningMocks'[c.id] = 0
      /\ runningMocks' \in [MockIds -> Nat]
      /\ \A id \in MockIds : runningMocks'[id] \in {runningMocks[id], 0}
  BY <1>1, <1>3
<1>7. MockTypeOK'
  BY <1>2, <1>3, <1>5, <1>6 DEF MockTypeOK
<1>8. ServersFit'
  BY <1>2, <1>4, <1>5, <1>6 DEF MockInv, ServersFit, Known, Exists
<1>9. InstancesNumbered'
  <2>1. mockSent \in Nat
    BY NumberTyped DEF MockInv
  <2>2. 0 <= mockSent
    BY <2>1
  <2> QED
    BY <1>2, <1>6, <2>2 DEF MockInv, NumbersFit, InstancesNumbered
<1>10. StartsFit'
  <2>1. \A e \in mockCalls : e.kind = "start" => e.n # 0
    BY DEF MockInv, NumbersFit, CallsNumbered, Numbered
  <2>2. \A e \in mockCalls : e.kind = "start" => \A id \in MockIds : runningMocks'[id] # e.n
    BY <1>6, <2>1 DEF MockInv, StartsFit
  <2> QED
    BY <1>2, <1>5, <2>2 DEF MockInv, StartsFit
<1>11. ListenersFit'
  BY <1>2, <1>5 DEF MockInv, ListenersFit
<1>12. StopsFit'
  <2>1. StopCallsFit'
    BY <1>2, <1>5 DEF MockInv, StopsFit, StopCallsFit
  <2>2. ListedFits'
    <3> SUFFICES ASSUME changing # "stopping", NEW id \in MockIds, registry[id] = NoInstance,
                        runningMocks'[id] # 0, id \notin crossed
                 PROVE  \E e \in mockCalls' : e.kind = "stop" /\ e.id = id /\ e.phase = "done"
      BY <1>2 DEF ListedFits
    <3>1. runningMocks[id] # 0
      BY <1>6
    <3>2. PICK e \in mockCalls : e.kind = "stop" /\ e.id = id /\ e.phase = "done"
      BY <3>1 DEF MockInv, StopsFit, ListedFits
    <3>3. e # c
      BY <1>6, <3>2
    <3> QED
      BY <1>5, <3>2, <3>3
  <2> QED
    BY <2>1, <2>2 DEF StopsFit
<1>13. StoppingFits'
  <2> SUFFICES ASSUME changing = "stopping", NEW id \in MockIds, registry[id] # NoInstance,
                      registry[id].start \notin missed'
               PROVE  \/ \E e \in mockCalls' : e.kind = "start" /\ e.n = registry[id].start
                      \/ \E e \in mockCalls' : e.kind = "stop for change" /\ e.id = id
    BY <1>2 DEF StoppingFits
  <2>1. \/ \E e \in mockCalls : e.kind = "start" /\ e.n = registry[id].start
        \/ \E e \in mockCalls : e.kind = "stop for change" /\ e.id = id
    BY <1>5 DEF MockInv, StoppingFits
  <2> QED
    BY <1>5, <2>1
<1>14. OrphansHaveCause'
  <2> SUFFICES ASSUME NEW id \in MockIds, registry[id] # NoInstance, runningMocks'[id] = 0,
                      registry[id].start \notin missed'
               PROVE  \E e \in mockCalls' : e.kind = "start" /\ e.n = registry[id].start
    BY <1>2 DEF OrphansHaveCause
  <2>1. runningMocks[id] = 0
    BY <1>1, <1>6
  <2>2. \E e \in mockCalls : e.kind = "start" /\ e.n = registry[id].start
    BY <1>5, <2>1 DEF MockInv, OrphansHaveCause
  <2> QED
    BY <1>5, <2>2
<1>15. TimerFits'
  BY <1>2, <1>4, <1>6 DEF MockInv, TimerFits
<1>16. EditsArrive'
  <2>1. \A id \in MockIds : UpdatesOf(id)' = UpdatesOf(id)
    BY <1>1, <1>5 DEF UpdatesOf
  <2>2. ASSUME NEW id \in MockIds, Serving(id)' PROVE Serving(id)
    <3>1. runningMocks'[id] # 0 /\ registry[id].start = runningMocks'[id]
      BY <1>2, <2>2 DEF Serving
    <3>2. runningMocks'[id] = runningMocks[id]
      BY <1>6, <3>1
    <3>3. c.id = id => c.of # runningMocks[id]
      BY <1>1, <3>1, <3>2 DEF MockInv, StopsFit, StopCallsFit
    <3> QED
      BY <1>2, <1>4, <1>5, <2>2, <3>2, <3>3 DEF Serving
  <2> QED
    BY <1>2, <1>4, <2>1, <2>2 DEF MockInv, EditsArrive
<1> QED
  BY <1>4, <1>7, <1>8, <1>9, <1>10, <1>11, <1>12, <1>13, <1>14, <1>15, <1>16 DEF MockInv, NumbersFit

LEMMA ListEmptied == MockInv /\ RuntimeStopped => MockInv'
<1> SUFFICES ASSUME MockInv, RuntimeStopped PROVE MockInv'
  OBVIOUS
<1>1. /\ changing = "stopping" /\ changing' = "stopped"
      /\ \A c \in mockCalls : c.kind # "stop for change"
      /\ runningMocks' = [id \in MockIds |-> 0]
      /\ UNCHANGED <<mocks, mockProject, bench, latestMock, mockCalls, registry, listeners,
                     generatingMock, mockEdits, mockSent, missed, crossed>>
  BY DEF RuntimeStopped
<1>2. /\ \A id \in MockIds : runningMocks'[id] = 0
      /\ runningMocks' \in [MockIds -> Nat]
  BY <1>1
<1>3. MockTypeOK'
  BY <1>1, <1>2 DEF MockInv, MockTypeOK
<1>4. ServersFit'
  BY <1>1, <1>2 DEF MockInv, ServersFit, Known, Exists, Current
<1>5. NumbersFit'
  <2>1. mockSent \in Nat
    BY NumberTyped DEF MockInv
  <2>2. 0 <= mockSent
    BY <2>1
  <2>3. InstancesNumbered'
    BY <1>1, <1>2, <2>2 DEF MockInv, NumbersFit, InstancesNumbered
  <2>4. CallsNumbered' /\ OwnNumbers'
    BY <1>1 DEF MockInv, NumbersFit, CallsNumbered, OwnNumbers
  <2> QED
    BY <2>3, <2>4 DEF NumbersFit
<1>6. StartsFit'
  <2>1. \A e \in mockCalls : e.kind = "start" => e.n # 0
    BY DEF MockInv, NumbersFit, CallsNumbered, Numbered
  <2> QED
    BY <1>1, <1>2, <2>1 DEF MockInv, StartsFit
<1>7. ListenersFit' /\ StopsFit'
  BY <1>1, <1>2 DEF MockInv, ListenersFit, StopsFit, StopCallsFit, ListedFits
<1>8. StoppingFits' /\ OrphansHaveCause'
  BY <1>1 DEF MockInv, StoppingFits, OrphansHaveCause
<1>9. TimerFits' /\ EditsArrive'
  BY <1>2 DEF TimerFits, EditsArrive, Serving
<1> QED
  BY <1>3, <1>4, <1>5, <1>6, <1>7, <1>8, <1>9 DEF MockInv

LEMMA MockInductive == MockInv /\ [MockNext]_mockVars => MockInv'
<1> SUFFICES ASSUME MockInv, [MockNext]_mockVars PROVE MockInv'
  OBVIOUS
<1>1. CASE UNCHANGED mockVars
  <2>1. UNCHANGED <<mocks, mockProject, bench, runningMocks, latestMock, mockCalls, registry,
                    listeners, changing, generatingMock, mockEdits, mockSent, missed, crossed>>
    BY <1>1 DEF mockVars
  <2>2. MockTypeOK' /\ ShownFits
    BY <2>1 DEF MockInv, MockTypeOK, ShownFits, Current
  <2>3. /\ bench' # Unmounted => Exists(bench)'
        /\ \A p \in MockProjects, id \in MockIds : mocks'[p][id] # NoMock => mocks'[p][id].port # 0
    BY <2>1 DEF MockInv, ServersFit, Exists, Current
  <2> QED
    BY <2>1, <2>2, <2>3, ScreenStep
<1>2. CASE MockNext
  BY <1>2, EditSteps, ViewSteps, CreateSteps, TimerSends, ToggleSends, ResponseApplied, ChangeBegins,
     Binds, Registers, Stops, ChangeStops, ListenerLeaves, Updates, StartAnswers, StopAnswers,
     ListEmptied DEF MockNext
<1> QED
  BY <1>1, <1>2

(* The mock workbench and the registry agree: the routes on the screen     *)
(* reach the listener that runs, a listed server is registered, and a      *)
(* server that cannot be stopped from the window has one of two causes     *)
(* (MockServerWorkbench and App.tsx over mock_server.rs).                  *)
THEOREM MocksStaySound == MockSpec => []MocksSound
BY MockStarts, MockInductive, MockHolds, PTL DEF MockSpec

(***************************************************************************)
(* Proof of SecretsKept, for any projects and bounds.  A project is at     *)
(* risk while its newest secret is not in its file and nothing excuses     *)
(* that.  There is at most one, the active one; its secret is in the open  *)
(* session with the pending flag up, and whatever could take the session   *)
(* or the flag away, a save, an unlock or a project change that has        *)
(* stopped, either carries the secret or is older than it.                 *)
(***************************************************************************)
Origins == VaultProjects \cup {"none"}
VaultContents == [from : Origins, v : Nat]
VaultSessions == [unlocked : BOOLEAN, typed : BOOLEAN, from : Origins, v : Nat]
FlushReasons == {"timer", "lock", "change"}
SaveReasons == FlushReasons \cup {"button", "create"}
SentSaves == [to : VaultProjects, from : Origins, v : Nat, typed : BOOLEAN, gen : Nat, why : SaveReasons]
OpenUnlocks == [project : VaultProjects, from : Origins, v : Nat, auto : BOOLEAN]
ChangePhases == [phase : {"no", "flushing", "stopped", "cleared"}, gen : Nat]

VaultTypeOK ==
    /\ vaultProject \in VaultProjects /\ session \in VaultSessions
    /\ vaultFile \in [VaultProjects -> VaultContents] /\ lastSecret \in [VaultProjects -> Nat]
    /\ vaultSaves \subseteq SentSaves /\ unlocks \subseteq OpenUnlocks
    /\ switching \in ChangePhases
    /\ {saveTimer, generation, secretEdits} \subseteq Nat /\ savePending \in BOOLEAN

\* Nothing is newer than the newest edit and the newest generation.
NoneNewer ==
    /\ session.v <= secretEdits
    /\ \A p \in VaultProjects : vaultFile[p].v <= secretEdits /\ lastSecret[p] <= secretEdits
    /\ \A u \in unlocks : u.v <= secretEdits
    /\ \A c \in vaultSaves : c.v <= secretEdits /\ c.gen <= generation
    /\ saveTimer <= generation /\ switching.gen <= generation

\* A project change waits for one flush.
OneFlush ==
    /\ \A c \in vaultSaves : c.why = "change" => switching.phase = "flushing" /\ c.gen = switching.gen
    /\ \A c, d \in vaultSaves : c.why = "change" /\ d.why = "change" => c = d

AtRisk(p) == Unsaved(p) /\ p \notin excused
Guarded(p) ==
    /\ vaultProject = p /\ HoldsUnsaved(p) /\ savePending
    /\ \A c \in vaultSaves : c.why \in FlushReasons /\ c.gen = generation => c.to = p /\ Holds(c, p)
    /\ \A u \in unlocks : ~u.auto => u.v < lastSecret[p]
    /\ switching.phase = "stopped" => switching.gen < generation

VaultInv == VaultTypeOK /\ NoneNewer /\ OneFlush /\ \A p \in VaultProjects : AtRisk(p) => Guarded(p)

\* What is sent is a save of the open session, or of a new vault.
LEMMA SentSave ==
  ASSUME VaultTypeOK, NEW sent \in VaultSessions, NEW gen \in Nat, NEW why \in SaveReasons
  PROVE  LET c == VaultSave(vaultProject, sent, gen, why) IN
         /\ c \in SentSaves
         /\ c.to = vaultProject /\ c.from = sent.from /\ c.v = sent.v /\ c.gen = gen /\ c.why = why
  BY DEF VaultTypeOK, VaultSave, SentSaves, VaultSessions

LEMMA NewVaultType ==
  ASSUME VaultTypeOK
  PROVE  NewVault \in VaultSessions /\ NewVault.v = 0
  BY DEF VaultTypeOK, NewVault, VaultSessions, Origins

LEMMA SaveAnsweredType ==
  ASSUME VaultTypeOK, NEW c \in vaultSaves, NEW landed \in BOOLEAN, SaveAnswered(c, landed)
  PROVE  session' \in VaultSessions /\ savePending' \in BOOLEAN /\ switching' \in ChangePhases
  <1>1. Locked \in VaultSessions /\ [unlocked |-> TRUE, typed |-> TRUE, from |-> c.from, v |-> c.v] \in VaultSessions
    BY DEF Locked, VaultSessions, Origins, VaultTypeOK, SentSaves
  <1>2. session' \in VaultSessions
    BY <1>1 DEF SaveAnswered, SessionAfter, VaultTypeOK
  <1>3. savePending' \in BOOLEAN
    BY DEF SaveAnswered, PendingAfter, VaultTypeOK
  <1>4. switching' \in ChangePhases
    BY DEF SaveAnswered, Settled, VaultTypeOK, ChangePhases
  <1>5. QED
    BY <1>2, <1>3, <1>4

LEMMA VaultTypeStep ==
  ASSUME VaultTypeOK, VaultNext
  PROVE  VaultTypeOK'
  <1> USE DEF VaultTypeOK
  <1>0. \A auto \in BOOLEAN, file \in VaultContents :
           [project |-> vaultProject, from |-> file.from, v |-> file.v, auto |-> auto] \in OpenUnlocks
    BY DEF OpenUnlocks, VaultContents
  <1>1. CASE AutoUnlockReads
    <2>1. vaultFile[vaultProject] \in VaultContents
      OBVIOUS
    <2> DEFINE u == [project |-> vaultProject, from |-> vaultFile[vaultProject].from,
                     v |-> vaultFile[vaultProject].v, auto |-> TRUE]
    <2>2. u \in OpenUnlocks /\ unlocks' = unlocks \cup {u}
      BY <1>0, <1>1, <2>1 DEF AutoUnlockReads
    <2>3. QED
      BY <1>1, <2>2 DEF AutoUnlockReads
  <1>2. CASE AutoUnlockAnswered
    BY <1>2 DEF AutoUnlockAnswered, OpenUnlocks, VaultSessions
  <1>3. CASE UnlockReads
    <2>1. vaultFile[vaultProject] \in VaultContents
      OBVIOUS
    <2> DEFINE u == [project |-> vaultProject, from |-> vaultFile[vaultProject].from,
                     v |-> vaultFile[vaultProject].v, auto |-> FALSE]
    <2>2. u \in OpenUnlocks /\ unlocks' = unlocks \cup {u}
      BY <1>0, <1>3, <2>1 DEF UnlockReads
    <2>3. QED
      BY <1>3, <2>2 DEF UnlockReads
  <1>4. CASE UnlockAnswered
    <2>1. PICK u \in unlocks :
             /\ unlocks' = unlocks \ {u}
             /\ session' = [unlocked |-> TRUE, typed |-> TRUE, from |-> u.from, v |-> u.v] \/ UNCHANGED session
      BY <1>4 DEF UnlockAnswered
    <2>2. [unlocked |-> TRUE, typed |-> TRUE, from |-> u.from, v |-> u.v] \in VaultSessions
      BY DEF OpenUnlocks, VaultSessions
    <2>3. QED
      BY <1>4, <2>1, <2>2 DEF UnlockAnswered
  <1>5. CASE EditSecret
    BY <1>5 DEF EditSecret, VaultSessions
  <1>6. CASE EditDirect
    BY <1>6 DEF EditDirect, VaultSessions
  <1>7. CASE SaveTimerFires
    BY <1>7, SentSave DEF SaveTimerFires, Send, SaveReasons, FlushReasons
  <1>8. CASE PersistVault
    BY <1>8, SentSave DEF PersistVault, Send, SaveReasons
  <1>9. CASE SaveLands
    <2>1. PICK c \in vaultSaves :
             /\ vaultSaves' = vaultSaves \ {c} /\ SaveAnswered(c, TRUE)
             /\ vaultFile' = [vaultFile EXCEPT ![c.to] = [from |-> c.from, v |-> c.v]]
      BY <1>9 DEF SaveLands
    <2>2. [from |-> c.from, v |-> c.v] \in VaultContents
      BY DEF SentSaves, VaultContents
    <2>3. QED
      BY <1>9, <2>1, <2>2, SaveAnsweredType DEF SaveLands
  <1>10. CASE SaveFails
    <2>1. PICK c \in vaultSaves : vaultSaves' = vaultSaves \ {c} /\ SaveAnswered(c, FALSE)
      BY <1>10 DEF SaveFails
    <2>2. QED
      BY <1>10, <2>1, SaveAnsweredType DEF SaveFails
  <1>11. ASSUME Lock, UNCHANGED <<vaultProject, vaultFile, generation, savePending, unlocks, switching, secretEdits, lastSecret>>
         PROVE  VaultTypeOK'
    <2>1. Locked \in VaultSessions
      BY DEF Locked, VaultSessions, Origins
    <2>2. CASE savePending
      BY <1>11, <2>2, SentSave DEF Lock, Send, SaveReasons, FlushReasons
    <2>3. CASE ~savePending
      BY <1>11, <2>1, <2>3 DEF Lock
    <2>4. QED
      BY <2>2, <2>3
  <1>12. CASE LockVault
    BY <1>11, <1>12 DEF LockVault
  <1>13. CASE RetainKey
    BY <1>13 DEF RetainKey
  <1>14. CASE ForgetKey
    BY <1>11, <1>14 DEF ForgetKey
  <1>15. CASE ResetOpenVault
    BY <1>15 DEF ResetOpenVault, NoVault, VaultContents, Locked, VaultSessions, Origins
  <1>16. CASE BeginVaultChange
    BY <1>16, SentSave DEF BeginVaultChange, Send, SaveReasons, FlushReasons, ChangePhases
  <1>17. CASE CreateVault
    BY <1>17, SentSave, NewVaultType DEF CreateVault, Send, SaveReasons
  <1>18. CASE ClearSession
    BY <1>18 DEF ClearSession, Locked, VaultSessions, Origins, ChangePhases
  <1>19. CASE EndVaultChange
    BY <1>19 DEF EndVaultChange, Settled, ChangePhases
  <1>20. QED
    BY <1>1, <1>2, <1>3, <1>4, <1>5, <1>6, <1>7, <1>8, <1>9, <1>10, <1>12, <1>13, <1>14, <1>15, <1>16, <1>17, <1>18,
       <1>19 DEF VaultNext

LEMMA NoneNewerStep ==
  ASSUME VaultTypeOK, NoneNewer, VaultNext
  PROVE  NoneNewer'
  <1>1. ASSUME NEW c \in vaultSaves, NEW landed \in BOOLEAN, SaveAnswered(c, landed)
        PROVE  session'.v <= secretEdits /\ switching'.gen <= generation
    BY <1>1 DEF SaveAnswered, SessionAfter, Locked, Settled, VaultTypeOK, NoneNewer
  <1>2. ASSUME NEW sent \in VaultSessions, sent.v <= secretEdits, NEW gen \in Nat, gen <= generation,
               NEW why \in SaveReasons, Send(VaultSave(vaultProject, sent, gen, why)), UNCHANGED <<generation, secretEdits>>
        PROVE  \A c \in vaultSaves' : c.v <= secretEdits' /\ c.gen <= generation'
    <2> DEFINE c == VaultSave(vaultProject, sent, gen, why)
    <2>1. vaultSaves' = vaultSaves \cup {c} /\ c.v = sent.v /\ c.gen = gen
      BY <1>2, SentSave DEF Send
    <2> HIDE DEF c
    <2>2. QED
      BY <1>2, <2>1 DEF NoneNewer
  <1>3. ASSUME Lock, UNCHANGED <<vaultFile, generation, unlocks, switching, secretEdits, lastSecret>>
        PROVE  NoneNewer'
    <2>1. CASE savePending
      BY <1>2, <1>3, <2>1 DEF Lock, SaveReasons, FlushReasons, NoneNewer, VaultTypeOK
    <2>2. CASE ~savePending
      BY <1>3, <2>2 DEF Lock, Locked, NoneNewer, VaultTypeOK
    <2>3. QED
      BY <2>1, <2>2
  <1>4. CASE AutoUnlockReads
    BY <1>4 DEF AutoUnlockReads, NoneNewer, VaultTypeOK
  <1>5. CASE AutoUnlockAnswered
    BY <1>5 DEF AutoUnlockAnswered, NoneNewer, VaultTypeOK
  <1>6. CASE UnlockReads
    BY <1>6 DEF UnlockReads, NoneNewer, VaultTypeOK
  <1>7. CASE UnlockAnswered
    BY <1>7 DEF UnlockAnswered, NoneNewer, VaultTypeOK
  <1>8. CASE EditSecret
    <2>1. session'.v = secretEdits + 1 /\ secretEdits' = secretEdits + 1 /\ generation' = generation + 1
          /\ saveTimer' = generation + 1 /\ {secretEdits, generation} \subseteq Nat
      BY <1>8 DEF EditSecret, VaultTypeOK, VaultSessions
    <2>2. \A p \in VaultProjects : lastSecret'[p] \in {lastSecret[p], secretEdits + 1}
      BY <1>8 DEF EditSecret, VaultTypeOK
    <2>3. UNCHANGED <<vaultFile, vaultSaves, unlocks, switching>>
      BY <1>8 DEF EditSecret
    <2>4. QED
      BY <2>1, <2>2, <2>3 DEF NoneNewer, VaultTypeOK, VaultContents, SentSaves, OpenUnlocks, ChangePhases
  <1>9. CASE EditDirect
    <2>1. session'.v = secretEdits + 1 /\ secretEdits' = secretEdits + 1 /\ secretEdits \in Nat
      BY <1>9 DEF EditDirect, VaultTypeOK, VaultSessions
    <2>2. QED
      BY <1>9, <2>1 DEF EditDirect, NoneNewer, VaultTypeOK, VaultContents, SentSaves, OpenUnlocks
  <1>10. CASE SaveTimerFires
    BY <1>2, <1>10 DEF SaveTimerFires, SaveReasons, FlushReasons, NoneNewer, VaultTypeOK
  <1>11. CASE PersistVault
    BY <1>2, <1>11 DEF PersistVault, SaveReasons, FlushReasons, NoneNewer, VaultTypeOK
  <1>12. CASE SaveLands
    <2>1. PICK c \in vaultSaves :
             /\ vaultSaves' = vaultSaves \ {c} /\ SaveAnswered(c, TRUE)
             /\ vaultFile' = [vaultFile EXCEPT ![c.to] = [from |-> c.from, v |-> c.v]]
      BY <1>12 DEF SaveLands
    <2>2. \A p \in VaultProjects : vaultFile'[p].v \in {vaultFile[p].v, c.v}
      BY <2>1 DEF VaultTypeOK
    <2>3. QED
      BY <1>1, <1>12, <2>1, <2>2 DEF SaveLands, NoneNewer
  <1>13. CASE SaveFails
    BY <1>1, <1>13 DEF SaveFails, NoneNewer
  <1>14. CASE LockVault
    BY <1>3, <1>14 DEF LockVault
  <1>15. CASE RetainKey
    BY <1>15 DEF RetainKey, NoneNewer
  <1>16. CASE ForgetKey
    BY <1>3, <1>16 DEF ForgetKey, NoneNewer
  <1>17. CASE ResetOpenVault
    BY <1>17 DEF ResetOpenVault, NoneNewer, VaultTypeOK, NoVault, Locked
  <1>18. CASE BeginVaultChange
    BY <1>2, <1>18 DEF BeginVaultChange, SaveReasons, FlushReasons, NoneNewer, VaultTypeOK
  <1>19. CASE CreateVault
    BY <1>2, <1>19, NewVaultType DEF CreateVault, SaveReasons, NoneNewer, VaultTypeOK
  <1>20. CASE ClearSession
    BY <1>20 DEF ClearSession, NoneNewer, VaultTypeOK, ChangePhases, Locked
  <1>21. CASE EndVaultChange
    BY <1>21 DEF EndVaultChange, NoneNewer, VaultTypeOK, Settled
  <1>22. QED
    BY <1>4, <1>5, <1>6, <1>7, <1>8, <1>9, <1>10, <1>11, <1>12, <1>13, <1>14, <1>15, <1>16, <1>17, <1>18, <1>19, <1>20,
       <1>21 DEF VaultNext

LEMMA OneFlushStep ==
  ASSUME VaultTypeOK, OneFlush, VaultNext
  PROVE  OneFlush'
  <1>1. ASSUME NEW sent \in VaultSessions, NEW gen \in Nat, NEW why \in {"timer", "button", "lock", "create"},
               UNCHANGED switching, Send(VaultSave(vaultProject, sent, gen, why))
        PROVE  OneFlush'
    <2>1. why \in SaveReasons /\ why # "change"
      BY DEF SaveReasons, FlushReasons
    <2>2. \A c \in vaultSaves' : c.why = "change" => c \in vaultSaves
      BY <1>1, <2>1, SentSave DEF Send
    <2>3. QED
      BY <1>1, <2>2 DEF OneFlush
  <1>2. CASE SaveTimerFires
    BY <1>1, <1>2 DEF SaveTimerFires, VaultTypeOK, OneFlush
  <1>3. CASE PersistVault \/ CreateVault
    BY <1>1, <1>3, NewVaultType DEF PersistVault, CreateVault, VaultTypeOK
  <1>4. CASE LockVault \/ ForgetKey
    BY <1>1, <1>4 DEF LockVault, ForgetKey, Lock, VaultTypeOK, OneFlush
  <1>5. CASE SaveLands \/ SaveFails
    <2>1. PICK c \in vaultSaves, landed \in BOOLEAN : vaultSaves' = vaultSaves \ {c} /\ SaveAnswered(c, landed)
      BY <1>5 DEF SaveLands, SaveFails
    <2>2. CASE c.why = "change"
      BY <2>1, <2>2 DEF OneFlush
    <2>3. CASE c.why # "change"
      BY <2>1, <2>3 DEF OneFlush, SaveAnswered
    <2>4. QED
      BY <2>2, <2>3
  <1>6. CASE BeginVaultChange
    <2>1. \A c \in vaultSaves : c.why # "change"
      BY <1>6 DEF BeginVaultChange, OneFlush, Settled
    <2>2. CASE savePending /\ session.unlocked
      <3> DEFINE c == VaultSave(vaultProject, session, generation, "change")
      <3>1. vaultSaves' = vaultSaves \cup {c} /\ switching' = [phase |-> "flushing", gen |-> generation]
        BY <1>6, <2>2 DEF BeginVaultChange, Send
      <3>2. c.gen = generation
        BY SentSave DEF VaultTypeOK, SaveReasons, FlushReasons
      <3> HIDE DEF c
      <3>3. QED
        BY <2>1, <3>1, <3>2 DEF OneFlush
    <2>3. CASE ~(savePending /\ session.unlocked)
      BY <1>6, <2>1, <2>3 DEF BeginVaultChange, OneFlush
    <2>4. QED
      BY <2>2, <2>3
  <1>7. CASE ClearSession \/ EndVaultChange
    BY <1>7 DEF ClearSession, EndVaultChange, OneFlush
  <1>8. CASE UNCHANGED <<vaultSaves, switching>>
    BY <1>8 DEF OneFlush
  <1>9. AutoUnlockReads \/ AutoUnlockAnswered \/ UnlockReads \/ UnlockAnswered \/ EditSecret \/ EditDirect \/ RetainKey \/ ResetOpenVault
          => UNCHANGED <<vaultSaves, switching>>
    BY DEF AutoUnlockReads, AutoUnlockAnswered, UnlockReads, UnlockAnswered, EditSecret, EditDirect, RetainKey, ResetOpenVault
  <1>10. QED
    BY <1>2, <1>3, <1>4, <1>5, <1>6, <1>7, <1>8, <1>9 DEF VaultNext

\* Only the edit of a secret puts a project at risk.
LEMMA NoNewRisk ==
  ASSUME VaultInv, VaultNext, ~EditSecret, NEW p \in VaultProjects, AtRisk(p)'
  PROVE  AtRisk(p) /\ lastSecret'[p] = lastSecret[p] /\ UNCHANGED generation
  <1> USE DEF VaultInv, VaultTypeOK, AtRisk, Unsaved, Holds
  <1>1. CASE UNCHANGED <<vaultFile, lastSecret, generation, excused>>
    BY <1>1
  <1>3. CASE UnlockAnswered
    BY <1>3 DEF UnlockAnswered
  <1>4. CASE SaveLands
    <2>1. PICK c \in vaultSaves :
             /\ vaultFile' = [vaultFile EXCEPT ![c.to] = [from |-> c.from, v |-> c.v]] /\ UNCHANGED <<lastSecret, generation>>
             /\ excused \subseteq excused' /\ (~Holds(c, c.to) /\ ~Unsaved(c.to) => c.to \in excused')
      BY <1>4 DEF SaveLands
    <2>2. CASE p = c.to
      BY <2>1, <2>2 DEF SentSaves
    <2>3. CASE p # c.to
      BY <2>1, <2>3
    <2>4. QED
      BY <2>2, <2>3
  <1>5. CASE ResetOpenVault
    BY <1>5 DEF ResetOpenVault, NoVault
  <1>6. CASE ClearSession \/ EndVaultChange
    BY <1>6 DEF ClearSession, EndVaultChange
  <1>7. AutoUnlockReads \/ AutoUnlockAnswered \/ UnlockReads \/ CreateVault \/ EditDirect \/ SaveTimerFires \/ PersistVault \/ SaveFails
          \/ LockVault \/ RetainKey \/ ForgetKey \/ BeginVaultChange
          => UNCHANGED <<vaultFile, lastSecret, generation, excused>>
    BY DEF AutoUnlockReads, AutoUnlockAnswered, UnlockReads, CreateVault, EditDirect, SaveTimerFires, PersistVault, SaveFails,
       LockVault, RetainKey, ForgetKey, BeginVaultChange
  <1>8. QED
    BY <1>1, <1>3, <1>4, <1>5, <1>6, <1>7 DEF VaultNext

\* An edit ages every save, unlock and stopped change there is.
LEMMA EditGuards ==
  ASSUME VaultInv, EditSecret, NEW p \in VaultProjects, AtRisk(p)'
  PROVE  Guarded(p)'
  <1> USE DEF VaultInv, VaultTypeOK
  <1>1. /\ session.unlocked /\ {secretEdits, generation} \subseteq Nat /\ session' = [session EXCEPT !.v = secretEdits + 1]
        /\ generation' = generation + 1 /\ savePending' /\ UNCHANGED <<vaultProject, vaultFile, vaultSaves, unlocks, switching>>
    BY DEF EditSecret
  <1>2. session'.unlocked /\ session'.from = session.from /\ session'.v = secretEdits + 1
    BY <1>1 DEF VaultSessions
  <1>3. (\A c \in vaultSaves' : c.gen # generation') /\ switching'.gen < generation'
    BY <1>1 DEF NoneNewer, SentSaves, ChangePhases
  <1>4. CASE session.from = vaultProject /\ p = vaultProject
    <2>1. lastSecret'[p] = secretEdits + 1
      BY <1>4 DEF EditSecret
    <2>2. \A u \in unlocks' : u.v < lastSecret'[p]
      BY <1>1, <2>1 DEF NoneNewer, OpenUnlocks
    <2>3. HoldsUnsaved(p)'
      BY <1>1, <1>2, <1>4, <2>1 DEF HoldsUnsaved, Holds, AtRisk
    <2>4. QED
      BY <1>1, <1>3, <1>4, <2>2, <2>3 DEF Guarded
  <1>5. CASE ~(session.from = vaultProject /\ p = vaultProject)
    <2>1. lastSecret'[p] = lastSecret[p] /\ AtRisk(p)
      BY <1>1, <1>5 DEF EditSecret, AtRisk, Unsaved, Holds
    <2>2. QED
      BY <1>5, <2>1 DEF Guarded, HoldsUnsaved, Holds
  <1>6. QED
    BY <1>4, <1>5

\* A save that has ended took neither the session nor the flag from a project
\* still at risk.
LEMMA SaveGuards ==
  ASSUME VaultInv, SaveLands \/ SaveFails, NEW p \in VaultProjects, AtRisk(p)'
  PROVE  Guarded(p)'
  <1> USE DEF VaultInv, VaultTypeOK
  <1>1. VaultNext /\ ~EditSecret
    BY DEF VaultNext, SaveLands, SaveFails, EditSecret, NoneNewer
  <1>2. AtRisk(p) /\ Guarded(p) /\ lastSecret'[p] = lastSecret[p] /\ UNCHANGED generation
    BY <1>1, NoNewRisk
  <1>3. PICK c \in vaultSaves, landed \in BOOLEAN :
           /\ vaultSaves' = vaultSaves \ {c} /\ SaveAnswered(c, landed) /\ UNCHANGED <<vaultProject, unlocks>>
           /\ landed => /\ vaultFile' = [vaultFile EXCEPT ![c.to] = [from |-> c.from, v |-> c.v]]
                        /\ c.why = "create" \/ (c.why = "lock" /\ c.gen # generation)
                             => DroppedBy(SessionAfter(c, TRUE)) \subseteq excused'
    BY DEF SaveLands, SaveFails
  <1>4. ASSUME landed, c.why \in FlushReasons, c.gen = generation PROVE FALSE
    <2>1. c.to = p /\ Holds(c, p)
      BY <1>2, <1>4 DEF Guarded
    <2>2. vaultFile'[p].from = c.from /\ vaultFile'[p].v = c.v
      BY <1>3, <1>4, <2>1
    <2>3. QED
      BY <1>2, <2>1, <2>2 DEF AtRisk, Unsaved, Holds
  <1>5. c.why \in SaveReasons /\ HoldsUnsaved(p) /\ savePending
    BY <1>2 DEF Guarded, SentSaves
  <1>6. savePending'
    BY <1>3, <1>4, <1>5 DEF SaveAnswered, PendingAfter, SaveReasons
  <1>7. ASSUME landed, c.why \in {"lock", "create"}
        PROVE  c.why = "create" /\ Holds(SessionAfter(c, TRUE), p)
    <2>1. c.why = "lock" => c.gen # generation
      BY <1>4, <1>7 DEF FlushReasons
    <2>2. p \notin DroppedBy(SessionAfter(c, TRUE))
      BY <1>2, <1>3, <1>7, <2>1 DEF AtRisk
    <2>3. Holds(SessionAfter(c, TRUE), p)
      BY <1>5, <2>2 DEF DroppedBy
    <2>4. c.why # "lock"
      BY <1>2, <2>3 DEF SessionAfter, Locked, Holds, AtRisk, Unsaved
    <2>5. QED
      BY <1>7, <2>3, <2>4
  <1>8. session'.unlocked /\ Holds(session', p)
    <2>1. CASE landed /\ c.why \in {"lock", "create"}
      BY <1>3, <1>7, <2>1 DEF SaveAnswered, SessionAfter
    <2>2. CASE ~(landed /\ c.why \in {"lock", "create"})
      BY <1>3, <1>5, <2>2 DEF SaveAnswered, SessionAfter, HoldsUnsaved
    <2>3. QED
      BY <2>1, <2>2
  <1>9. switching'.phase = "stopped" => switching'.gen < generation
    <2>1. CASE c.why = "change" /\ landed
      <3>1. c.gen = switching.gen /\ c.gen # generation
        BY <1>4, <2>1 DEF OneFlush, FlushReasons
      <3>2. switching'.gen = switching.gen
        BY <1>3, <2>1 DEF SaveAnswered, ChangePhases
      <3>3. QED
        BY <3>1, <3>2 DEF NoneNewer, ChangePhases
    <2>2. CASE ~(c.why = "change" /\ landed)
      BY <1>2, <1>3, <2>2 DEF SaveAnswered, Settled, Guarded
    <2>3. QED
      BY <2>1, <2>2
  <1>10. HoldsUnsaved(p)'
    BY <1>2, <1>8 DEF HoldsUnsaved, AtRisk, Holds
  <1>11. QED
    BY <1>2, <1>3, <1>6, <1>9, <1>10 DEF Guarded, Holds

LEMMA OthersGuard ==
  ASSUME VaultInv, VaultNext, ~EditSecret, ~SaveLands, ~SaveFails, NEW p \in VaultProjects, AtRisk(p)'
  PROVE  Guarded(p)'
  <1> USE DEF VaultInv, VaultTypeOK
  <1>1. AtRisk(p) /\ Guarded(p) /\ lastSecret'[p] = lastSecret[p] /\ UNCHANGED generation
    BY NoNewRisk
  <1>2. vaultProject = p /\ session.unlocked /\ session.from = p /\ session.v >= lastSecret[p] /\ Unsaved(p)' /\ savePending
    BY <1>1 DEF Guarded, HoldsUnsaved, Holds, AtRisk
  <1>3. ASSUME UNCHANGED <<vaultProject, session, savePending, vaultSaves, switching>>,
               \A u \in unlocks' \ unlocks : u.auto
        PROVE  Guarded(p)'
    BY <1>1, <1>2, <1>3 DEF Guarded, HoldsUnsaved, Holds
  <1>4. ASSUME UNCHANGED <<vaultProject, session, savePending, unlocks>>,
               switching'.phase = "stopped" => UNCHANGED switching,
               NEW gen \in Nat, NEW why \in SaveReasons, Send(VaultSave(vaultProject, session, gen, why))
        PROVE  Guarded(p)'
    BY <1>1, <1>2, <1>4, SentSave DEF Guarded, HoldsUnsaved, Holds, Send
  <1>5. CASE AutoUnlockReads
    BY <1>3, <1>5 DEF AutoUnlockReads
  <1>6. CASE AutoUnlockAnswered
    BY <1>2, <1>3, <1>6 DEF AutoUnlockAnswered
  <1>7. CASE UnlockReads \/ CreateVault \/ ResetOpenVault
    BY <1>2, <1>7 DEF UnlockReads, CreateVault, ResetOpenVault
  <1>8. CASE UnlockAnswered
    <2>1. PICK u \in unlocks :
             /\ ~u.auto /\ unlocks' = unlocks \ {u}
             /\ \/ LET opened == [unlocked |-> TRUE, typed |-> TRUE, from |-> u.from, v |-> u.v] IN excused' = excused \cup DroppedBy(opened)
                \/ UNCHANGED session
      BY <1>8 DEF UnlockAnswered
    <2>2. u.v < lastSecret[p]
      BY <1>1, <2>1 DEF Guarded
    <2>3. UNCHANGED session
      BY <1>1, <2>1, <2>2 DEF DroppedBy, Holds, AtRisk, Guarded, OpenUnlocks
    <2>4. QED
      BY <1>3, <1>8, <2>1, <2>3 DEF UnlockAnswered
  <1>9. CASE EditDirect
    <2>1. /\ session'.unlocked = session.unlocked /\ session'.from = session.from
          /\ session'.v = secretEdits + 1 /\ secretEdits \in Nat
      BY <1>9 DEF EditDirect, VaultSessions
    <2>2. HoldsUnsaved(p)'
      BY <1>1, <1>2, <2>1 DEF HoldsUnsaved, Holds, NoneNewer
    <2>3. QED
      BY <1>1, <1>2, <1>9, <2>2 DEF EditDirect, Guarded, Holds
  <1>10. CASE SaveTimerFires
    BY <1>2, <1>4, <1>10 DEF SaveTimerFires, SaveReasons, FlushReasons
  <1>11. CASE PersistVault
    BY <1>4, <1>11 DEF PersistVault, SaveReasons, FlushReasons
  <1>12. CASE LockVault
    BY <1>2, <1>4, <1>12 DEF LockVault, Lock, SaveReasons, FlushReasons
  <1>13. CASE RetainKey
    BY <1>3, <1>13 DEF RetainKey
  <1>14. CASE ForgetKey
    BY <1>2, <1>3, <1>4, <1>14 DEF ForgetKey, Lock, SaveReasons, FlushReasons
  <1>15. CASE BeginVaultChange
    BY <1>2, <1>4, <1>15 DEF BeginVaultChange, SaveReasons, FlushReasons
  <1>16. CASE ClearSession
    <2>1. switching.gen # generation
      BY <1>1, <1>16 DEF ClearSession, Guarded
    <2>2. p \in DroppedBy(Locked)
      BY <1>1 DEF DroppedBy, Locked, Guarded, Holds, AtRisk, Unsaved
    <2>3. QED
      BY <1>16, <2>1, <2>2 DEF ClearSession, AtRisk
  <1>17. CASE EndVaultChange
    <2>1. CASE UNCHANGED <<vaultProject, excused>>
      BY <1>1, <1>2, <1>17, <2>1 DEF EndVaultChange, Settled, Guarded, HoldsUnsaved, Holds
    <2>2. CASE ~UNCHANGED <<vaultProject, excused>>
      <3>1. excused' = excused \cup {q \in VaultProjects : HoldsUnsaved(q)}
        BY <1>17, <2>2 DEF EndVaultChange
      <3>2. HoldsUnsaved(p)
        BY <1>1 DEF Guarded
      <3>3. QED
        BY <3>1, <3>2 DEF AtRisk
    <2>3. QED
      BY <2>1, <2>2
  <1>18. QED
    BY <1>5, <1>6, <1>7, <1>8, <1>9, <1>10, <1>11, <1>12, <1>13, <1>14, <1>15, <1>16, <1>17 DEF VaultNext

LEMMA VaultInvStep == VaultInv /\ [VaultNext]_vaultVars => VaultInv'
  <1>1. VaultInv /\ VaultNext => VaultInv'
    BY VaultTypeStep, NoneNewerStep, OneFlushStep, EditGuards, SaveGuards, OthersGuard DEF VaultInv
  <1>2. VaultInv /\ UNCHANGED vaultVars => VaultInv'
    BY DEF vaultVars, VaultInv, VaultTypeOK, NoneNewer, OneFlush, AtRisk, Guarded, Unsaved, HoldsUnsaved, Holds
  <1>3. QED
    BY <1>1, <1>2

LEMMA VaultInvInit == VaultInit => VaultInv
  <1> SUFFICES ASSUME VaultInit PROVE VaultInv
    OBVIOUS
  <1>1. vaultProject \in VaultProjects
    BY VaultAssumption DEF VaultInit
  <1>2. session \in VaultSessions /\ switching \in ChangePhases
    BY DEF VaultInit, VaultSessions, Locked, Settled, Origins, ChangePhases
  <1>3. vaultFile \in [VaultProjects -> VaultContents] /\ \A p \in VaultProjects : vaultFile[p].v = 0
    BY DEF VaultInit, VaultContents, NoVault, Origins
  <1>4. VaultTypeOK
    <2>1. lastSecret \in [VaultProjects -> Nat] /\ {saveTimer, generation, secretEdits} \subseteq Nat
      BY DEF VaultInit
    <2>2. vaultSaves \subseteq SentSaves /\ unlocks \subseteq OpenUnlocks /\ savePending \in BOOLEAN
      BY DEF VaultInit
    <2>3. QED
      BY <1>1, <1>2, <1>3, <2>1, <2>2 DEF VaultTypeOK
  <1>5. NoneNewer /\ OneFlush
    BY <1>3 DEF VaultInit, NoneNewer, OneFlush, Locked, Settled
  <1>6. \A p \in VaultProjects : ~AtRisk(p)
    BY <1>3 DEF VaultInit, AtRisk, Unsaved
  <1>7. QED
    BY <1>4, <1>5, <1>6 DEF VaultInv

\* SecurityWorkbench.tsx and the vault of App.tsx, for any number of projects,
\* edits, saves and project changes: a secret is lost only as SecretsKept says.
THEOREM NoSecretLost == VaultSpec => []SecretsKept
  <1>1. VaultInv => SecretsKept
    BY DEF VaultInv, SecretsKept, AtRisk, Guarded
  <1>2. QED
    BY <1>1, VaultInvInit, VaultInvStep, PTL DEF VaultSpec

(***************************************************************************)
(* Samples of a stream: SampleCloses.                                      *)
(***************************************************************************)

SampleTypeOK ==
    /\ sampleStage \in {"idle", "rendering", "connecting", "startup", "window", "closing"}
    /\ sampleSession \in {"none", "opening", "open", "closed"}
    /\ sampleSignal \in BOOLEAN /\ gaveUp \in BOOLEAN
    /\ pendingDisconnects \in Nat

\* A sample is given up only while it connects, and then never gets past it.
GivenUpFits ==
    /\ sampleStage = "rendering" => ~gaveUp /\ sampleSession = "none"
    /\ sampleStage = "connecting" => sampleSignal = gaveUp
    /\ sampleStage \in {"startup", "window"} => ~gaveUp

\* Unless it was given up, a sample that is past its connect knows how the
\* connect ended, and one that is over has sent the disconnect.
SessionFits ==
    ~gaveUp =>
      /\ sampleStage \in {"startup", "window", "closing"} => sampleSession \in {"open", "closed"}
      /\ sampleStage = "idle" =>
           /\ sampleSession # "opening"
           /\ sampleSession = "open" => pendingDisconnects > 0

SampleInv == SampleTypeOK /\ GivenUpFits /\ SessionFits

LEMMA SampleInvInit == SampleInit => SampleInv
<1> SUFFICES ASSUME SampleInit PROVE SampleInv
  OBVIOUS
<1>1. SampleTypeOK
  BY DEF SampleInit, SampleTypeOK
<1>2. GivenUpFits /\ SessionFits
  BY DEF SampleInit, GivenUpFits, SessionFits
<1>3. QED
  BY <1>1, <1>2 DEF SampleInv

LEMMA SampleInvStep ==
  ASSUME SampleInv, [SampleNext]_sampleVars
  PROVE  SampleInv'
<1> USE DEF SampleInv, SampleTypeOK, GivenUpFits, SessionFits
<1>1. CASE SampleStart
  BY <1>1 DEF SampleStart
<1>2. CASE RenderSample
  BY <1>2 DEF RenderSample
<1>3. CASE SampleAbort
  <2>1. /\ sampleStage \in {"rendering", "connecting", "startup", "window"}
        /\ sampleSignal' = TRUE /\ gaveUp' = (sampleStage = "connecting")
        /\ UNCHANGED <<sampleStage, sampleSession>>
    BY <1>3 DEF SampleAbort, Sampling
  <2>2. gaveUp' \in BOOLEAN /\ (gaveUp' <=> sampleStage = "connecting")
    BY <2>1
  <2>3. pendingDisconnects' \in Nat
    BY <1>3 DEF SampleAbort
  <2>4. SampleTypeOK'
    BY <2>1, <2>2, <2>3
  <2>5. GivenUpFits'
    BY <2>1, <2>2
  <2>6. SessionFits'
    BY <2>1, <2>2
  <2>7. QED
    BY <2>4, <2>5, <2>6
<1>4. CASE ConnectAnswers
  BY <1>4 DEF ConnectAnswers
<1>5. CASE StartupSent
  BY <1>5 DEF StartupSent
<1>6. CASE WindowEnds
  BY <1>6 DEF WindowEnds
<1>7. CASE CloseSample
  BY <1>7 DEF CloseSample
<1>8. CASE BackendOpens
  BY <1>8 DEF BackendOpens
<1>9. CASE BackendDisconnects
  BY <1>9 DEF BackendDisconnects
<1>10. CASE UNCHANGED sampleVars
  BY <1>10 DEF sampleVars
<1>11. QED
  BY <1>1, <1>2, <1>3, <1>4, <1>5, <1>6, <1>7, <1>8, <1>9, <1>10 DEF SampleNext

(* For any number of samples, aborts and answers in any order: a sample    *)
(* that is over left an open session only when it was aborted while its    *)
(* connect was under way (protocol.ts, runStreamSample).                   *)
THEOREM SamplesClose == SampleSpec => []SampleCloses
<1>1. SampleInv => SampleCloses
  BY DEF SampleInv, SampleTypeOK, SessionFits, SampleCloses
<1>2. QED
  BY SampleInvInit, SampleInvStep, <1>1, PTL DEF SampleSpec

(***************************************************************************)
(* A script run: SandboxSound.                                             *)
(***************************************************************************)

Verdicts == {"none", "running", "passed", "failed"}
Stages == {"none", "posted", "reading", "sending", "answered"}

SandboxTypeOK ==
    /\ body \in {"running", "waiting", "posted", "failing", "gone"}
    /\ verdict \in [ScriptTests -> Verdicts]
    /\ calls \in [Subrequests -> Stages]
    /\ attach \in [Subrequests -> FileSizes]
    /\ postedCount \in Nat /\ spent \in Nat /\ delivered \in Nat

\* The count in the worker is the number of requests the host has seen.
CountFits ==
    /\ IsFiniteSet({c \in Subrequests : calls[c] # "none"})
    /\ postedCount = Cardinality({c \in Subrequests : calls[c] # "none"})
    /\ postedCount <= MaxSubrequests

\* What was let through was charged, and was charged within the limit.
BudgetFits == delivered <= spent /\ delivered <= FileLimit

\* What a waiting worker does not wait for was registered late; from the
\* result on the worker stands still.
VerdictsFit ==
    /\ body = "waiting" => \A t \in ScriptTests \ nested : verdict[t] = "running" => t \in awaited
    /\ body = "posted" => \A t \in ScriptTests \ nested : reported[t] = verdict[t]
    /\ outcome = "hydrating" => body = "posted"
    /\ outcome = "returned" => body = "gone" /\ \A t \in ScriptTests \ nested : reported[t] = verdict[t]

SandboxInv == SandboxTypeOK /\ CountFits /\ BudgetFits /\ VerdictsFit

LEMMA SandboxInvInit == SandboxInit => SandboxInv
<1> SUFFICES ASSUME SandboxInit PROVE SandboxInv
  OBVIOUS
<1>1. {c \in Subrequests : calls[c] # "none"} = {}
  BY DEF SandboxInit
<1>2. CountFits
  BY <1>1, FS_EmptySet, SandboxAssumptions DEF CountFits, SandboxInit
<1>3. QED
  BY <1>2, SandboxAssumptions
  DEF SandboxInit, SandboxInv, SandboxTypeOK, BudgetFits, VerdictsFit, Verdicts, Stages

\* A request moves on without another one appearing.
LEMMA CallMoves ==
  ASSUME SandboxTypeOK, CountFits, NEW c \in Subrequests, NEW s \in Stages,
         calls[c] # "none", s # "none", calls' = [calls EXCEPT ![c] = s],
         postedCount' = postedCount
  PROVE  calls' \in [Subrequests -> Stages] /\ CountFits'
<1>1. {d \in Subrequests : calls'[d] # "none"} = {d \in Subrequests : calls[d] # "none"}
  BY DEF SandboxTypeOK
<1>2. QED
  BY <1>1 DEF CountFits, SandboxTypeOK

LEMMA WorkerSteps ==
  ASSUME SandboxInv,
         \/ \E t \in ScriptTests : RegisterTest(t) \/ TestSettles(t)
         \/ BodyReturns \/ BodyThrows \/ PostResult \/ UNCHANGED sandboxVars
  PROVE  SandboxInv'
<1> USE DEF SandboxInv
<1>1. CountFits' /\ BudgetFits'
  BY DEF CountFits, BudgetFits, RegisterTest, TestSettles, BodyReturns, BodyThrows, PostResult, sandboxVars
<1>2. SandboxTypeOK'
  BY DEF SandboxTypeOK, Verdicts, RegisterTest, TestSettles, BodyReturns, BodyThrows, PostResult, sandboxVars
<1>3. VerdictsFit'
  <2> USE DEF VerdictsFit, SandboxTypeOK
  <2>1. ASSUME NEW t \in ScriptTests, RegisterTest(t) PROVE VerdictsFit'
    BY <2>1 DEF RegisterTest, Verdicts
  <2>2. ASSUME NEW t \in ScriptTests, TestSettles(t) PROVE VerdictsFit'
    BY <2>2 DEF TestSettles, WorkerAlive, Verdicts
  <2>3. CASE BodyReturns
    BY <2>3 DEF BodyReturns
  <2>4. CASE BodyThrows
    BY <2>4 DEF BodyThrows
  <2>5. CASE PostResult
    BY <2>5 DEF PostResult
  <2>6. CASE UNCHANGED sandboxVars
    BY <2>6 DEF sandboxVars
  <2>7. QED
    BY <2>1, <2>2, <2>3, <2>4, <2>5, <2>6
<1>4. QED
  BY <1>1, <1>2, <1>3

LEMMA SendSteps ==
  ASSUME SandboxInv, NEW c \in Subrequests, ScriptSendRequest(c)
  PROVE  SandboxInv'
<1> USE DEF SandboxInv
<1> DEFINE Seen == {d \in Subrequests : calls[d] # "none"}
<1>1. calls[c] = "none" /\ postedCount < MaxSubrequests /\ postedCount' = postedCount + 1
      /\ calls' = [calls EXCEPT ![c] = "posted"]
      /\ UNCHANGED <<body, verdict, nested, awaited, reported, attach, spent, outcome, delivered>>
  BY DEF ScriptSendRequest
<1>2. {d \in Subrequests : calls'[d] # "none"} = Seen \cup {c}
  BY <1>1 DEF SandboxTypeOK
<1>3. IsFiniteSet(Seen) /\ c \notin Seen /\ postedCount = Cardinality(Seen)
  BY <1>1 DEF CountFits
<1>4. IsFiniteSet(Seen \cup {c}) /\ Cardinality(Seen \cup {c}) = Cardinality(Seen) + 1
  BY <1>3, FS_AddElement
<1>5. postedCount' <= MaxSubrequests
  BY <1>1, SandboxAssumptions DEF SandboxTypeOK
<1>6. CountFits'
  BY <1>1, <1>2, <1>3, <1>4, <1>5 DEF CountFits
<1>7. SandboxTypeOK'
  BY <1>1 DEF SandboxTypeOK, Stages
<1>8. QED
  BY <1>1, <1>6, <1>7 DEF BudgetFits, VerdictsFit

LEMMA HostCallSteps ==
  ASSUME SandboxInv, NEW c \in Subrequests, PrepareSubrequest(c) \/ ReadFiles(c) \/ AnswerSubrequest(c)
  PROVE  SandboxInv'
<1> USE DEF SandboxInv
<1>1. /\ UNCHANGED <<body, verdict, nested, awaited, reported, attach, postedCount, outcome>>
      /\ calls[c] # "none"
      /\ \E s \in Stages \ {"none"} : calls' = [calls EXCEPT ![c] = s]
  BY DEF PrepareSubrequest, ReadFiles, AnswerSubrequest, Stages
<1>2. calls' \in [Subrequests -> Stages] /\ CountFits'
  BY <1>1, CallMoves
<1>3. attach[c] \in Nat
  BY SandboxAssumptions DEF SandboxTypeOK
<1>4. spent' \in Nat /\ delivered' \in Nat /\ BudgetFits'
  <2>1. CASE PrepareSubrequest(c) \/ AnswerSubrequest(c)
    BY <2>1 DEF PrepareSubrequest, AnswerSubrequest, BudgetFits, SandboxTypeOK
  <2>2. CASE ReadFiles(c)
    <3>1. /\ spent' = spent + attach[c]
          /\ delivered' = IF spent' > FileLimit THEN delivered ELSE delivered + attach[c]
      BY <2>2 DEF ReadFiles
    <3>2. spent \in Nat /\ delivered \in Nat /\ FileLimit \in Nat
      BY SandboxAssumptions DEF SandboxTypeOK
    <3>3. QED
      BY <1>3, <3>1, <3>2 DEF BudgetFits
  <2>3. QED
    BY <2>1, <2>2
<1>5. SandboxTypeOK'
  BY <1>1, <1>2, <1>4 DEF SandboxTypeOK
<1>6. VerdictsFit'
  BY <1>1 DEF VerdictsFit
<1>7. QED
  BY <1>2, <1>4, <1>5, <1>6

LEMMA RunEndSteps ==
  ASSUME SandboxInv, ReceiveResult \/ ScriptTimesOut \/ HydrateResult
  PROVE  SandboxInv'
<1> USE DEF SandboxInv
<1>1. /\ UNCHANGED <<verdict, nested, awaited, reported, calls, attach, postedCount>>
      /\ body' \in {body, "gone"}
  BY DEF ReceiveResult, ScriptTimesOut, HydrateResult
<1>2. CountFits'
  BY <1>1 DEF CountFits
<1>3. spent' \in Nat /\ delivered' \in Nat /\ BudgetFits'
  <2>1. CASE ReceiveResult \/ ScriptTimesOut
    BY <2>1 DEF ReceiveResult, ScriptTimesOut, BudgetFits, SandboxTypeOK
  <2>2. CASE HydrateResult
    <3>1. PICK bytes \in FileSizes :
            /\ spent' = spent + bytes
            /\ delivered' = IF spent' > FileLimit THEN delivered ELSE delivered + bytes
      BY <2>2 DEF HydrateResult
    <3>2. spent \in Nat /\ delivered \in Nat /\ FileLimit \in Nat /\ bytes \in Nat
      BY SandboxAssumptions DEF SandboxTypeOK
    <3>3. QED
      BY <3>1, <3>2 DEF BudgetFits
  <2>3. QED
    BY <2>1, <2>2
<1>4. SandboxTypeOK'
  BY <1>1, <1>3 DEF SandboxTypeOK
<1>5. VerdictsFit'
  BY <1>1 DEF VerdictsFit, ReceiveResult, ScriptTimesOut, HydrateResult
<1>6. QED
  BY <1>2, <1>3, <1>4, <1>5

(* For any tests, secondary requests and limits: what a run returns are    *)
(* final verdicts, whatever tests start and settle after the body; no more *)
(* secondary requests and no more bytes go through than allowed, however   *)
(* they overlap (scriptSandbox.ts).                                        *)
THEOREM ScriptsStaySound == SandboxSpec => []SandboxSound
<1>1. ASSUME SandboxInv, [SandboxNext]_sandboxVars PROVE SandboxInv'
  BY <1>1, WorkerSteps, SendSteps, HostCallSteps, RunEndSteps DEF SandboxNext, HostSteps
<1>2. SandboxInv => SandboxSound
  BY DEF SandboxInv, CountFits, BudgetFits, VerdictsFit, SandboxSound, VerdictsFinal, SandboxBounded
<1>3. QED
  BY SandboxInvInit, <1>1, <1>2, PTL DEF SandboxSpec

\* What is left of a sequence without one of its elements.
LEMMA RemovedAt ==
  ASSUME NEW S, NEW s \in Seq(S), NEW k \in 1..Len(s)
  PROVE  /\ RemoveAt(s, k) \in Seq(S)
         /\ Len(RemoveAt(s, k)) = Len(s) - 1
         /\ \A j \in 1..Len(s) - 1 : RemoveAt(s, k)[j] = IF j < k THEN s[j] ELSE s[j + 1]
<1>1. Len(s) \in Nat /\ k \in Int /\ k >= 1 /\ k <= Len(s) /\ \A i \in 1..Len(s) : s[i] \in S
  BY LenProperties, ElementOfSeq
<1> DEFINE a == SubSeq(s, 1, k - 1)
           b == SubSeq(s, k + 1, Len(s))
<1>2. a \in Seq(S) /\ Len(a) = k - 1 /\ \A i \in 1..k - 1 : a[i] = s[i]
  <2>1. \A i \in 1..k - 1 : s[i] \in S /\ 1 + i - 1 = i
    BY <1>1
  <2>2. /\ a \in Seq(S) /\ Len(a) = IF 1 <= k - 1 THEN k - 1 - 1 + 1 ELSE 0
        /\ \A i \in 1..(k - 1) - 1 + 1 : a[i] = s[1 + i - 1]
    BY <1>1, <2>1, SubSeqProperties
  <2>3. (k - 1) - 1 + 1 = k - 1
    BY <1>1
  <2>4. QED
    BY <1>1, <2>1, <2>2, <2>3
<1>3. b \in Seq(S) /\ Len(b) = Len(s) - k /\ \A i \in 1..Len(s) - k : b[i] = s[k + i]
  <2>1. \A i \in k + 1..Len(s) : s[i] \in S
    BY <1>1
  <2>2. /\ b \in Seq(S) /\ Len(b) = IF k + 1 <= Len(s) THEN Len(s) - (k + 1) + 1 ELSE 0
        /\ \A i \in 1..Len(s) - (k + 1) + 1 : b[i] = s[k + 1 + i - 1]
    BY <1>1, <2>1, SubSeqProperties
  <2>3. Len(s) - (k + 1) + 1 = Len(s) - k /\ \A i \in Int : k + 1 + i - 1 = k + i
    BY <1>1
  <2>4. Len(b) = Len(s) - k
    BY <1>1, <2>2
  <2>5. ASSUME NEW i \in 1..Len(s) - k PROVE b[i] = s[k + i]
    <3>1. i \in Int /\ b[i] = s[k + 1 + i - 1]
      BY <2>2, <2>3
    <3>2. QED
      BY <2>3, <3>1
  <2>6. QED
    BY <2>2, <2>4, <2>5
<1> HIDE DEF a, b
<1>4. RemoveAt(s, k) = a \o b
  BY DEF RemoveAt, a, b
<1>5. /\ a \o b \in Seq(S) /\ Len(a \o b) = Len(s) - 1
      /\ \A i \in 1..Len(s) - 1 : (a \o b)[i] = IF i <= k - 1 THEN a[i] ELSE b[i - (k - 1)]
  <2>1. Len(a) + Len(b) = Len(s) - 1
    BY <1>1, <1>2, <1>3
  <2>2. /\ a \o b \in Seq(S) /\ Len(a \o b) = Len(a) + Len(b)
        /\ \A i \in 1..Len(a) + Len(b) : (a \o b)[i] = IF i <= Len(a) THEN a[i] ELSE b[i - Len(a)]
    BY <1>2, <1>3, ConcatProperties
  <2>3. QED
    BY <1>2, <2>1, <2>2
<1>6. ASSUME NEW j \in 1..Len(s) - 1 PROVE (a \o b)[j] = IF j < k THEN s[j] ELSE s[j + 1]
  <2>0. j \in Int /\ j >= 1 /\ j <= Len(s) - 1
    BY <1>1
  <2>1. CASE j < k
    BY <2>1, <1>1, <1>2, <1>5
  <2>2. CASE j >= k
    <3>1. (a \o b)[j] = b[j - (k - 1)]
      <4>1. ~(j <= k - 1) /\ ~(j < k)
        BY <2>0, <2>2, <1>1
      <4>2. QED
        BY <4>1, <1>5
    <3>2. j - (k - 1) \in 1..Len(s) - k /\ k + (j - (k - 1)) = j + 1 /\ ~(j < k)
      BY <2>0, <2>2, <1>1
    <3>3. QED
      BY <2>2, <3>1, <3>2, <1>1, <1>3
  <2>3. j < k \/ j >= k
    BY <2>0, <1>1
  <2>4. QED
    BY <2>1, <2>2, <2>3
<1>7. QED
  BY <1>4, <1>5, <1>6

\* A sequence with one more element.
LEMMA InsertedAt ==
  ASSUME NEW S, NEW s \in Seq(S), NEW p \in 1..Len(s) + 1, NEW x \in S
  PROVE  /\ InsertAt(s, p, x) \in Seq(S)
         /\ Len(InsertAt(s, p, x)) = Len(s) + 1
         /\ \A j \in 1..Len(s) + 1 :
              InsertAt(s, p, x)[j] = IF j < p THEN s[j] ELSE IF j = p THEN x ELSE s[j - 1]
<1>1. Len(s) \in Nat /\ p \in Int /\ p >= 1 /\ p <= Len(s) + 1 /\ \A i \in 1..Len(s) : s[i] \in S
  BY LenProperties, ElementOfSeq
<1> DEFINE a == SubSeq(s, 1, p - 1)
           b == SubSeq(s, p, Len(s))
           c == a \o <<x>>
<1>2. a \in Seq(S) /\ Len(a) = p - 1 /\ \A i \in 1..p - 1 : a[i] = s[i]
  <2>1. \A i \in 1..p - 1 : s[i] \in S /\ 1 + i - 1 = i
    BY <1>1
  <2>2. /\ a \in Seq(S) /\ Len(a) = IF 1 <= p - 1 THEN p - 1 - 1 + 1 ELSE 0
        /\ \A i \in 1..(p - 1) - 1 + 1 : a[i] = s[1 + i - 1]
    BY <1>1, <2>1, SubSeqProperties
  <2>3. (p - 1) - 1 + 1 = p - 1
    BY <1>1
  <2>4. QED
    BY <1>1, <2>1, <2>2, <2>3
<1>3. b \in Seq(S) /\ Len(b) = Len(s) - p + 1 /\ \A i \in 1..Len(s) - p + 1 : b[i] = s[p + i - 1]
  <2>1. \A i \in p..Len(s) : s[i] \in S
    BY <1>1
  <2>2. /\ b \in Seq(S) /\ Len(b) = IF p <= Len(s) THEN Len(s) - p + 1 ELSE 0
        /\ \A i \in 1..Len(s) - p + 1 : b[i] = s[p + i - 1]
    BY <1>1, <2>1, SubSeqProperties
  <2>3. QED
    BY <1>1, <2>2
<1> HIDE DEF a, b
<1>4. <<x>> \in Seq(S) /\ Len(<<x>>) = 1 /\ <<x>>[1] = x
  OBVIOUS
<1>5. c \in Seq(S) /\ Len(c) = p /\ \A i \in 1..p : c[i] = IF i < p THEN s[i] ELSE x
  <2>1. Len(a) + Len(<<x>>) = p
    BY <1>1, <1>2, <1>4
  <2>2. c \in Seq(S) /\ Len(c) = p /\ \A i \in 1..p : c[i] = IF i <= p - 1 THEN a[i] ELSE <<x>>[i - (p - 1)]
    BY <1>2, <1>4, <2>1, ConcatProperties
  <2>3. ASSUME NEW i \in 1..p PROVE c[i] = IF i < p THEN s[i] ELSE x
    <3>0. i \in Int /\ i <= p
      BY <1>1
    <3>1. CASE i < p
      BY <3>1, <1>1, <1>2, <2>2
    <3>2. CASE i = p
      <4>1. i - (p - 1) = 1
        BY <3>2, <1>1
      <4>2. QED
        BY <3>2, <4>1, <1>1, <1>4, <2>2
    <3>3. i < p \/ i = p
      BY <3>0, <1>1
    <3>4. QED
      BY <3>1, <3>2, <3>3
  <2>4. QED
    BY <2>2, <2>3
<1> HIDE DEF c
<1>6. InsertAt(s, p, x) = c \o b
  BY DEF InsertAt, a, b, c
<1>7. /\ c \o b \in Seq(S) /\ Len(c \o b) = Len(s) + 1
      /\ \A i \in 1..Len(s) + 1 : (c \o b)[i] = IF i <= p THEN c[i] ELSE b[i - p]
  <2>1. Len(c) + Len(b) = Len(s) + 1
    BY <1>1, <1>3, <1>5
  <2>2. c \in Seq(S) /\ b \in Seq(S)
    BY <1>3, <1>5
  <2>3. /\ c \o b \in Seq(S) /\ Len(c \o b) = Len(c) + Len(b)
        /\ \A i \in 1..Len(c) + Len(b) : (c \o b)[i] = IF i <= Len(c) THEN c[i] ELSE b[i - Len(c)]
    BY <2>2, ConcatProperties
  <2>4. QED
    BY <1>5, <2>1, <2>3
<1>8. ASSUME NEW j \in 1..Len(s) + 1 PROVE (c \o b)[j] = IF j < p THEN s[j] ELSE IF j = p THEN x ELSE s[j - 1]
  <2>0. j \in Int /\ j >= 1 /\ j <= Len(s) + 1
    BY <1>1
  <2>1. CASE j <= p
    BY <2>0, <2>1, <1>1, <1>5, <1>7
  <2>2. CASE j > p
    <3>1. (c \o b)[j] = b[j - p]
      BY <2>2, <1>1, <1>7
    <3>2. j - p \in 1..Len(s) - p + 1 /\ p + (j - p) - 1 = j - 1
      BY <2>2, <1>1
    <3>3. QED
      BY <2>2, <3>1, <3>2, <1>1, <1>3
  <2>3. j <= p \/ j > p
    BY <2>0, <1>1
  <2>4. QED
    BY <2>1, <2>2, <2>3
<1>9. QED
  BY <1>6, <1>7, <1>8

(***************************************************************************)
(* Test suites: TestRunsAccount.                                           *)
(***************************************************************************)

SuiteTests == [id : TestIds, req : TestRequests \cup {""}]
TestVerdicts == [test : TestIds, passed : BOOLEAN]
RunResults == [chosen : Seq(TestIds), verdicts : Seq(TestVerdicts)]
TestRuns == [todo : Seq(TestIds), chosen : Seq(TestIds), verdicts : Seq(TestVerdicts),
             offered : SUBSET TestRequests, copy : SUBSET TestRequests]

SuiteTypeOK ==
    /\ suiteCol \in {"home", "away", ""} /\ requestsOf \in [Collections -> SUBSET TestRequests] /\ stored \subseteq TestRequests
    /\ tests \in Seq(SuiteTests) /\ testRun \in TestRuns /\ runResults \in Seq(RunResults)

\* Every test points at a request that exists, and no test is in the order
\* twice.
TestsFit ==
    /\ \A k \in DOMAIN tests : tests[k].req \in {""} \cup Existing
    /\ \A j, k \in DOMAIN tests : tests[j].id = tests[k].id => j = k

\* What a run was started with is what it has a verdict for, then what is left.
RunFits ==
    /\ Len(testRun.chosen) = Len(testRun.verdicts) + Len(testRun.todo)
    /\ \A k \in 1..Len(testRun.verdicts) : testRun.chosen[k] = testRun.verdicts[k].test
    /\ \A k \in 1..Len(testRun.todo) : testRun.chosen[Len(testRun.verdicts) + k] = testRun.todo[k]

\* A saved run has a verdict for every test, and goes with its suite.
Complete(result) ==
    /\ Len(result.chosen) = Len(result.verdicts)
    /\ \A k \in 1..Len(result.verdicts) : result.chosen[k] = result.verdicts[k].test
ResultsFit ==
    /\ \A k \in 1..Len(runResults) : Complete(runResults[k])
    /\ suiteCol = "" => runResults = <<>>
    /\ Len(runResults) <= KeptRuns

SuiteInv == SuiteTypeOK /\ TestsFit /\ RunFits /\ ResultsFit

\* What exists, and what is offered of it.
LEMMA RequestsExist ==
  ASSUME SuiteInv
  PROVE  /\ Existing \subseteq TestRequests /\ Offered \subseteq Existing
         /\ \A c \in Collections : requestsOf[c] \subseteq Existing /\ requestsOf[c] \subseteq TestRequests
  BY DEF SuiteInv, SuiteTypeOK, Existing, Offered, Collections

LEMMA NoTestRunFits == NoTestRun \in TestRuns /\ Len(NoTestRun.chosen) = 0 /\ Len(NoTestRun.verdicts) = 0 /\ Len(NoTestRun.todo) = 0
<1>1. \A S : <<>> \in Seq(S) /\ Len(<<>>) = 0
  BY EmptySeq
<1>2. {} \in SUBSET TestRequests
  OBVIOUS
<1>3. QED
  BY <1>1, <1>2 DEF NoTestRun, TestRuns

LEMMA SuiteInvInit == SuiteInit => SuiteInv
<1> SUFFICES ASSUME SuiteInit PROVE SuiteInv
  OBVIOUS
<1>1. \A S : <<>> \in Seq(S) /\ Len(<<>>) = 0
  BY EmptySeq
<1>2. SuiteTypeOK
  <2>1. PICK kept \in SUBSET TestRequests :
          requestsOf = [c \in Collections |-> IF c = "home" THEN kept ELSE TestRequests \ kept]
    BY DEF SuiteInit
  <2>2. requestsOf \in [Collections -> SUBSET TestRequests]
    BY <2>1
  <2>3. QED
    BY <1>1, <2>2, NoTestRunFits DEF SuiteInit, SuiteTypeOK
<1>3. TestsFit
  BY DEF SuiteInit, TestsFit
<1>4. RunFits
  BY NoTestRunFits DEF SuiteInit, RunFits
<1>5. ResultsFit
  BY <1>1, TestSuiteAssumptions DEF SuiteInit, ResultsFit
<1>6. QED
  BY <1>2, <1>3, <1>4, <1>5 DEF SuiteInv


LEMMA TestsAre ==
  ASSUME NEW seq \in Seq(SuiteTests)
  PROVE  /\ Len(seq) \in Nat /\ DOMAIN seq = 1..Len(seq)
         /\ \A k \in 1..Len(seq) : seq[k] \in SuiteTests
  BY LenProperties, ElementOfSeq

LEMMA TestFields ==
  ASSUME NEW x \in SuiteTests, NEW r \in TestRequests \cup {""}
  PROVE  /\ x.id \in TestIds /\ x.req \in TestRequests \cup {""}
         /\ [x EXCEPT !.req = r] \in SuiteTests /\ [x EXCEPT !.req = r].id = x.id /\ [x EXCEPT !.req = r].req = r
  BY DEF SuiteTests

\* Only the order of the tests is edited.
LEMMA TestsEdited ==
  ASSUME SuiteInv, UNCHANGED <<suiteCol, requestsOf, testRun, runResults, stored>>,
         tests' \in Seq(SuiteTests),
         \A j \in 1..Len(tests') : tests'[j].req \in {""} \cup Existing,
         \A i, j \in 1..Len(tests') : tests'[i].id = tests'[j].id => i = j
  PROVE  SuiteInv'
<1>1. DOMAIN tests' = 1..Len(tests')
  BY TestsAre
<1>2. Existing' = Existing
  BY DEF Existing
<1>3. TestsFit'
  BY <1>1, <1>2 DEF TestsFit
<1>4. SuiteTypeOK' /\ RunFits' /\ ResultsFit'
  BY DEF SuiteInv, SuiteTypeOK, RunFits, ResultsFit, Complete
<1>5. QED
  BY <1>3, <1>4 DEF SuiteInv

LEMMA TestRemoved ==
  ASSUME SuiteInv, NEW k \in DOMAIN tests
  PROVE  LET rest == RemoveAt(tests, k)
         IN /\ rest \in Seq(SuiteTests) /\ Len(rest) = Len(tests) - 1
            /\ \A j \in 1..Len(rest) : rest[j].id # tests[k].id /\ rest[j].req \in {""} \cup Existing
            /\ \A i, j \in 1..Len(rest) : rest[i].id = rest[j].id => i = j
<1> DEFINE rest == RemoveAt(tests, k)
           At(j) == IF j < k THEN j ELSE j + 1
<1>1. tests \in Seq(SuiteTests)
  BY DEF SuiteInv, SuiteTypeOK
<1>2. Len(tests) \in Nat /\ DOMAIN tests = 1..Len(tests) /\ k \in 1..Len(tests)
  BY <1>1, TestsAre
<1>3. /\ rest \in Seq(SuiteTests) /\ Len(rest) = Len(tests) - 1
      /\ \A j \in 1..Len(tests) - 1 : rest[j] = IF j < k THEN tests[j] ELSE tests[j + 1]
  BY <1>1, <1>2, RemovedAt
<1>4. /\ \A j \in DOMAIN tests : tests[j].req \in {""} \cup Existing
      /\ \A i, j \in DOMAIN tests : tests[i].id = tests[j].id => i = j
  BY DEF SuiteInv, TestsFit
<1> HIDE DEF rest
<1>5. ASSUME NEW j \in 1..Len(rest)
      PROVE  rest[j] = tests[At(j)] /\ At(j) \in DOMAIN tests \ {k} /\ j \in Int
  <2>1. j \in Int /\ j >= 1 /\ j <= Len(tests) - 1 /\ k \in Int /\ k >= 1 /\ k <= Len(tests)
    BY <1>2, <1>3
  <2>2. rest[j] = tests[At(j)]
    BY <1>3
  <2>3. At(j) \in 1..Len(tests) /\ At(j) # k
    BY <2>1, <1>2
  <2>4. QED
    BY <2>1, <2>2, <2>3, <1>2
<1>6. \A j \in 1..Len(rest) : rest[j].id # tests[k].id /\ rest[j].req \in {""} \cup Existing
  <2> SUFFICES ASSUME NEW j \in 1..Len(rest) PROVE rest[j].id # tests[k].id /\ rest[j].req \in {""} \cup Existing
    OBVIOUS
  <2> HIDE DEF At
  <2>1. QED
    BY <1>4, <1>5
<1>7. \A i, j \in 1..Len(rest) : rest[i].id = rest[j].id => i = j
  <2> SUFFICES ASSUME NEW i \in 1..Len(rest), NEW j \in 1..Len(rest), rest[i].id = rest[j].id PROVE i = j
    OBVIOUS
  <2>1. At(i) = At(j)
    <3> HIDE DEF At
    <3>1. QED
      BY <1>4, <1>5
  <2>2. i \in Int /\ j \in Int /\ k \in Int
    BY <1>2, <1>5
  <2>3. QED
    BY <2>1, <2>2
<1>8. QED
  BY <1>3, <1>6, <1>7 DEF rest

\* Where the elements of the longer sequence come from.
LEMMA InsertedPlaces ==
  ASSUME NEW S, NEW rest \in Seq(S), NEW p \in 1..Len(rest) + 1, NEW x \in S
  PROVE  LET all == InsertAt(rest, p, x)
         IN /\ all \in Seq(S) /\ Len(all) = Len(rest) + 1
            /\ Len(rest) \in Nat /\ Len(all) \in Nat /\ p \in Int
            /\ \A i \in 1..Len(all) :
                 /\ i \in Int /\ (i < p \/ i = p \/ i > p)
                 /\ i < p => i \in 1..Len(rest) /\ all[i] = rest[i]
                 /\ i = p => all[i] = x
                 /\ i > p => i - 1 \in 1..Len(rest) /\ all[i] = rest[i - 1]
<1> DEFINE all == InsertAt(rest, p, x)
<1>1. /\ all \in Seq(S) /\ Len(all) = Len(rest) + 1
      /\ \A i \in 1..Len(rest) + 1 : all[i] = IF i < p THEN rest[i] ELSE IF i = p THEN x ELSE rest[i - 1]
  <2>1. /\ InsertAt(rest, p, x) \in Seq(S)
        /\ Len(InsertAt(rest, p, x)) = Len(rest) + 1
        /\ \A j \in 1..Len(rest) + 1 :
              InsertAt(rest, p, x)[j] = IF j < p THEN rest[j] ELSE IF j = p THEN x ELSE rest[j - 1]
    BY InsertedAt
  <2>2. QED
    BY <2>1
<1>2. Len(rest) \in Nat /\ p \in Int /\ p >= 1 /\ p <= Len(rest) + 1
  BY LenProperties
<1> HIDE DEF all
<1>3. Len(all) \in Nat
  BY <1>1, <1>2
<1>4. ASSUME NEW i \in 1..Len(all)
      PROVE  /\ i \in Int /\ (i < p \/ i = p \/ i > p)
             /\ i < p => i \in 1..Len(rest) /\ all[i] = rest[i]
             /\ i = p => all[i] = x
             /\ i > p => i - 1 \in 1..Len(rest) /\ all[i] = rest[i - 1]
  <2>1. i \in 1..Len(rest) + 1
    BY <1>1
  <2>2. i \in Int /\ i >= 1 /\ i <= Len(rest) + 1
    BY <2>1, <1>2, <1>3
  <2>3. all[i] = IF i < p THEN rest[i] ELSE IF i = p THEN x ELSE rest[i - 1]
    BY <2>1, <1>1
  <2>4. i < p => i \in 1..Len(rest)
    BY <2>2, <1>2, <1>3
  <2>5. i > p => i - 1 \in 1..Len(rest) /\ ~(i < p) /\ i # p
    BY <2>2, <1>2, <1>3
  <2>6. (i = p => ~(i < p)) /\ (i < p \/ i = p \/ i > p)
    BY <2>2, <1>2, <1>3
  <2>7. QED
    BY <2>2, <2>3, <2>4, <2>5, <2>6
<1>5. QED
  BY <1>1, <1>2, <1>3, <1>4 DEF all

LEMMA TestInserted ==
  ASSUME NEW rest \in Seq(SuiteTests), NEW p \in 1..Len(rest) + 1, NEW x \in SuiteTests, NEW Allowed,
         x.req \in Allowed,
         \A i \in 1..Len(rest) : rest[i].id # x.id /\ rest[i].req \in Allowed,
         \A i, n \in 1..Len(rest) : rest[i].id = rest[n].id => i = n
  PROVE  LET all == InsertAt(rest, p, x)
         IN /\ all \in Seq(SuiteTests)
            /\ \A i \in 1..Len(all) : all[i].req \in Allowed
            /\ \A i, n \in 1..Len(all) : all[i].id = all[n].id => i = n
<1> DEFINE all == InsertAt(rest, p, x)
           places == 1..Len(rest)
<1>1. /\ all \in Seq(SuiteTests) /\ Len(rest) \in Nat /\ Len(all) \in Nat /\ p \in Int
      /\ \A i \in 1..Len(all) :
           /\ i \in Int /\ (i < p \/ i = p \/ i > p)
           /\ i < p => i \in places /\ all[i] = rest[i]
           /\ i = p => all[i] = x
           /\ i > p => i - 1 \in places /\ all[i] = rest[i - 1]
  BY InsertedPlaces
<1>2. /\ \A i \in places : rest[i].id # x.id /\ rest[i].req \in Allowed
      /\ \A i, n \in places : rest[i].id = rest[n].id => i = n
  OBVIOUS
<1> HIDE DEF all, places
<1>5. \A i \in 1..Len(all) : all[i].req \in Allowed
  BY <1>1, <1>2
<1>6. \A i, n \in 1..Len(all) : all[i].id = all[n].id => i = n
  <2> SUFFICES ASSUME NEW i \in 1..Len(all), NEW n \in 1..Len(all), all[i].id = all[n].id PROVE i = n
    OBVIOUS
  <2>1. i \in Int /\ n \in Int
    BY <1>1
  <2>2. CASE i = p \/ n = p
    BY <2>2, <1>1, <1>2
  <2>3. CASE i < p /\ n < p
    BY <2>3, <1>1, <1>2
  <2>4. CASE i > p /\ n > p
    <3>1. i - 1 = n - 1
      BY <2>4, <1>1, <1>2
    <3>2. QED
      BY <3>1, <2>1, <1>1
  <2>5. CASE i < p /\ n > p
    <3>1. i = n - 1
      BY <2>5, <1>1, <1>2
    <3>2. QED
      BY <2>5, <3>1, <2>1, <1>1
  <2>6. CASE i > p /\ n < p
    <3>1. i - 1 = n
      BY <2>6, <1>1, <1>2
    <3>2. QED
      BY <2>6, <3>1, <2>1, <1>1
  <2>7. QED
    BY <2>2, <2>3, <2>4, <2>5, <2>6, <1>1
<1>7. QED
  BY <1>1, <1>5, <1>6 DEF all

LEMMA MoveKeeps ==
  ASSUME SuiteInv, NEW k \in DOMAIN tests, NEW j \in DOMAIN tests, NEW after \in BOOLEAN, MoveTest(k, j, after)
  PROVE  SuiteInv'
<1> DEFINE rest == RemoveAt(tests, k)
           target == IF j > k THEN j - 1 ELSE j
           p == IF after THEN target + 1 ELSE target
           x == tests[k]
<1>1. /\ k # j /\ tests' = InsertAt(rest, p, x)
      /\ UNCHANGED <<suiteCol, requestsOf, testRun, runResults, stored>>
  BY DEF MoveTest
<1>2. /\ rest \in Seq(SuiteTests) /\ Len(rest) = Len(tests) - 1
      /\ \A i \in 1..Len(rest) : rest[i].id # x.id /\ rest[i].req \in {""} \cup Existing
      /\ \A i, n \in 1..Len(rest) : rest[i].id = rest[n].id => i = n
  BY TestRemoved
<1>3. tests \in Seq(SuiteTests)
  BY DEF SuiteInv, SuiteTypeOK
<1>40. Len(tests) \in Nat
  BY <1>3, TestsAre
<1>4. k \in 1..Len(tests) /\ j \in 1..Len(tests) /\ x \in SuiteTests
  BY <1>3, TestsAre
<1>5. x.req \in {""} \cup Existing
  BY DEF SuiteInv, TestsFit
<1> HIDE DEF rest, x
<1>6. p \in 1..Len(rest) + 1
  <2>1. k \in Int /\ j \in Int /\ k >= 1 /\ j >= 1 /\ k <= Len(tests) /\ j <= Len(tests)
    BY <1>4, <1>40
  <2>20. Len(rest) = Len(tests) - 1
    BY <1>2
  <2>2. Len(tests) \in Nat /\ Len(rest) = Len(tests) - 1 /\ Len(rest) \in Int
    BY <2>20, <1>40
  <2>3. target \in Int /\ target >= 1 /\ target <= Len(tests) - 1
    BY <1>1, <2>1, <2>2
  <2> HIDE DEF target
  <2>4. target \in 1..Len(rest) + 1 /\ target + 1 \in 1..Len(rest) + 1
    BY <2>2, <2>3
  <2>5. QED
    BY <2>4
<1> HIDE DEF p
<1>7. /\ tests' \in Seq(SuiteTests)
      /\ \A i \in 1..Len(tests') : tests'[i].req \in {""} \cup Existing
      /\ \A i, n \in 1..Len(tests') : tests'[i].id = tests'[n].id => i = n
  BY <1>1, <1>2, <1>4, <1>5, <1>6, TestInserted
<1>8. QED
  BY <1>1, <1>7, TestsEdited

LEMMA AddKeeps ==
  ASSUME SuiteInv, NEW t \in TestIds, AddTest(t)
  PROVE  SuiteInv'
<1>1. /\ t \notin TestsNow /\ UNCHANGED <<suiteCol, requestsOf, testRun, runResults, stored>>
      /\ \E r \in IF Offered = {} THEN {""} ELSE Offered : tests' = InsertAt(tests, 1, [id |-> t, req |-> r])
  BY DEF AddTest
<1>2. 1 \in 1..Len(tests) + 1
  <2>1. tests \in Seq(SuiteTests)
    BY DEF SuiteInv, SuiteTypeOK
  <2>2. Len(tests) \in Nat
    BY <2>1, TestsAre
  <2>3. QED
    BY <2>2
<1>3. PICK r \in {""} \cup Existing : tests' = InsertAt(tests, 1, [id |-> t, req |-> r])
  BY <1>1, RequestsExist
<1>4. r \in TestRequests \cup {""}
  BY <1>3, RequestsExist
<1> DEFINE x == [id |-> t, req |-> r]
<1>5. x \in SuiteTests /\ x.id = t /\ x.req \in {""} \cup Existing
  BY <1>4 DEF SuiteTests
<1>6. tests' = InsertAt(tests, 1, x)
  BY <1>3
<1> HIDE DEF x
<1>7. tests \in Seq(SuiteTests)
  BY DEF SuiteInv, SuiteTypeOK
<1>8. Len(tests) \in Nat /\ DOMAIN tests = 1..Len(tests)
  BY <1>7, TestsAre
<1>9. \A i \in 1..Len(tests) : tests[i].id # x.id /\ tests[i].req \in {""} \cup Existing
  BY <1>1, <1>5, <1>8 DEF TestsNow, SuiteInv, TestsFit
<1>10. \A i, n \in 1..Len(tests) : tests[i].id = tests[n].id => i = n
  BY <1>8 DEF SuiteInv, TestsFit
<1>11. /\ tests' \in Seq(SuiteTests)
       /\ \A i \in 1..Len(tests') : tests'[i].req \in {""} \cup Existing
       /\ \A i, n \in 1..Len(tests') : tests'[i].id = tests'[n].id => i = n
  BY <1>5, <1>6, <1>7, <1>2, <1>9, <1>10, TestInserted
<1>12. QED
  BY <1>1, <1>11, TestsEdited

LEMMA DeleteKeeps ==
  ASSUME SuiteInv, NEW t \in TestIds, DeleteTest(t)
  PROVE  SuiteInv'
<1>1. PICK k \in DOMAIN tests : tests' = RemoveAt(tests, k)
  BY DEF DeleteTest
<1>2. UNCHANGED <<suiteCol, requestsOf, testRun, runResults, stored>>
  BY DEF DeleteTest
<1>3. /\ tests' \in Seq(SuiteTests)
      /\ \A i \in 1..Len(tests') : tests'[i].req \in {""} \cup Existing
      /\ \A i, n \in 1..Len(tests') : tests'[i].id = tests'[n].id => i = n
  BY <1>1, TestRemoved
<1>4. QED
  BY <1>2, <1>3, TestsEdited

\* Some tests lose their request.
WithRequests(seq, req) == [k \in DOMAIN seq |-> [seq[k] EXCEPT !.req = req[k]]]

LEMMA RequestsSet ==
  ASSUME NEW seq \in Seq(SuiteTests), NEW req \in [DOMAIN seq -> TestRequests \cup {""}]
  PROVE  /\ WithRequests(seq, req) \in Seq(SuiteTests) /\ DOMAIN WithRequests(seq, req) = DOMAIN seq
         /\ \A k \in DOMAIN seq :
              WithRequests(seq, req)[k].id = seq[k].id /\ WithRequests(seq, req)[k].req = req[k]
<1> DEFINE new == WithRequests(seq, req)
           n == Len(seq)
<1>1. n \in Nat /\ DOMAIN seq = 1..n /\ \A k \in DOMAIN seq : seq[k] \in SuiteTests
  BY TestsAre
<1>2. \A k \in DOMAIN seq : new[k] = [seq[k] EXCEPT !.req = req[k]]
  BY DEF WithRequests
<1>3. DOMAIN new = DOMAIN seq /\ new = [k \in DOMAIN seq |-> new[k]]
  BY DEF WithRequests
<1> HIDE DEF n, new
<1>4. ASSUME NEW k \in DOMAIN seq PROVE new[k] \in SuiteTests /\ new[k].id = seq[k].id /\ new[k].req = req[k]
  <2>1. seq[k] \in SuiteTests /\ req[k] \in TestRequests \cup {""}
    BY <1>1
  <2>2. /\ [seq[k] EXCEPT !.req = req[k]] \in SuiteTests
        /\ [seq[k] EXCEPT !.req = req[k]].id = seq[k].id /\ [seq[k] EXCEPT !.req = req[k]].req = req[k]
    BY <2>1, TestFields
  <2>3. new[k] = [seq[k] EXCEPT !.req = req[k]]
    BY <1>2
  <2>4. QED
    BY <2>2, <2>3
<1>5. new \in [1..n -> SuiteTests]
  <2>1. new \in [DOMAIN seq -> SuiteTests]
    BY <1>3, <1>4
  <2>2. QED
    BY <2>1, <1>1
<1>6. new \in Seq(SuiteTests)
  <2>1. n \in Nat
    BY <1>1
  <2>2. Seq(SuiteTests) = UNION {[1..m -> SuiteTests] : m \in Nat}
    BY SeqDef
  <2>3. QED
    BY <2>1, <2>2, <1>5
<1>7. QED
  BY <1>3, <1>4, <1>6 DEF new

LEMMA MoveSuiteKeeps ==
  ASSUME SuiteInv, NEW col \in {"home", "away"}, MoveSuite(col)
  PROVE  SuiteInv'
<1> DEFINE req == [k \in DOMAIN tests |-> IF tests[k].req \in requestsOf[col] THEN tests[k].req ELSE ""]
<1>1. /\ suiteCol # "" /\ suiteCol' = col /\ UNCHANGED <<requestsOf, testRun, runResults, stored>>
      /\ tests' = WithRequests(tests, req)
  BY DEF MoveSuite, WithRequests
<1>2. tests \in Seq(SuiteTests) /\ requestsOf[col] \subseteq Existing /\ Existing \subseteq TestRequests
  BY RequestsExist DEF SuiteInv, SuiteTypeOK, Collections
<1>3. \A k \in DOMAIN tests : req[k] \in {""} \cup Existing
  BY <1>2
<1>4. req \in [DOMAIN tests -> TestRequests \cup {""}]
  BY <1>2, <1>3
<1> HIDE DEF req
<1>5. /\ tests' \in Seq(SuiteTests) /\ DOMAIN tests' = DOMAIN tests
      /\ \A k \in DOMAIN tests : tests'[k].id = tests[k].id /\ tests'[k].req = req[k]
  BY <1>1, <1>2, <1>4, RequestsSet
<1>6. Existing' = Existing
  BY <1>1 DEF Existing
<1>7. \A k \in DOMAIN tests' : tests'[k].req \in {""} \cup Existing'
  BY <1>3, <1>5, <1>6
<1>8. \A j, k \in DOMAIN tests' : tests'[j].id = tests'[k].id => j = k
  BY <1>5 DEF SuiteInv, TestsFit
<1>9. SuiteTypeOK'
  BY <1>1, <1>5 DEF SuiteInv, SuiteTypeOK
<1>10. RunFits' /\ ResultsFit'
  BY <1>1 DEF SuiteInv, RunFits, ResultsFit, Complete
<1>11. QED
  BY <1>7, <1>8, <1>9, <1>10 DEF SuiteInv, TestsFit

LEMMA RetargetKeeps ==
  ASSUME SuiteInv, NEW n \in DOMAIN tests, NEW r \in TestChoices, RetargetTest(n, r)
  PROVE  SuiteInv'
<1> DEFINE req == [k \in DOMAIN tests |-> IF k = n THEN r ELSE tests[k].req]
<1>1. /\ tests' = [tests EXCEPT ![n].req = r]
      /\ UNCHANGED <<suiteCol, requestsOf, testRun, runResults, stored>>
  BY DEF RetargetTest
<1>2. tests \in Seq(SuiteTests) /\ Existing \subseteq TestRequests /\ r \in {""} \cup Existing
  BY RequestsExist DEF SuiteInv, SuiteTypeOK, TestChoices
<1>3. \A k \in DOMAIN tests : req[k] \in {""} \cup Existing
  BY <1>2 DEF SuiteInv, TestsFit
<1>4. req \in [DOMAIN tests -> TestRequests \cup {""}]
  BY <1>2, <1>3
<1>5. tests' = WithRequests(tests, req)
  <2>1. DOMAIN tests = 1..Len(tests) /\ \A k \in DOMAIN tests : tests[k] \in SuiteTests
    BY <1>2, TestsAre
  <2>2. \A k \in DOMAIN tests : tests[k] = [tests[k] EXCEPT !.req = tests[k].req]
    BY <2>1 DEF SuiteTests
  <2>3. tests \in [DOMAIN tests -> SuiteTests]
    <3>1. tests \in Seq(SuiteTests)
      BY <1>2
    <3>2. QED
      BY <3>1
  <2>4. \A k \in DOMAIN tests : tests'[k] = [tests[k] EXCEPT !.req = req[k]]
    BY <1>1, <2>2, <2>3
  <2>5. tests' = [k \in DOMAIN tests |-> tests'[k]]
    BY <1>1, <2>3
  <2>6. QED
    BY <2>4, <2>5 DEF WithRequests
<1> HIDE DEF req
<1>6. /\ tests' \in Seq(SuiteTests) /\ DOMAIN tests' = DOMAIN tests
      /\ \A k \in DOMAIN tests : tests'[k].id = tests[k].id /\ tests'[k].req = req[k]
  BY <1>2, <1>4, <1>5, RequestsSet
<1>7. DOMAIN tests' = 1..Len(tests')
  BY <1>6, TestsAre
<1>8. \A j \in 1..Len(tests') : tests'[j].req \in {""} \cup Existing
  BY <1>3, <1>6, <1>7
<1>9. \A i, j \in 1..Len(tests') : tests'[i].id = tests'[j].id => i = j
  BY <1>6, <1>7 DEF SuiteInv, TestsFit
<1>10. QED
  BY <1>1, <1>6, <1>8, <1>9, TestsEdited

LEMMA RelocateRequestKeeps ==
  ASSUME SuiteInv, NEW r, NEW col \in Collections, RelocateRequest(r, col)
  PROVE  SuiteInv'
<1>1. /\ r \in Existing /\ UNCHANGED <<suiteCol, tests, testRun, runResults, stored>>
      /\ requestsOf' = [c \in Collections |-> IF c = col THEN requestsOf[c] \cup {r} ELSE requestsOf[c] \ {r}]
  BY DEF RelocateRequest
<1>2. Existing' = Existing
  BY <1>1 DEF Existing, Collections
<1>3. requestsOf' \in [Collections -> SUBSET TestRequests]
  BY <1>1, RequestsExist
<1>4. SuiteTypeOK'
  BY <1>1, <1>3 DEF SuiteInv, SuiteTypeOK
<1>5. TestsFit'
  BY <1>1, <1>2 DEF SuiteInv, TestsFit
<1>6. RunFits' /\ ResultsFit'
  BY <1>1 DEF SuiteInv, RunFits, ResultsFit, Complete
<1>7. QED
  BY <1>4, <1>5, <1>6 DEF SuiteInv

LEMMA DeleteRequestKeeps ==
  ASSUME SuiteInv, NEW r, DeleteRequest(r)
  PROVE  SuiteInv'
<1> DEFINE req == [k \in DOMAIN tests |-> IF tests[k].req = r THEN "" ELSE tests[k].req]
<1>1. /\ requestsOf' = [c \in Collections |-> requestsOf[c] \ {r}] /\ UNCHANGED <<suiteCol, testRun, runResults, stored>>
      /\ tests' = WithRequests(tests, req)
  BY DEF DeleteRequest, WithRequests
<1>2. tests \in Seq(SuiteTests) /\ Existing \subseteq TestRequests /\ requestsOf \in [Collections -> SUBSET TestRequests]
  BY RequestsExist DEF SuiteInv, SuiteTypeOK
<1>3. \A k \in DOMAIN tests : req[k] \in {""} \cup (Existing \ {r})
  BY DEF SuiteInv, TestsFit
<1>4. req \in [DOMAIN tests -> TestRequests \cup {""}]
  BY <1>2, <1>3
<1> HIDE DEF req
<1>5. /\ tests' \in Seq(SuiteTests) /\ DOMAIN tests' = DOMAIN tests
      /\ \A k \in DOMAIN tests : tests'[k].id = tests[k].id /\ tests'[k].req = req[k]
  BY <1>1, <1>2, <1>4, RequestsSet
<1>6. Existing' = Existing \ {r}
  BY <1>1 DEF Existing, Collections
<1>7. \A k \in DOMAIN tests' : tests'[k].req \in {""} \cup Existing'
  BY <1>3, <1>5, <1>6
<1>8. \A j, k \in DOMAIN tests' : tests'[j].id = tests'[k].id => j = k
  BY <1>5 DEF SuiteInv, TestsFit
<1>9. SuiteTypeOK'
  BY <1>1, <1>2, <1>5 DEF SuiteInv, SuiteTypeOK
<1>10. RunFits' /\ ResultsFit'
  BY <1>1 DEF SuiteInv, RunFits, ResultsFit, Complete
<1>11. QED
  BY <1>7, <1>8, <1>9, <1>10 DEF SuiteInv, TestsFit

LEMMA DeleteSuiteKeeps ==
  ASSUME SuiteInv, DeleteSuite
  PROVE  SuiteInv'
<1>1. /\ suiteCol' = "" /\ tests' = <<>> /\ runResults' = <<>> /\ UNCHANGED <<requestsOf, testRun, stored>>
  BY DEF DeleteSuite
<1>2. \A S : <<>> \in Seq(S) /\ Len(<<>>) = 0
  BY EmptySeq
<1>3. SuiteTypeOK'
  BY <1>1, <1>2 DEF SuiteInv, SuiteTypeOK
<1>4. TestsFit'
  <2>1. DOMAIN tests' = {}
    <3>1. DOMAIN <<>> = {}
      OBVIOUS
    <3>2. QED
      BY <3>1, <1>1
  <2>2. QED
    BY <2>1 DEF TestsFit
<1>5. RunFits'
  BY <1>1 DEF SuiteInv, RunFits
<1>6. ResultsFit'
  <2>1. Len(runResults') = 0 /\ KeptRuns \in Nat
    BY <1>1, <1>2, TestSuiteAssumptions
  <2>2. \A k \in 1..Len(runResults') : FALSE
    BY <2>1
  <2>3. Len(runResults') <= KeptRuns
    BY <2>1
  <2>4. QED
    BY <2>2, <2>3, <1>1 DEF ResultsFit
<1>7. QED
  BY <1>3, <1>4, <1>5, <1>6 DEF SuiteInv

\* The tests and the suite stay as they are.
LEMMA RunChanges ==
  ASSUME SuiteInv, UNCHANGED <<suiteCol, tests, requestsOf>>,
         stored' \subseteq TestRequests, testRun' \in TestRuns, runResults' \in Seq(RunResults), RunFits', ResultsFit'
  PROVE  SuiteInv'
<1>1. Existing' = Existing
  BY DEF Existing
<1>2. TestsFit'
  BY <1>1 DEF SuiteInv, TestsFit
<1>3. SuiteTypeOK'
  BY DEF SuiteInv, SuiteTypeOK
<1>4. QED
  BY <1>2, <1>3 DEF SuiteInv

LEMMA TestRunFields ==
  ASSUME NEW run \in TestRuns
  PROVE  /\ run.todo \in Seq(TestIds) /\ run.chosen \in Seq(TestIds) /\ run.verdicts \in Seq(TestVerdicts)
         /\ run.copy \subseteq TestRequests /\ run.offered \subseteq TestRequests
         /\ Len(run.todo) \in Nat /\ Len(run.chosen) \in Nat /\ Len(run.verdicts) \in Nat
  BY LenProperties DEF TestRuns

LEMMA StartKeeps ==
  ASSUME SuiteInv, NEW chosen \in Seq(TestIds), StartRun(chosen)
  PROVE  SuiteInv'
<1>1. /\ testRun' = [todo |-> chosen, chosen |-> chosen, verdicts |-> <<>>, offered |-> Offered, copy |-> stored]
      /\ UNCHANGED <<suiteCol, tests, requestsOf, runResults, stored>>
  BY DEF StartRun
<1>2. <<>> \in Seq(TestVerdicts) /\ Len(<<>>) = 0 /\ Len(chosen) \in Nat
  BY EmptySeq, LenProperties
<1>3. testRun' \in TestRuns
  BY <1>1, <1>2, RequestsExist DEF SuiteInv, SuiteTypeOK, TestRuns
<1>4. testRun'.todo = chosen /\ testRun'.chosen = chosen /\ testRun'.verdicts = <<>>
  BY <1>1
<1>5. RunFits'
  <2>1. Len(testRun'.verdicts) = 0 /\ Len(testRun'.chosen) = Len(chosen) /\ Len(testRun'.todo) = Len(chosen)
    BY <1>2, <1>4
  <2>2. Len(testRun'.chosen) = Len(testRun'.verdicts) + Len(testRun'.todo)
    BY <1>2, <2>1
  <2>3. \A k \in 1..Len(testRun'.verdicts) : FALSE
    BY <2>1
  <2>4. ASSUME NEW k \in 1..Len(testRun'.todo)
        PROVE  testRun'.chosen[Len(testRun'.verdicts) + k] = testRun'.todo[k]
    <3>1. k \in Int /\ 0 + k = k
      BY <1>2, <2>1
    <3>2. QED
      BY <1>4, <2>1, <3>1
  <2>5. QED
    BY <2>2, <2>3, <2>4 DEF RunFits
<1>6. ResultsFit'
  BY <1>1 DEF SuiteInv, ResultsFit, Complete
<1>7. QED
  BY <1>1, <1>3, <1>5, <1>6, RunChanges DEF SuiteInv, SuiteTypeOK

LEMMA OneTestKeeps ==
  ASSUME SuiteInv, NEW passed \in BOOLEAN, NEW sent, RunOneTest(passed, sent)
  PROVE  SuiteInv'
<1> DEFINE v == [test |-> Head(testRun.todo), passed |-> passed]
           todo == testRun.todo
           verdicts == testRun.verdicts
<1>1. /\ todo # <<>> /\ sent \subseteq testRun.offered
      /\ testRun' = [testRun EXCEPT !.todo = Tail(todo), !.copy = testRun.copy \cup sent, !.verdicts = Append(verdicts, v)]
      /\ UNCHANGED <<suiteCol, tests, requestsOf, runResults, stored>>
  BY DEF RunOneTest
<1>2. testRun \in TestRuns /\ stored \subseteq TestRequests /\ runResults \in Seq(RunResults)
  BY DEF SuiteInv, SuiteTypeOK
<1>3. todo \in Seq(TestIds) /\ testRun.chosen \in Seq(TestIds) /\ verdicts \in Seq(TestVerdicts) /\ testRun.copy \subseteq TestRequests
  BY <1>2, TestRunFields
<1>4. Len(todo) \in Nat /\ Len(testRun.chosen) \in Nat /\ Len(verdicts) \in Nat
  BY <1>2, TestRunFields
<1>5. /\ Head(todo) \in TestIds /\ Tail(todo) \in Seq(TestIds) /\ Len(Tail(todo)) = Len(todo) - 1
      /\ \A i \in 1..Len(Tail(todo)) : Tail(todo)[i] = todo[i + 1]
  BY <1>1, <1>3, HeadTailProperties
<1>6. Head(todo) = todo[1]
  BY <1>1, <1>3
<1>7. v \in TestVerdicts /\ v.test = Head(todo)
  BY <1>5 DEF TestVerdicts
<1> HIDE DEF v, todo, verdicts
<1>8. /\ Append(verdicts, v) \in Seq(TestVerdicts) /\ Len(Append(verdicts, v)) = Len(verdicts) + 1
      /\ \A i \in 1..Len(verdicts) : Append(verdicts, v)[i] = verdicts[i]
      /\ Append(verdicts, v)[Len(verdicts) + 1] = v
  BY <1>3, <1>7, AppendProperties
<1>9. sent \subseteq TestRequests
  BY <1>1, <1>2, TestRunFields
<1>10. testRun' \in TestRuns
  BY <1>1, <1>2, <1>3, <1>5, <1>8, <1>9 DEF TestRuns
<1>11. testRun'.todo = Tail(todo) /\ testRun'.chosen = testRun.chosen /\ testRun'.verdicts = Append(verdicts, v)
  BY <1>1, <1>2 DEF TestRuns
<1>12. /\ Len(testRun.chosen) = Len(verdicts) + Len(todo)
       /\ \A k \in 1..Len(verdicts) : testRun.chosen[k] = verdicts[k].test
       /\ \A k \in 1..Len(todo) : testRun.chosen[Len(verdicts) + k] = todo[k]
  BY DEF SuiteInv, RunFits, todo, verdicts
<1>13. Len(todo) >= 1
  <2>1. Len(todo) # 0
    BY <1>1, <1>3, EmptySeq
  <2>2. QED
    BY <2>1, <1>4
<1>14. RunFits'
  <2>1. Len(testRun'.verdicts) = Len(verdicts) + 1 /\ Len(testRun'.todo) = Len(todo) - 1
        /\ Len(testRun'.chosen) = Len(testRun.chosen)
    BY <1>5, <1>8, <1>11
  <2>2. Len(testRun'.chosen) = Len(testRun'.verdicts) + Len(testRun'.todo)
    BY <2>1, <1>4, <1>12, <1>13
  <2>3. ASSUME NEW k \in 1..Len(testRun'.verdicts)
        PROVE  testRun'.chosen[k] = testRun'.verdicts[k].test
    <3>1. k \in 1..Len(verdicts) \/ k = Len(verdicts) + 1
      BY <2>1, <1>4
    <3>2. CASE k \in 1..Len(verdicts)
      BY <3>2, <1>8, <1>11, <1>12
    <3>3. CASE k = Len(verdicts) + 1
      <4>1. 1 \in 1..Len(todo)
        BY <1>4, <1>13
      <4>2. testRun.chosen[Len(verdicts) + 1] = todo[1]
        BY <4>1, <1>12
      <4>3. QED
        BY <3>3, <4>2, <1>6, <1>7, <1>8, <1>11
    <3>4. QED
      BY <3>1, <3>2, <3>3
  <2>4. ASSUME NEW k \in 1..Len(testRun'.todo)
        PROVE  testRun'.chosen[Len(testRun'.verdicts) + k] = testRun'.todo[k]
    <3>1. k + 1 \in 1..Len(todo) /\ Len(verdicts) + (k + 1) = (Len(verdicts) + 1) + k
      BY <2>1, <1>4, <1>13
    <3>2. testRun.chosen[Len(verdicts) + (k + 1)] = todo[k + 1]
      BY <3>1, <1>12
    <3>3. testRun'.todo[k] = todo[k + 1]
      BY <1>5, <1>11
    <3>4. QED
      BY <2>1, <3>1, <3>2, <3>3, <1>11
  <2>5. QED
    BY <2>2, <2>3, <2>4 DEF RunFits
<1>15. ResultsFit'
  BY <1>1 DEF SuiteInv, ResultsFit, Complete
<1>16. QED
  BY <1>1, <1>2, <1>10, <1>14, <1>15, RunChanges

LEMMA SameLength ==
  ASSUME NEW m \in Nat, NEW n \in Nat, 1..m = 1..n
  PROVE  m = n
<1>1. m = 0 \/ m \in 1..n
  OBVIOUS
<1>2. n = 0 \/ n \in 1..m
  OBVIOUS
<1>3. QED
  BY <1>1, <1>2

\* The newest result first, the oldest ones dropped.
LEMMA RecordedFits ==
  ASSUME SuiteInv, NEW result \in RunResults, Complete(result)
  PROVE  LET new == Recorded(result)
         IN /\ new \in Seq(RunResults) /\ Len(new) <= KeptRuns
            /\ \A k \in 1..Len(new) : Complete(new[k])
            /\ suiteCol = "" => new = <<>>
<1>1. runResults \in Seq(RunResults) /\ (\A k \in 1..Len(runResults) : Complete(runResults[k]))
      /\ (suiteCol = "" => runResults = <<>>) /\ Len(runResults) <= KeptRuns
  BY DEF SuiteInv, SuiteTypeOK, ResultsFit
<1>2. Len(runResults) \in Nat /\ KeptRuns \in Nat
  BY <1>1, LenProperties, TestSuiteAssumptions
<1>3. CASE suiteCol = ""
  BY <1>1, <1>3 DEF Recorded
<1>4. CASE suiteCol # ""
  <2> DEFINE n == Min({KeptRuns, Len(runResults) + 1})
             new == [k \in 1..n |-> IF k = 1 THEN result ELSE runResults[k - 1]]
  <2>1. n \in {KeptRuns, Len(runResults) + 1} /\ n <= KeptRuns /\ n <= Len(runResults) + 1
    <3>1. \E x \in {KeptRuns, Len(runResults) + 1} : \A y \in {KeptRuns, Len(runResults) + 1} : x =< y
      BY <1>2
    <3>2. QED
      BY <3>1 DEF Min
  <2>2. n \in Nat
    BY <1>2, <2>1
  <2> HIDE DEF n
  <2>3. ASSUME NEW k \in 1..n, k # 1 PROVE k - 1 \in 1..Len(runResults)
    BY <1>2, <2>1, <2>2, <2>3
  <2>4. ASSUME NEW k \in 1..n PROVE new[k] \in RunResults /\ Complete(new[k])
    <3>1. CASE k = 1
      BY <3>1
    <3>2. CASE k # 1
      <4>1. k - 1 \in 1..Len(runResults)
        BY <3>2, <2>3
      <4>2. runResults[k - 1] \in RunResults
        BY <4>1, <1>1, ElementOfSeq
      <4>3. QED
        BY <3>2, <4>1, <4>2, <1>1
    <3>3. QED
      BY <3>1, <3>2
  <2>5. new \in [1..n -> RunResults]
    BY <2>4
  <2> HIDE DEF new
  <2>6. new \in Seq(RunResults)
    <3>1. Seq(RunResults) = UNION {[1..m -> RunResults] : m \in Nat}
      BY SeqDef
    <3>2. QED
      BY <3>1, <2>2, <2>5
  <2>7. Len(new) = n
    <3>1. Len(new) \in Nat /\ DOMAIN new = 1..Len(new)
      BY <2>6, LenProperties
    <3>2. DOMAIN new = 1..n
      BY <2>5
    <3>3. 1..Len(new) = 1..n
      BY <3>1, <3>2
    <3>4. QED
      BY <3>1, <3>3, <2>2, SameLength
  <2>8. Recorded(result) = new
    BY <1>4 DEF Recorded, new, n
  <2>9. QED
    BY <1>4, <2>1, <2>4, <2>6, <2>7, <2>8
<1>5. QED
  BY <1>3, <1>4

LEMMA FinishKeeps ==
  ASSUME SuiteInv, FinishRun
  PROVE  SuiteInv'
<1> DEFINE result == [chosen |-> testRun.chosen, verdicts |-> testRun.verdicts]
<1>1. /\ testRun.todo = <<>> /\ runResults' = Recorded(result)
      /\ stored' = testRun.copy /\ testRun' = NoTestRun /\ UNCHANGED <<suiteCol, tests, requestsOf>>
  BY DEF FinishRun
<1>2. testRun \in TestRuns
  BY DEF SuiteInv, SuiteTypeOK
<1>3. /\ testRun.chosen \in Seq(TestIds) /\ testRun.verdicts \in Seq(TestVerdicts) /\ testRun.copy \subseteq TestRequests
  BY <1>2, TestRunFields
<1>4. Len(testRun.chosen) \in Nat /\ Len(testRun.verdicts) \in Nat /\ Len(testRun.todo) = 0
  BY <1>1, <1>2, TestRunFields, EmptySeq
<1>5. result \in RunResults /\ result.chosen = testRun.chosen /\ result.verdicts = testRun.verdicts
  BY <1>3 DEF RunResults
<1> HIDE DEF result
<1>6. Complete(result)
  <2>1. Len(testRun.chosen) = Len(testRun.verdicts)
    BY <1>4 DEF SuiteInv, RunFits
  <2>2. QED
    BY <2>1, <1>5 DEF SuiteInv, RunFits, Complete
<1>7. /\ runResults' \in Seq(RunResults) /\ Len(runResults') <= KeptRuns
      /\ \A k \in 1..Len(runResults') : Complete(runResults'[k])
      /\ suiteCol = "" => runResults' = <<>>
  BY <1>1, <1>5, <1>6, RecordedFits
<1>8. ResultsFit'
  BY <1>1, <1>7 DEF ResultsFit
<1>9. RunFits'
  BY <1>1, NoTestRunFits DEF RunFits
<1>10. QED
  BY <1>1, <1>3, <1>7, <1>8, <1>9, NoTestRunFits, RunChanges

LEMMA SuiteInvStep ==
  ASSUME SuiteInv, [SuiteNext]_suiteVars
  PROVE  SuiteInv'
<1>1. ASSUME NEW t \in TestIds, AddTest(t) \/ DeleteTest(t) PROVE SuiteInv'
  BY <1>1, AddKeeps, DeleteKeeps
<1>2. ASSUME NEW k \in DOMAIN tests, NEW j \in DOMAIN tests, NEW after \in BOOLEAN, MoveTest(k, j, after) PROVE SuiteInv'
  BY <1>2, MoveKeeps
<1>3. CASE MoveSuite("home") \/ MoveSuite("away")
  BY <1>3, MoveSuiteKeeps
<1>4. CASE DeleteSuite
  BY <1>4, DeleteSuiteKeeps
<1>5. CASE FinishRun
  BY <1>5, FinishKeeps
<1>6. ASSUME NEW r \in TestRequests, DeleteRequest(r) PROVE SuiteInv'
  BY <1>6, DeleteRequestKeeps
<1>11. ASSUME NEW k \in DOMAIN tests, NEW r \in TestChoices, RetargetTest(k, r) PROVE SuiteInv'
  BY <1>11, RetargetKeeps
<1>12. ASSUME NEW r, RelocateRequest(r, "home") \/ RelocateRequest(r, "away") PROVE SuiteInv'
  BY <1>12, RelocateRequestKeeps DEF Collections
<1>7. ASSUME NEW r \in TestRequests, StoreResponse(r) PROVE SuiteInv'
  <2>1. UNCHANGED <<suiteCol, tests, requestsOf, testRun, runResults>> /\ stored' \subseteq TestRequests
    BY <1>7, RequestsExist DEF StoreResponse, SuiteInv, SuiteTypeOK
  <2>2. testRun \in TestRuns /\ runResults \in Seq(RunResults)
    BY DEF SuiteInv, SuiteTypeOK
  <2>3. RunFits' /\ ResultsFit'
    BY <2>1 DEF SuiteInv, RunFits, ResultsFit, Complete
  <2>4. QED
    BY <2>1, <2>2, <2>3, RunChanges
<1>8. ASSUME NEW chosen, chosen = OrderedTests \/ (\E t \in TestsNow : chosen = <<t>>), StartRun(chosen) PROVE SuiteInv'
  <2>1. tests \in Seq(SuiteTests)
    BY DEF SuiteInv, SuiteTypeOK
  <2>2. DOMAIN tests = 1..Len(tests) /\ Len(tests) \in Nat /\ \A k \in DOMAIN tests : tests[k].id \in TestIds
    BY <2>1, TestsAre DEF SuiteTests
  <2>3. OrderedTests \in Seq(TestIds)
    <3>1. OrderedTests \in [1..Len(tests) -> TestIds]
      BY <2>2 DEF OrderedTests
    <3>2. Seq(TestIds) = UNION {[1..m -> TestIds] : m \in Nat}
      BY SeqDef
    <3>3. Len(tests) \in Nat
      BY <2>2
    <3>4. QED
      BY <3>1, <3>2, <3>3
  <2>4. \A t \in TestsNow : <<t>> \in Seq(TestIds)
    <3>1. TestsNow \subseteq TestIds
      BY <2>2 DEF TestsNow
    <3>2. QED
      BY <3>1
  <2>5. QED
    BY <1>8, <2>3, <2>4, StartKeeps
<1>9. ASSUME NEW passed \in BOOLEAN, NEW sent, RunOneTest(passed, sent) PROVE SuiteInv'
  BY <1>9, OneTestKeeps
<1>10. CASE UNCHANGED suiteVars
  <2>1. UNCHANGED <<suiteCol, tests, requestsOf, testRun, runResults, stored>>
    BY <1>10 DEF suiteVars
  <2>2. testRun \in TestRuns /\ runResults \in Seq(RunResults) /\ stored \subseteq TestRequests
    BY DEF SuiteInv, SuiteTypeOK
  <2>3. RunFits' /\ ResultsFit'
    BY <2>1 DEF SuiteInv, RunFits, ResultsFit, Complete
  <2>4. QED
    BY <2>1, <2>2, <2>3, RunChanges
<1>13. QED
  BY <1>1, <1>2, <1>3, <1>4, <1>5, <1>6, <1>7, <1>8, <1>9, <1>10, <1>11, <1>12 DEF SuiteNext

(* For any tests, requests and number of runs kept: however the suite is   *)
(* edited, moved or deleted while it runs, and however requests are moved  *)
(* and deleted, every saved run has one verdict for each test it was       *)
(* started with, in their order, no result outlives its suite, the tests   *)
(* keep distinct places, and none points at a deleted request              *)
(* (UnitTestWorkbench.tsx; unitTests.ts).                                  *)
THEOREM TestRunsStayAccounted == SuiteSpec => []TestRunsAccount
<1>1. ASSUME SuiteInv PROVE TestRunsAccount
  <2>1. /\ tests \in Seq(SuiteTests) /\ runResults \in Seq(RunResults)
        /\ \A k \in 1..Len(runResults) : Complete(runResults[k])
    BY <1>1 DEF SuiteInv, SuiteTypeOK, ResultsFit
  <2>2. ASSUME NEW k \in DOMAIN runResults
        PROVE  runResults[k].chosen = [j \in DOMAIN runResults[k].verdicts |-> runResults[k].verdicts[j].test]
    <3> DEFINE c == runResults[k].chosen
               v == runResults[k].verdicts
    <3>1. k \in 1..Len(runResults)
      BY <2>1, LenProperties
    <3>2. c \in Seq(TestIds) /\ v \in Seq(TestVerdicts)
      <4>1. runResults[k] \in RunResults
        BY <2>1, <3>1, ElementOfSeq
      <4>2. QED
        BY <4>1 DEF RunResults
    <3>3. Len(c) = Len(v) /\ \A j \in 1..Len(v) : c[j] = v[j].test
      BY <2>1, <3>1 DEF Complete
    <3> HIDE DEF c, v
    <3>4. DOMAIN c = 1..Len(c) /\ DOMAIN v = 1..Len(v) /\ c = [j \in 1..Len(c) |-> c[j]]
      BY <3>2, LenProperties
    <3>5. c = [j \in DOMAIN v |-> v[j].test]
      BY <3>3, <3>4
    <3>6. QED
      BY <3>5 DEF c, v
  <2>3. (suiteCol = "" => runResults = <<>>) /\ Len(runResults) <= KeptRuns
    BY <1>1 DEF SuiteInv, ResultsFit
  <2>4. \A k \in DOMAIN tests : tests[k].req \in {""} \cup Existing
    BY <1>1 DEF SuiteInv, TestsFit
  <2>5. IsInjective(OrderedTests)
    BY <1>1 DEF SuiteInv, TestsFit, IsInjective, OrderedTests
  <2>6. QED
    BY <2>2, <2>3, <2>4, <2>5 DEF TestRunsAccount
<1>2. QED
  BY SuiteInvInit, SuiteInvStep, <1>1, PTL DEF SuiteSpec

(***************************************************************************)
(* Rendering: TemplateSound.                                               *)
(***************************************************************************)

Keys == TagRequests \cup {SharedKey}
FrameStages == {"prompt", "waiting", "response", "sending"}
Frames == [request : TagRequests, stage : FrameStages]
Tags == {NoTag} \cup [target : TagRequests, behavior : Behaviors]
JobRecords == [pc : {"idle", "running", "done", "failed"}, frames : Seq(Frames),
               chain : SUBSET TagRequests, responses : SUBSET TagRequests]

TagsTypeOK ==
    /\ promptTag \in [TagRequests -> {NoKey, "own", SharedKey}]
    /\ responseTag \in [TagRequests -> Tags]
    /\ saved \subseteq TagRequests
JobsTypeOK == job \in [Jobs -> JobRecords]

\* The requests resent on the way are in the chain, each once.
ChainFits(rec) ==
    /\ rec.pc = "running" => Len(rec.frames) >= 1
    /\ \A n \in 2..Len(rec.frames) : rec.frames[n].request \in rec.chain
    /\ \A m, n \in 2..Len(rec.frames) : rec.frames[m].request = rec.frames[n].request => m = n

Waiting(rec) == rec.pc = "running" /\ Last(rec.frames).stage = "waiting"
WaitFits(rec) == Waiting(rec) => PromptKey(Last(rec.frames).request) \in pendingPrompts

\* The dialog and the queue hold the prompts under way, each once.
QueueFits ==
    /\ promptQueue \in Seq(Keys) /\ activePrompt \in Keys \cup {NoKey}
    /\ pendingPrompts = ({activePrompt} \cup ToSet(promptQueue)) \ {NoKey}
    /\ \A m, n \in 1..Len(promptQueue) : promptQueue[m] = promptQueue[n] => m = n
    /\ activePrompt \notin ToSet(promptQueue)
    /\ activePrompt = NoKey => promptQueue = <<>>

TemplateInv ==
    /\ TagsTypeOK /\ JobsTypeOK /\ QueueFits
    /\ \A j \in Jobs : ChainFits(job[j]) /\ WaitFits(job[j])

LEMMA RecordFields ==
  ASSUME NEW rec \in JobRecords
  PROVE  /\ rec.pc \in {"idle", "running", "done", "failed"} /\ rec.frames \in Seq(Frames)
         /\ rec.chain \subseteq TagRequests /\ rec.responses \subseteq TagRequests
         /\ Len(rec.frames) \in Nat /\ DOMAIN rec.frames = 1..Len(rec.frames)
  BY LenProperties DEF JobRecords

LEMMA EmptyJobs ==
  ASSUME NEW rec \in {NoJob, [NoJob EXCEPT !.pc = "failed"], [NoJob EXCEPT !.pc = "done"]}
  PROVE  rec \in JobRecords /\ rec.frames = <<>> /\ rec.pc # "running"
<1>1. <<>> \in Seq(Frames)
  BY EmptySeq
<1>2. NoJob \in JobRecords /\ NoJob.frames = <<>> /\ NoJob.pc # "running"
  BY <1>1 DEF NoJob, JobRecords
<1>3. /\ [NoJob EXCEPT !.pc = "failed"] \in JobRecords
      /\ [NoJob EXCEPT !.pc = "failed"].frames = NoJob.frames
      /\ [NoJob EXCEPT !.pc = "failed"].pc = "failed"
  BY <1>2 DEF JobRecords
<1>4. /\ [NoJob EXCEPT !.pc = "done"] \in JobRecords
      /\ [NoJob EXCEPT !.pc = "done"].frames = NoJob.frames
      /\ [NoJob EXCEPT !.pc = "done"].pc = "done"
  BY <1>2 DEF JobRecords
<1>5. CASE rec = NoJob
  BY <1>2, <1>5
<1>6. CASE rec = [NoJob EXCEPT !.pc = "failed"]
  BY <1>2, <1>3, <1>6
<1>7. CASE rec = [NoJob EXCEPT !.pc = "done"]
  BY <1>2, <1>4, <1>7
<1>8. QED
  BY <1>5, <1>6, <1>7

LEMMA EmptyJobsFit ==
  ASSUME NEW rec \in {NoJob, [NoJob EXCEPT !.pc = "failed"], [NoJob EXCEPT !.pc = "done"]}
  PROVE  ChainFits(rec) /\ WaitFits(rec)
<1>1. rec.frames = <<>> /\ rec.pc # "running"
  BY EmptyJobs
<1>2. Len(rec.frames) = 0
  BY <1>1, EmptySeq
<1>3. \A n \in 2..Len(rec.frames) : FALSE
  BY <1>2
<1>4. QED
  BY <1>1, <1>3 DEF ChainFits, WaitFits, Waiting

\* The stage of the frame on top is set.
TopAt(frames, stage) == [frames EXCEPT ![Len(frames)] = [frames[Len(frames)] EXCEPT !.stage = stage]]
StageSet(rec, stage) == [rec EXCEPT !.frames = TopAt(rec.frames, stage)]

WithFrames(rec, frames, chain, responses) ==
    [rec EXCEPT !.frames = frames, !.chain = chain, !.responses = responses]

LEMMA FramesSet ==
  ASSUME NEW rec \in JobRecords, NEW frames \in Seq(Frames), NEW chain \in SUBSET TagRequests,
         NEW responses \in SUBSET TagRequests
  PROVE  /\ WithFrames(rec, frames, chain, responses) \in JobRecords
         /\ WithFrames(rec, frames, chain, responses).pc = rec.pc
         /\ WithFrames(rec, frames, chain, responses).frames = frames
         /\ WithFrames(rec, frames, chain, responses).chain = chain
  BY DEF WithFrames, JobRecords

LEMMA TopSet ==
  ASSUME NEW frames \in Seq(Frames), Len(frames) >= 1, NEW stage \in FrameStages,
         NEW new, new = TopAt(frames, stage)
  PROVE  /\ new \in Seq(Frames) /\ Len(new) = Len(frames)
         /\ \A n \in 1..Len(frames) : new[n].request = frames[n].request
         /\ Last(new).stage = stage /\ Last(new).request = Last(frames).request
<1> DEFINE top == [frames[Len(frames)] EXCEPT !.stage = stage]
<1>1. Len(frames) \in Nat
  BY LenProperties
<1>2. Len(frames) \in 1..Len(frames)
  BY <1>1
<1>3. frames[Len(frames)] \in Frames
  BY <1>2, ElementOfSeq
<1>4. top \in Frames /\ top.stage = stage /\ top.request = frames[Len(frames)].request
  BY <1>3 DEF Frames
<1> HIDE DEF top
<1>5. new = [frames EXCEPT ![Len(frames)] = top]
  BY DEF top, TopAt
<1>6. /\ [frames EXCEPT ![Len(frames)] = top] \in Seq(Frames)
      /\ Len([frames EXCEPT ![Len(frames)] = top]) = Len(frames)
      /\ \A n \in 1..Len(frames) :
           [frames EXCEPT ![Len(frames)] = top][n] = IF n = Len(frames) THEN top ELSE frames[n]
  BY <1>2, <1>4, ExceptSeq
<1>7. new \in Seq(Frames) /\ Len(new) = Len(frames)
  BY <1>5, <1>6
<1>8. \A n \in 1..Len(frames) : new[n] = IF n = Len(frames) THEN top ELSE frames[n]
  BY <1>5, <1>6
<1>9. \A n \in 1..Len(frames) : new[n].request = frames[n].request
  BY <1>4, <1>8
<1>10. Last(new) = top /\ Last(frames) = frames[Len(frames)]
  BY <1>2, <1>7, <1>8 DEF Last
<1>11. QED
  BY <1>4, <1>7, <1>9, <1>10

LEMMA StageSetFits ==
  ASSUME NEW rec \in JobRecords, rec.pc = "running", ChainFits(rec), NEW stage \in FrameStages
  PROVE  LET new == StageSet(rec, stage)
         IN /\ new \in JobRecords /\ ChainFits(new) /\ new.pc = "running"
            /\ Last(new.frames).stage = stage /\ Last(new.frames).request = Last(rec.frames).request
<1> DEFINE frames == rec.frames
           top == TopAt(frames, stage)
           new == StageSet(rec, stage)
<1>1. frames \in Seq(Frames) /\ Len(frames) >= 1 /\ Len(frames) \in Nat
  BY RecordFields DEF ChainFits
<1>2. new = [rec EXCEPT !.frames = top]
  BY DEF StageSet
<1>3. /\ top \in Seq(Frames) /\ Len(top) = Len(frames)
      /\ \A n \in 1..Len(frames) : top[n].request = frames[n].request
      /\ Last(top).stage = stage /\ Last(top).request = Last(frames).request
  BY <1>1, TopSet
<1> HIDE DEF top, new
<1>4. new \in JobRecords /\ new.frames = top /\ new.pc = "running" /\ new.chain = rec.chain
  <2>1. rec.chain \in SUBSET TagRequests /\ rec.responses \in SUBSET TagRequests
    BY RecordFields
  <2>2. new = WithFrames(rec, top, rec.chain, rec.responses)
    BY <1>2 DEF JobRecords, WithFrames
  <2>3. QED
    BY <1>3, <2>1, <2>2, FramesSet
<1>5. ChainFits(new)
  <2>1. \A n \in 2..Len(top) : n \in 1..Len(frames)
    BY <1>1, <1>3
  <2>2. \A n \in 2..Len(top) : top[n].request = frames[n].request
    BY <2>1, <1>3
  <2>3. QED
    BY <1>1, <1>3, <1>4, <2>2 DEF ChainFits
<1>6. QED
  BY <1>3, <1>4, <1>5 DEF new

\* A request is put on top.
Pushed(rec, r) == [rec EXCEPT !.frames = Append(rec.frames, NewFrame(r)), !.chain = rec.chain \cup {r}]

LEMMA PushedFits ==
  ASSUME NEW rec \in JobRecords, rec.pc = "running", ChainFits(rec), NEW r \in TagRequests, r \notin rec.chain
  PROVE  Pushed(rec, r) \in JobRecords /\ ChainFits(Pushed(rec, r)) /\ ~Waiting(Pushed(rec, r))
<1> DEFINE frames == rec.frames
           new == Append(frames, NewFrame(r))
<1>1. frames \in Seq(Frames) /\ Len(frames) >= 1 /\ Len(frames) \in Nat
  BY RecordFields DEF ChainFits
<1>2. NewFrame(r) \in Frames /\ NewFrame(r).request = r /\ NewFrame(r).stage = "prompt"
  BY DEF NewFrame, Frames, FrameStages
<1>3. /\ new \in Seq(Frames) /\ Len(new) = Len(frames) + 1
      /\ \A n \in 1..Len(frames) : new[n] = frames[n]
      /\ new[Len(frames) + 1] = NewFrame(r)
  BY <1>1, <1>2, AppendProperties
<1>4. Pushed(rec, r) = [rec EXCEPT !.frames = new, !.chain = rec.chain \cup {r}]
  BY DEF Pushed
<1> HIDE DEF new
<1>5. /\ Pushed(rec, r) \in JobRecords /\ Pushed(rec, r).frames = new /\ Pushed(rec, r).pc = "running"
      /\ Pushed(rec, r).chain = rec.chain \cup {r}
  <2>1. rec.chain \cup {r} \in SUBSET TagRequests /\ rec.responses \in SUBSET TagRequests
    BY RecordFields
  <2>2. Pushed(rec, r) = WithFrames(rec, new, rec.chain \cup {r}, rec.responses)
    BY <1>4 DEF JobRecords, WithFrames
  <2>3. QED
    BY <1>3, <2>1, <2>2, FramesSet
<1>6. ASSUME NEW n \in 2..Len(new)
      PROVE  \/ n \in 2..Len(frames) /\ new[n] = frames[n] /\ frames[n].request \in rec.chain
             \/ n = Len(frames) + 1 /\ new[n].request = r
  <2>1. n \in 2..Len(frames) \/ n = Len(frames) + 1
    BY <1>1, <1>3
  <2>2. n \in 2..Len(frames) => n \in 1..Len(frames)
    BY <1>1
  <2>3. QED
    BY <2>1, <2>2, <1>2, <1>3 DEF ChainFits
<1>7. ChainFits(Pushed(rec, r))
  <2>1. \A n \in 2..Len(new) : new[n].request \in rec.chain \cup {r}
    BY <1>6
  <2>2. \A m, n \in 2..Len(new) : new[m].request = new[n].request => m = n
    BY <1>6 DEF ChainFits
  <2>3. Len(new) >= 1
    BY <1>1, <1>3
  <2>4. QED
    BY <1>5, <2>1, <2>2, <2>3 DEF ChainFits
<1>8. Last(new).stage = "prompt"
  BY <1>2, <1>3 DEF Last
<1>9. QED
  BY <1>5, <1>7, <1>8 DEF Waiting

\* The request on top is done.
Popped(rec, responses) ==
    [rec EXCEPT !.frames = TopAt(Front(rec.frames), "sending"), !.responses = responses]

LEMMA FrontFits ==
  ASSUME NEW frames \in Seq(Frames), Len(frames) >= 1
  PROVE  /\ Front(frames) \in Seq(Frames) /\ Len(Front(frames)) = Len(frames) - 1
         /\ \A n \in 1..Len(frames) - 1 : Front(frames)[n] = frames[n]
<1>1. Len(frames) \in Nat /\ \A i \in 1..Len(frames) : frames[i] \in Frames
  BY LenProperties, ElementOfSeq
<1>2. \A i \in 1..Len(frames) - 1 : frames[i] \in Frames /\ 1 + i - 1 = i
  BY <1>1
<1>3. /\ SubSeq(frames, 1, Len(frames) - 1) \in Seq(Frames)
      /\ Len(SubSeq(frames, 1, Len(frames) - 1))
           = IF 1 <= Len(frames) - 1 THEN Len(frames) - 1 - 1 + 1 ELSE 0
      /\ \A i \in 1..Len(frames) - 1 - 1 + 1 :
           SubSeq(frames, 1, Len(frames) - 1)[i] = frames[1 + i - 1]
  BY <1>1, <1>2, SubSeqProperties
<1>4. Len(frames) - 1 - 1 + 1 = Len(frames) - 1
  BY <1>1
<1>5. QED
  BY <1>1, <1>2, <1>3, <1>4 DEF Front

LEMMA PoppedFits ==
  ASSUME NEW rec \in JobRecords, rec.pc = "running", ChainFits(rec), NEW responses \in SUBSET TagRequests,
         Front(rec.frames) # <<>>
  PROVE  /\ Popped(rec, responses) \in JobRecords /\ ChainFits(Popped(rec, responses))
         /\ ~Waiting(Popped(rec, responses))
<1> DEFINE frames == rec.frames
           rest == Front(frames)
           new == TopAt(rest, "sending")
<1>1. frames \in Seq(Frames) /\ Len(frames) >= 1 /\ Len(frames) \in Nat
  BY RecordFields DEF ChainFits
<1>2. /\ rest \in Seq(Frames) /\ Len(rest) = Len(frames) - 1
      /\ \A n \in 1..Len(frames) - 1 : rest[n] = frames[n]
  BY <1>1, FrontFits
<1>3. Popped(rec, responses) = [rec EXCEPT !.frames = new, !.responses = responses]
  BY DEF Popped
<1> HIDE DEF rest
<1>4. Len(rest) \in Nat /\ Len(rest) >= 1
  BY <1>2, EmptySeq DEF rest
<1>5. /\ new \in Seq(Frames) /\ Len(new) = Len(rest)
      /\ \A n \in 1..Len(rest) : new[n].request = rest[n].request
      /\ Last(new).stage = "sending"
  <2>1. "sending" \in FrameStages
    BY DEF FrameStages
  <2>2. QED
    BY <2>1, <1>2, <1>4, TopSet
<1> HIDE DEF new
<1>6. /\ Popped(rec, responses) \in JobRecords /\ Popped(rec, responses).frames = new
      /\ Popped(rec, responses).pc = "running" /\ Popped(rec, responses).chain = rec.chain
  <2>1. rec.chain \in SUBSET TagRequests
    BY RecordFields
  <2>2. Popped(rec, responses) = WithFrames(rec, new, rec.chain, responses)
    BY <1>3 DEF JobRecords, WithFrames
  <2>3. QED
    BY <1>5, <2>1, <2>2, FramesSet
<1>7. ASSUME NEW n \in 2..Len(new) PROVE n \in 2..Len(frames) /\ new[n].request = frames[n].request
  <2>1. n \in 1..Len(rest) /\ n \in 1..Len(frames) - 1 /\ n \in 2..Len(frames)
    BY <1>1, <1>2, <1>4, <1>5
  <2>2. QED
    BY <2>1, <1>2, <1>5
<1>8. ChainFits(Popped(rec, responses))
  BY <1>4, <1>5, <1>6, <1>7 DEF ChainFits
<1>9. QED
  BY <1>5, <1>6, <1>8 DEF Waiting

LEMMA KeyFits ==
  ASSUME TagsTypeOK, NEW r \in TagRequests, ~Answered(r)
  PROVE  PromptKey(r) \in Keys /\ PromptKey(r) # NoKey
<1>1. promptTag[r] \in {NoKey, "own", SharedKey} /\ promptTag[r] # NoKey
  BY DEF TagsTypeOK, Answered
<1>2. PromptKey(r) \in Keys
  BY <1>1 DEF PromptKey, Keys
<1>3. QED
  BY <1>2, TemplateAssumptions DEF Keys

LEMMA OnTop ==
  ASSUME TemplateInv, NEW j \in Jobs, job[j].pc = "running"
  PROVE  /\ job[j] \in JobRecords /\ ChainFits(job[j]) /\ Len(job[j].frames) >= 1
         /\ TopFrame(j).request \in TagRequests
<1>1. job[j] \in JobRecords /\ ChainFits(job[j])
  BY DEF TemplateInv, JobsTypeOK
<1>2. job[j].frames \in Seq(Frames) /\ Len(job[j].frames) >= 1 /\ Len(job[j].frames) \in Nat
  BY <1>1, RecordFields DEF ChainFits
<1>3. Len(job[j].frames) \in 1..Len(job[j].frames)
  BY <1>2
<1>4. Last(job[j].frames) \in Frames
  BY <1>2, <1>3, ElementOfSeq DEF Last
<1>5. QED
  BY <1>1, <1>2, <1>4 DEF Frames, TopFrame

\* A step of one job.
LEMMA JobStep ==
  ASSUME TemplateInv, NEW j \in Jobs, NEW rec \in JobRecords, job' = [job EXCEPT ![j] = rec],
         ChainFits(rec), Waiting(rec) => PromptKey(Last(rec.frames).request) \in pendingPrompts',
         promptTag' = promptTag, pendingPrompts \subseteq pendingPrompts'
  PROVE  JobsTypeOK' /\ \A k \in Jobs : ChainFits(job[k])' /\ WaitFits(job[k])'
<1>1. JobsTypeOK'
  BY DEF TemplateInv, JobsTypeOK
<1>2. ASSUME NEW k \in Jobs PROVE ChainFits(job[k])' /\ WaitFits(job[k])'
  <2>1. CASE k = j
    <3>1. job'[k] = rec
      BY <2>1 DEF TemplateInv, JobsTypeOK
    <3>2. ChainFits(job[k])'
      BY <3>1 DEF ChainFits
    <3>4. WaitFits(job[k])'
      BY <3>1 DEF WaitFits, Waiting, PromptKey
    <3>5. QED
      BY <3>2, <3>4
  <2>2. CASE k # j
    <3>1. job'[k] = job[k] /\ ChainFits(job[k]) /\ WaitFits(job[k])
      BY <2>2 DEF TemplateInv, JobsTypeOK
    <3>2. ChainFits(job[k])'
      BY <3>1 DEF ChainFits
    <3>3. WaitFits(job[k])'
      BY <3>1 DEF WaitFits, Waiting, PromptKey
    <3>4. QED
      BY <3>2, <3>3
  <2>3. QED
    BY <2>1, <2>2
<1>3. QED
  BY <1>1, <1>2

\* A step of one job that asks for nothing.
LEMMA QuietStep ==
  ASSUME TemplateInv, NEW j \in Jobs, NEW rec \in JobRecords, job' = [job EXCEPT ![j] = rec],
         ChainFits(rec), ~Waiting(rec), TagsTypeOK', promptTag' = promptTag,
         UNCHANGED <<pendingPrompts, activePrompt, promptQueue>>
  PROVE  TemplateInv'
<1>1. JobsTypeOK' /\ \A k \in Jobs : ChainFits(job[k])' /\ WaitFits(job[k])'
  BY JobStep
<1>2. QueueFits'
  BY DEF TemplateInv, QueueFits
<1>3. QED
  BY <1>1, <1>2 DEF TemplateInv

LEMMA StageStep ==
  ASSUME TemplateInv, NEW j \in Jobs, job[j].pc = "running", NEW stage \in FrameStages, ToStage(j, stage)
  PROVE  /\ StageSet(job[j], stage) \in JobRecords /\ ChainFits(StageSet(job[j], stage))
         /\ job' = [job EXCEPT ![j] = StageSet(job[j], stage)]
         /\ Waiting(StageSet(job[j], stage)) => stage = "waiting"
         /\ Last(StageSet(job[j], stage).frames).request = TopFrame(j).request
<1>1. job[j] \in JobRecords /\ ChainFits(job[j])
  BY OnTop
<1>2. job' = [job EXCEPT ![j] = StageSet(job[j], stage)]
  BY <1>1 DEF ToStage, StageSet, TopAt, TemplateInv, JobsTypeOK
<1>3. /\ StageSet(job[j], stage) \in JobRecords /\ ChainFits(StageSet(job[j], stage))
      /\ Last(StageSet(job[j], stage).frames).stage = stage
      /\ Last(StageSet(job[j], stage).frames).request = Last(job[j].frames).request
  BY <1>1, StageSetFits
<1>4. QED
  BY <1>2, <1>3 DEF Waiting, TopFrame

LEMMA QuietStage ==
  ASSUME TemplateInv, NEW j \in Jobs, job[j].pc = "running", NEW stage \in FrameStages, stage # "waiting",
         ToStage(j, stage), UNCHANGED <<promptTag, responseTag, saved, pendingPrompts, activePrompt, promptQueue>>
  PROVE  TemplateInv'
<1>1. /\ StageSet(job[j], stage) \in JobRecords /\ ChainFits(StageSet(job[j], stage))
      /\ job' = [job EXCEPT ![j] = StageSet(job[j], stage)]
      /\ ~Waiting(StageSet(job[j], stage))
  BY StageStep
<1>2. TagsTypeOK'
  BY DEF TemplateInv, TagsTypeOK
<1>3. QED
  BY <1>1, <1>2, QuietStep

LEMMA EmptyStep ==
  ASSUME TemplateInv, NEW j \in Jobs,
         NEW rec \in {NoJob, [NoJob EXCEPT !.pc = "failed"], [NoJob EXCEPT !.pc = "done"]},
         job' = [job EXCEPT ![j] = rec], TagsTypeOK', promptTag' = promptTag,
         UNCHANGED <<pendingPrompts, activePrompt, promptQueue>>
  PROVE  TemplateInv'
<1>1. rec \in JobRecords /\ ChainFits(rec) /\ ~Waiting(rec)
  BY EmptyJobs, EmptyJobsFit DEF Waiting
<1>2. QED
  BY <1>1, QuietStep

LEMMA TemplateInvInit ==
  ASSUME TemplateInit
  PROVE  TemplateInv
<1>1. NoJob \in JobRecords /\ ChainFits(NoJob) /\ WaitFits(NoJob)
  BY EmptyJobs, EmptyJobsFit
<1>2. JobsTypeOK /\ \A j \in Jobs : ChainFits(job[j]) /\ WaitFits(job[j])
  BY <1>1 DEF TemplateInit, JobsTypeOK
<1>3. TagsTypeOK
  BY DEF TemplateInit, TagsTypeOK, Tags
<1>4. QueueFits
  <2>1. promptQueue = <<>> /\ activePrompt = NoKey /\ pendingPrompts = {}
    BY DEF TemplateInit
  <2>2. promptQueue \in Seq(Keys) /\ Len(promptQueue) = 0 /\ ToSet(promptQueue) = {}
    BY <2>1, EmptySeq DEF ToSet
  <2>3. \A m \in 1..Len(promptQueue) : FALSE
    BY <2>2
  <2>4. QED
    BY <2>1, <2>2, <2>3 DEF QueueFits
<1>5. QED
  BY <1>2, <1>3, <1>4 DEF TemplateInv

LEMMA StartJobKeeps ==
  ASSUME TemplateInv, NEW j \in Jobs, NEW r \in TagRequests, StartJob(j, r)
  PROVE  TemplateInv'
<1> DEFINE rec == [pc |-> "running", frames |-> <<NewFrame(r)>>, chain |-> {}, responses |-> saved]
<1>1. NewFrame(r) \in Frames /\ NewFrame(r).stage = "prompt"
  BY DEF NewFrame, Frames, FrameStages
<1>2. <<NewFrame(r)>> \in Seq(Frames) /\ Len(<<NewFrame(r)>>) = 1 /\ Last(<<NewFrame(r)>>) = NewFrame(r)
  BY <1>1 DEF Last
<1>3. rec \in JobRecords /\ rec.frames = <<NewFrame(r)>>
  <2>1. saved \in SUBSET TagRequests
    BY DEF TemplateInv, TagsTypeOK
  <2>2. QED
    BY <1>2, <2>1 DEF JobRecords
<1>4. job' = [job EXCEPT ![j] = rec]
  BY DEF StartJob
<1> HIDE DEF rec
<1>5. \A n \in 2..Len(rec.frames) : FALSE
  BY <1>2, <1>3
<1>6. ChainFits(rec) /\ ~Waiting(rec)
  BY <1>1, <1>2, <1>3, <1>5 DEF ChainFits, Waiting
<1>7. TagsTypeOK'
  BY DEF TemplateInv, TagsTypeOK, StartJob
<1>8. promptTag' = promptTag /\ UNCHANGED <<pendingPrompts, activePrompt, promptQueue>>
  BY DEF StartJob
<1>9. QED
  BY <1>3, <1>4, <1>6, <1>7, <1>8, QuietStep

LEMMA NoPromptKeeps ==
  ASSUME TemplateInv, NEW j \in Jobs, NoPrompt(j)
  PROVE  TemplateInv'
<1>1. job[j].pc = "running" /\ ToStage(j, "response")
  BY DEF NoPrompt, AtStage
<1>2. UNCHANGED <<promptTag, responseTag, saved, pendingPrompts, activePrompt, promptQueue>>
  BY DEF NoPrompt
<1>3. "response" \in FrameStages
  BY DEF FrameStages
<1>4. QED
  BY <1>1, <1>2, <1>3, QuietStage

LEMMA JoinPromptKeeps ==
  ASSUME TemplateInv, NEW j \in Jobs, JoinPrompt(j)
  PROVE  TemplateInv'
<1> DEFINE rec == StageSet(job[j], "waiting")
<1>1. job[j].pc = "running" /\ ToStage(j, "waiting") /\ PromptKey(TopFrame(j).request) \in pendingPrompts
  BY DEF JoinPrompt, AtStage
<1>2. UNCHANGED <<promptTag, responseTag, saved, pendingPrompts, activePrompt, promptQueue>>
  BY DEF JoinPrompt
<1>3. "waiting" \in FrameStages
  BY DEF FrameStages
<1>4. /\ rec \in JobRecords /\ ChainFits(rec) /\ job' = [job EXCEPT ![j] = rec]
      /\ Last(rec.frames).request = TopFrame(j).request
  BY <1>1, <1>3, StageStep
<1> HIDE DEF rec
<1>5. PromptKey(Last(rec.frames).request) \in pendingPrompts'
  BY <1>1, <1>2, <1>4
<1>6. pendingPrompts \subseteq pendingPrompts' /\ promptTag' = promptTag
  BY <1>2
<1>7. JobsTypeOK' /\ \A k \in Jobs : ChainFits(job[k])' /\ WaitFits(job[k])'
  BY <1>4, <1>5, <1>6, JobStep
<1>8. TagsTypeOK' /\ QueueFits'
  BY <1>2 DEF TemplateInv, TagsTypeOK, QueueFits
<1>9. QED
  BY <1>7, <1>8 DEF TemplateInv

LEMMA KeyAppended ==
  ASSUME NEW queue \in Seq(Keys), NEW key \in Keys, key \notin ToSet(queue),
         \A m, n \in 1..Len(queue) : queue[m] = queue[n] => m = n
  PROVE  /\ Append(queue, key) \in Seq(Keys) /\ ToSet(Append(queue, key)) = ToSet(queue) \cup {key}
         /\ \A m, n \in 1..Len(Append(queue, key)) : Append(queue, key)[m] = Append(queue, key)[n] => m = n
<1> DEFINE new == Append(queue, key)
<1>1. Len(queue) \in Nat /\ DOMAIN queue = 1..Len(queue)
  BY LenProperties
<1>2. /\ new \in Seq(Keys) /\ Len(new) = Len(queue) + 1
      /\ \A n \in 1..Len(queue) : new[n] = queue[n]
      /\ new[Len(queue) + 1] = key
  BY AppendProperties
<1> HIDE DEF new
<1>3. DOMAIN new = 1..Len(new)
  BY <1>2, LenProperties
<1>4. \A n \in 1..Len(queue) : queue[n] \in ToSet(queue)
  BY <1>1 DEF ToSet
<1>5. \A n \in 1..Len(new) : n \in 1..Len(queue) \/ n = Len(queue) + 1
  BY <1>1, <1>2
<1>6. \A n \in 1..Len(queue) : n \in 1..Len(new)
  BY <1>1, <1>2
<1>7. Len(queue) + 1 \in 1..Len(new)
  BY <1>1, <1>2
<1>8. ToSet(new) = ToSet(queue) \cup {key}
  <2>1. ToSet(new) = {new[n] : n \in 1..Len(new)} /\ ToSet(queue) = {queue[n] : n \in 1..Len(queue)}
    BY <1>1, <1>3 DEF ToSet
  <2>2. ASSUME NEW k \in ToSet(new) PROVE k \in ToSet(queue) \cup {key}
    BY <2>1, <1>2, <1>4, <1>5
  <2>3. ASSUME NEW k \in ToSet(queue) PROVE k \in ToSet(new)
    BY <2>1, <1>2, <1>6
  <2>4. key \in ToSet(new)
    BY <2>1, <1>2, <1>7
  <2>5. QED
    BY <2>2, <2>3, <2>4
<1>9. ASSUME NEW m \in 1..Len(new), NEW n \in 1..Len(new), new[m] = new[n] PROVE m = n
  <2>1. CASE m \in 1..Len(queue) /\ n \in 1..Len(queue)
    BY <2>1, <1>2, <1>9
  <2>2. CASE m \in 1..Len(queue) /\ n = Len(queue) + 1
    BY <2>2, <1>2, <1>4, <1>9
  <2>3. CASE m = Len(queue) + 1 /\ n \in 1..Len(queue)
    BY <2>3, <1>2, <1>4, <1>9
  <2>4. CASE m = Len(queue) + 1 /\ n = Len(queue) + 1
    BY <2>4
  <2>5. QED
    BY <2>1, <2>2, <2>3, <2>4, <1>5
<1>10. QED
  BY <1>2, <1>8, <1>9 DEF new

LEMMA KeyTaken ==
  ASSUME NEW queue \in Seq(Keys), queue # <<>>,
         \A m, n \in 1..Len(queue) : queue[m] = queue[n] => m = n
  PROVE  /\ Tail(queue) \in Seq(Keys) /\ Head(queue) \in Keys /\ Head(queue) \notin ToSet(Tail(queue))
         /\ ToSet(queue) = {Head(queue)} \cup ToSet(Tail(queue))
         /\ \A m, n \in 1..Len(Tail(queue)) : Tail(queue)[m] = Tail(queue)[n] => m = n
<1> DEFINE rest == Tail(queue)
           first == Head(queue)
<1>1. Len(queue) \in Nat /\ Len(queue) >= 1 /\ DOMAIN queue = 1..Len(queue)
  BY LenProperties, EmptySeq
<1>2. first = queue[1] /\ first \in Keys
  BY HeadTailProperties
<1>3. rest \in Seq(Keys) /\ Len(rest) = Len(queue) - 1 /\ \A n \in 1..Len(rest) : rest[n] = queue[n + 1]
  BY HeadTailProperties
<1> HIDE DEF rest, first
<1>4. DOMAIN rest = 1..Len(rest)
  BY <1>3, LenProperties
<1>5. \A n \in 1..Len(rest) : n + 1 \in 1..Len(queue) /\ n + 1 # 1
  BY <1>1, <1>3
<1>6. 1 \in 1..Len(queue)
  BY <1>1
<1>7. \A n \in 1..Len(queue) : n = 1 \/ (n - 1 \in 1..Len(rest) /\ (n - 1) + 1 = n)
  BY <1>1, <1>3
<1>8. ToSet(rest) = {rest[n] : n \in 1..Len(rest)} /\ ToSet(queue) = {queue[n] : n \in 1..Len(queue)}
  BY <1>1, <1>4 DEF ToSet
<1>9. ToSet(queue) = {first} \cup ToSet(rest)
  <2>1. ASSUME NEW k \in ToSet(queue) PROVE k \in {first} \cup ToSet(rest)
    <3>1. PICK n \in 1..Len(queue) : k = queue[n]
      BY <1>8
    <3>2. CASE n = 1
      BY <3>1, <3>2, <1>2
    <3>3. CASE n - 1 \in 1..Len(rest) /\ (n - 1) + 1 = n
      <4>1. rest[n - 1] = k
        BY <3>1, <3>3, <1>3
      <4>2. QED
        BY <4>1, <3>3, <1>8
    <3>4. QED
      BY <3>2, <3>3, <1>7
  <2>2. ASSUME NEW k \in ToSet(rest) PROVE k \in ToSet(queue)
    BY <1>3, <1>5, <1>8
  <2>3. first \in ToSet(queue)
    BY <1>2, <1>6, <1>8
  <2>4. QED
    BY <2>1, <2>2, <2>3
<1>10. first \notin ToSet(rest)
  <2>1. ASSUME NEW n \in 1..Len(rest), rest[n] = first PROVE FALSE
    <3>1. queue[n + 1] = queue[1]
      BY <2>1, <1>2, <1>3
    <3>2. n + 1 \in 1..Len(queue) /\ n + 1 # 1
      BY <1>5
    <3>3. QED
      BY <3>1, <3>2, <1>6
  <2>2. QED
    BY <2>1, <1>8
<1>11. ASSUME NEW m \in 1..Len(rest), NEW n \in 1..Len(rest), rest[m] = rest[n] PROVE m = n
  <2>1. queue[m + 1] = queue[n + 1] /\ m + 1 \in 1..Len(queue) /\ n + 1 \in 1..Len(queue)
    BY <1>3, <1>5, <1>11
  <2>2. m + 1 = n + 1
    BY <2>1
  <2>3. QED
    BY <2>2
<1>12. QED
  BY <1>2, <1>3, <1>9, <1>10, <1>11 DEF rest, first

LEMMA AskPromptKeeps ==
  ASSUME TemplateInv, NEW j \in Jobs, AskPrompt(j)
  PROVE  TemplateInv'
<1> DEFINE rec == StageSet(job[j], "waiting")
           key == PromptKey(TopFrame(j).request)
<1>1. job[j].pc = "running" /\ ToStage(j, "waiting") /\ ~Answered(TopFrame(j).request) /\ key \notin pendingPrompts
  BY DEF AskPrompt, AtStage
<1>2. pendingPrompts' = pendingPrompts \cup {key} /\ UNCHANGED <<promptTag, responseTag, saved>>
  BY DEF AskPrompt
<1>3. "waiting" \in FrameStages
  BY DEF FrameStages
<1>4. /\ rec \in JobRecords /\ ChainFits(rec) /\ job' = [job EXCEPT ![j] = rec]
      /\ Last(rec.frames).request = TopFrame(j).request
  BY <1>1, <1>3, StageStep
<1>5. key \in Keys /\ key # NoKey
  BY <1>1, OnTop, KeyFits DEF TemplateInv
<1>6. PromptKey(Last(rec.frames).request) \in pendingPrompts'
  BY <1>2, <1>4
<1> HIDE DEF rec
<1>7. JobsTypeOK' /\ \A k \in Jobs : ChainFits(job[k])' /\ WaitFits(job[k])'
  <2>1. pendingPrompts \subseteq pendingPrompts' /\ promptTag' = promptTag
    BY <1>2
  <2>2. QED
    BY <2>1, <1>4, <1>6, JobStep
<1>8. TagsTypeOK'
  BY <1>2 DEF TemplateInv, TagsTypeOK
<1>9. QueueFits'
  <2>1. CASE activePrompt = NoKey
    <3>1. activePrompt' = key /\ promptQueue' = promptQueue
      BY <2>1 DEF AskPrompt
    <3>2. QED
      BY <2>1, <3>1, <1>2, <1>5, EmptySeq DEF TemplateInv, QueueFits, ToSet
  <2>2. CASE activePrompt # NoKey
    <3>1. activePrompt' = activePrompt /\ promptQueue' = Append(promptQueue, key)
      BY <2>2 DEF AskPrompt
    <3>2. key \notin ToSet(promptQueue) /\ key # activePrompt
      BY <1>1, <1>5 DEF TemplateInv, QueueFits
    <3> HIDE DEF key
    <3>3. promptQueue \in Seq(Keys) /\ \A m, n \in 1..Len(promptQueue) : promptQueue[m] = promptQueue[n] => m = n
      BY DEF TemplateInv, QueueFits
    <3>4. /\ promptQueue' \in Seq(Keys) /\ ToSet(promptQueue') = ToSet(promptQueue) \cup {key}
          /\ \A m, n \in 1..Len(promptQueue') : promptQueue'[m] = promptQueue'[n] => m = n
      BY <3>1, <3>2, <3>3, <1>5, KeyAppended
    <3>5. pendingPrompts' = ({activePrompt'} \cup ToSet(promptQueue')) \ {NoKey}
      BY <3>1, <3>4, <1>2, <1>5 DEF TemplateInv, QueueFits
    <3>6. QED
      BY <2>2, <3>1, <3>2, <3>4, <3>5 DEF TemplateInv, QueueFits
  <2>3. QED
    BY <2>1, <2>2
<1>10. QED
  BY <1>7, <1>8, <1>9 DEF TemplateInv

\* What waits for the keys that are resolved goes on.
LEMMA KeysResolved ==
  ASSUME TemplateInv, NEW keys, NEW answered \in BOOLEAN, ResolveKeys(keys, answered), promptTag' = promptTag
  PROVE  JobsTypeOK' /\ \A k \in Jobs : ChainFits(job[k])' /\ WaitFits(job[k])'
<1>1. pendingPrompts' = pendingPrompts \ keys
  BY DEF ResolveKeys
<1>2. "response" \in FrameStages
  BY DEF FrameStages
<1>3. ASSUME NEW k \in Jobs
      PROVE  job'[k] \in JobRecords /\ ChainFits(job'[k]) /\ (Waiting(job'[k]) => PromptKey(Last(job'[k].frames).request) \in pendingPrompts')
  <2>1. job[k] \in JobRecords /\ ChainFits(job[k]) /\ WaitFits(job[k])
    BY DEF TemplateInv, JobsTypeOK
  <2>2. CASE AtStage(k, "waiting") /\ PromptKey(TopFrame(k).request) \in keys
    <3>1. job'[k] = StageSet(job[k], "response")
      BY <2>2 DEF ResolveKeys, StageSet, TopAt
    <3>2. job[k].pc = "running"
      BY <2>2 DEF AtStage
    <3>3. /\ StageSet(job[k], "response") \in JobRecords /\ ChainFits(StageSet(job[k], "response"))
          /\ Last(StageSet(job[k], "response").frames).stage = "response"
      BY <2>1, <3>2, <1>2, StageSetFits
    <3>4. ~Waiting(StageSet(job[k], "response"))
      BY <3>3 DEF Waiting
    <3>5. QED
      BY <3>1, <3>3, <3>4
  <2>3. CASE ~(AtStage(k, "waiting") /\ PromptKey(TopFrame(k).request) \in keys)
    <3>1. job'[k] = job[k]
      BY <2>3 DEF ResolveKeys
    <3>2. Waiting(job[k]) => PromptKey(Last(job[k].frames).request) \notin keys
      BY <2>3 DEF Waiting, AtStage, TopFrame
    <3>3. QED
      BY <2>1, <3>1, <3>2, <1>1 DEF WaitFits
  <2>4. QED
    BY <2>2, <2>3
<1>4. job' \in [Jobs -> JobRecords]
  BY <1>3 DEF ResolveKeys
<1>5. ASSUME NEW k \in Jobs PROVE ChainFits(job[k])' /\ WaitFits(job[k])'
  <2>1. ChainFits(job[k])'
    BY <1>3 DEF ChainFits
  <2>2. WaitFits(job[k])'
    BY <1>3 DEF WaitFits, Waiting, PromptKey
  <2>3. QED
    BY <2>1, <2>2
<1>6. QED
  BY <1>4, <1>5 DEF JobsTypeOK

LEMMA ResolveTemplatePromptKeeps ==
  ASSUME TemplateInv, ResolveTemplatePrompt
  PROVE  TemplateInv'
<1>1. PICK answered \in BOOLEAN : ResolveKeys({activePrompt}, answered)
  BY DEF ResolveTemplatePrompt
<1>2. UNCHANGED <<promptTag, responseTag, saved>> /\ activePrompt # NoKey
  BY DEF ResolveTemplatePrompt
<1>3. JobsTypeOK' /\ \A k \in Jobs : ChainFits(job[k])' /\ WaitFits(job[k])'
  BY <1>1, <1>2, KeysResolved
<1>4. TagsTypeOK'
  BY <1>2 DEF TemplateInv, TagsTypeOK
<1>5. pendingPrompts' = pendingPrompts \ {activePrompt}
  BY <1>1 DEF ResolveKeys
<1>6. NoKey \notin Keys
  BY TemplateAssumptions DEF Keys
<1>7. QueueFits'
  <2>1. CASE promptQueue = <<>>
    <3>1. activePrompt' = NoKey /\ promptQueue' = <<>>
      BY <2>1 DEF ResolveTemplatePrompt
    <3>2. ToSet(promptQueue) = {} /\ ToSet(promptQueue') = {}
      BY <2>1, <3>1, EmptySeq DEF ToSet
    <3>3. pendingPrompts' = ({activePrompt'} \cup ToSet(promptQueue')) \ {NoKey}
      BY <3>1, <3>2, <1>5 DEF TemplateInv, QueueFits
    <3>4. promptQueue' = promptQueue
      BY <2>1, <3>1
    <3>5. QED
      BY <3>1, <3>2, <3>3, <3>4 DEF TemplateInv, QueueFits
  <2>2. CASE promptQueue # <<>>
    <3>1. activePrompt' = Head(promptQueue) /\ promptQueue' = Tail(promptQueue)
      BY <2>2 DEF ResolveTemplatePrompt
    <3>2. promptQueue \in Seq(Keys) /\ \A m, n \in 1..Len(promptQueue) : promptQueue[m] = promptQueue[n] => m = n
      BY DEF TemplateInv, QueueFits
    <3>3. /\ promptQueue' \in Seq(Keys) /\ activePrompt' \in Keys /\ activePrompt' \notin ToSet(promptQueue')
          /\ ToSet(promptQueue) = {activePrompt'} \cup ToSet(promptQueue')
          /\ \A m, n \in 1..Len(promptQueue') : promptQueue'[m] = promptQueue'[n] => m = n
      BY <2>2, <3>1, <3>2, KeyTaken
    <3>4. activePrompt' # NoKey
      BY <3>3, <1>6
    <3>5. pendingPrompts' = ({activePrompt'} \cup ToSet(promptQueue')) \ {NoKey}
      BY <3>3, <1>5 DEF TemplateInv, QueueFits
    <3>6. QED
      BY <3>3, <3>4, <3>5 DEF QueueFits
  <2>3. QED
    BY <2>1, <2>2
<1>8. QED
  BY <1>3, <1>4, <1>7 DEF TemplateInv

LEMMA DropPromptsKeeps ==
  ASSUME TemplateInv, DropPrompts
  PROVE  TemplateInv'
<1> DEFINE keys == {activePrompt} \cup ToSet(promptQueue)
<1>1. ResolveKeys(keys, FALSE) /\ UNCHANGED <<promptTag, responseTag, saved>>
  BY DEF DropPrompts
<1>2. JobsTypeOK' /\ \A k \in Jobs : ChainFits(job[k])' /\ WaitFits(job[k])'
  <2> HIDE DEF keys
  <2>1. QED
    BY <1>1, KeysResolved
<1>3. TagsTypeOK'
  BY <1>1 DEF TemplateInv, TagsTypeOK
<1>4. activePrompt' = NoKey /\ promptQueue' = <<>> /\ pendingPrompts' = {}
  BY <1>1 DEF DropPrompts, ResolveKeys, TemplateInv, QueueFits
<1>5. promptQueue' \in Seq(Keys) /\ ToSet(promptQueue') = {} /\ Len(promptQueue') = 0
  BY <1>4, EmptySeq DEF ToSet
<1>6. \A m \in 1..Len(promptQueue') : FALSE
  BY <1>5
<1>7. QueueFits'
  BY <1>4, <1>5, <1>6 DEF QueueFits
<1>8. QED
  BY <1>2, <1>3, <1>7 DEF TemplateInv

LEMMA ResponseTagKeeps ==
  ASSUME TemplateInv, NEW j \in Jobs, ResponseTag(j)
  PROVE  TemplateInv'
<1> DEFINE tag == responseTag[TopFrame(j).request]
<1>1. job[j].pc = "running"
  BY DEF ResponseTag, AtStage
<1>2. UNCHANGED <<promptTag, responseTag, promptValues, pendingPrompts, activePrompt, promptQueue, saved>>
  BY DEF ResponseTag
<1>3. TagsTypeOK'
  BY <1>2 DEF TemplateInv, TagsTypeOK
<1>4. \/ ToStage(j, "sending")
      \/ FailJob(j)
      \/ /\ tag # NoTag /\ MayResend(j, tag.target)
         /\ job' = [job EXCEPT ![j].frames = Append(@, NewFrame(tag.target)), ![j].chain = @ \cup {tag.target}]
  BY DEF ResponseTag
<1>5. CASE ToStage(j, "sending")
  <2>1. "sending" \in FrameStages
    BY DEF FrameStages
  <2>2. QED
    BY <1>1, <1>2, <1>5, <2>1, QuietStage
<1>6. CASE FailJob(j)
  <2>1. job' = [job EXCEPT ![j] = [NoJob EXCEPT !.pc = "failed"]]
    BY <1>6 DEF FailJob
  <2>2. QED
    BY <1>2, <1>3, <2>1, EmptyStep
<1>7. CASE /\ tag # NoTag /\ MayResend(j, tag.target)
           /\ job' = [job EXCEPT ![j].frames = Append(@, NewFrame(tag.target)), ![j].chain = @ \cup {tag.target}]
  <2>1. job[j] \in JobRecords /\ ChainFits(job[j]) /\ TopFrame(j).request \in TagRequests
    BY <1>1, OnTop
  <2>2. tag \in [target : TagRequests, behavior : Behaviors]
    BY <1>7, <2>1 DEF TemplateInv, TagsTypeOK, Tags
  <2>3. tag.target \in TagRequests /\ tag.target \notin job[j].chain
    BY <1>7, <2>2 DEF MayResend
  <2> HIDE DEF tag
  <2>4. job' = [job EXCEPT ![j] = Pushed(job[j], tag.target)]
    BY <1>7, <2>1 DEF Pushed, TemplateInv, JobsTypeOK
  <2>5. /\ Pushed(job[j], tag.target) \in JobRecords /\ ChainFits(Pushed(job[j], tag.target))
        /\ ~Waiting(Pushed(job[j], tag.target))
    BY <1>1, <2>1, <2>3, PushedFits
  <2>6. QED
    BY <1>2, <1>3, <2>4, <2>5, QuietStep
<1>8. QED
  BY <1>4, <1>5, <1>6, <1>7

LEMMA TagAnsweredKeeps ==
  ASSUME TemplateInv, NEW j \in Jobs, TagAnswered(j)
  PROVE  TemplateInv'
<1> DEFINE responses == job[j].responses \cup {TopFrame(j).request}
           rest == Front(job[j].frames)
<1>1. job[j].pc = "running" /\ saved' = responses
  BY DEF TagAnswered, AtStage
<1>2. UNCHANGED <<promptTag, responseTag, pendingPrompts, activePrompt, promptQueue>>
  BY DEF TagAnswered
<1>3. job[j] \in JobRecords /\ ChainFits(job[j]) /\ TopFrame(j).request \in TagRequests
  BY <1>1, OnTop
<1>4. responses \in SUBSET TagRequests
  BY <1>3, RecordFields
<1>5. TagsTypeOK'
  BY <1>1, <1>2, <1>4 DEF TemplateInv, TagsTypeOK
<1>6. CASE rest = <<>>
  <2>1. job' = [job EXCEPT ![j] = [NoJob EXCEPT !.pc = "done"]]
    BY <1>6 DEF TagAnswered
  <2>2. QED
    BY <1>2, <1>5, <2>1, EmptyStep
<1>7. CASE rest # <<>>
  <2>1. job' = [job EXCEPT ![j].frames = [rest EXCEPT ![Len(rest)].stage = "sending"], ![j].responses = responses]
    BY <1>7 DEF TagAnswered
  <2> HIDE DEF responses
  <2>2. job' = [job EXCEPT ![j] = Popped(job[j], responses)]
    BY <2>1, <1>3 DEF Popped, TopAt, TemplateInv, JobsTypeOK
  <2>3. /\ Popped(job[j], responses) \in JobRecords /\ ChainFits(Popped(job[j], responses))
        /\ ~Waiting(Popped(job[j], responses))
    BY <1>1, <1>3, <1>4, <1>7, PoppedFits
  <2>4. QED
    BY <1>2, <1>5, <2>2, <2>3, QuietStep
<1>8. QED
  BY <1>6, <1>7

LEMMA SendFailsKeeps ==
  ASSUME TemplateInv, NEW j \in Jobs, SendFails(j)
  PROVE  TemplateInv'
<1>1. UNCHANGED <<promptTag, responseTag, promptValues, pendingPrompts, activePrompt, promptQueue, saved>>
  BY DEF SendFails
<1>2. TagsTypeOK'
  BY <1>1 DEF TemplateInv, TagsTypeOK
<1>3. job' = [job EXCEPT ![j] = [NoJob EXCEPT !.pc = "failed"]]
  BY DEF SendFails, FailJob
<1>4. QED
  BY <1>1, <1>2, <1>3, EmptyStep

LEMMA TemplateStutters ==
  ASSUME TemplateInv, UNCHANGED templateVars
  PROVE  TemplateInv'
<1>1. JobsTypeOK' /\ TagsTypeOK' /\ QueueFits'
  BY DEF templateVars, TemplateInv, JobsTypeOK, TagsTypeOK, QueueFits
<1>2. ASSUME NEW k \in Jobs PROVE ChainFits(job[k])' /\ WaitFits(job[k])'
  <2>1. job'[k] = job[k] /\ ChainFits(job[k]) /\ WaitFits(job[k])
    BY DEF templateVars, TemplateInv
  <2>2. ChainFits(job[k])'
    BY <2>1 DEF ChainFits
  <2>3. WaitFits(job[k])'
    BY <2>1 DEF WaitFits, Waiting, PromptKey, templateVars
  <2>4. QED
    BY <2>2, <2>3
<1>3. QED
  BY <1>1, <1>2 DEF TemplateInv

LEMMA TemplateInvImplies ==
  ASSUME TemplateInv
  PROVE  TemplateSound
<1>1. ResendsEnd
  BY DEF TemplateInv, ChainFits, ResendsEnd
<1>2. \A j \in Jobs : AtStage(j, "waiting") => PromptKey(TopFrame(j).request) \in pendingPrompts
  BY DEF TemplateInv, WaitFits, Waiting, AtStage, TopFrame
<1>3. IsInjective(promptQueue)
  <2>1. DOMAIN promptQueue = 1..Len(promptQueue)
    BY LenProperties DEF TemplateInv, QueueFits
  <2>2. QED
    BY <2>1 DEF TemplateInv, QueueFits, IsInjective
<1>4. QED
  BY <1>1, <1>2, <1>3 DEF TemplateInv, QueueFits, PromptsServed, TemplateSound

\* However the response tags refer to each other, a chain of resends ends;
\* what is waited for is in the dialog or in the queue, once.
THEOREM TemplatesStaySound == TemplateSpec => []TemplateSound
<1>1. TemplateInit => TemplateInv
  BY TemplateInvInit
<1>2. TemplateInv /\ [TemplateNext]_templateVars => TemplateInv'
  <2> SUFFICES ASSUME TemplateInv, [TemplateNext]_templateVars PROVE TemplateInv'
    OBVIOUS
  <2>1. CASE UNCHANGED templateVars
    BY <2>1, TemplateStutters
  <2>2. CASE ResolveTemplatePrompt
    BY <2>2, ResolveTemplatePromptKeeps
  <2>3. CASE DropPrompts
    BY <2>3, DropPromptsKeeps
  <2>4. ASSUME NEW j \in Jobs, NEW r \in TagRequests, StartJob(j, r) PROVE TemplateInv'
    BY <2>4, StartJobKeeps
  <2>5. ASSUME NEW j \in Jobs, NoPrompt(j) PROVE TemplateInv'
    BY <2>5, NoPromptKeeps
  <2>6. ASSUME NEW j \in Jobs, JoinPrompt(j) PROVE TemplateInv'
    BY <2>6, JoinPromptKeeps
  <2>7. ASSUME NEW j \in Jobs, AskPrompt(j) PROVE TemplateInv'
    BY <2>7, AskPromptKeeps
  <2>8. ASSUME NEW j \in Jobs, ResponseTag(j) PROVE TemplateInv'
    BY <2>8, ResponseTagKeeps
  <2>9. ASSUME NEW j \in Jobs, TagAnswered(j) PROVE TemplateInv'
    BY <2>9, TagAnsweredKeeps
  <2>10. ASSUME NEW j \in Jobs, SendFails(j) PROVE TemplateInv'
    BY <2>10, SendFailsKeeps
  <2>11. QED
    BY <2>1, <2>2, <2>3, <2>4, <2>5, <2>6, <2>7, <2>8, <2>9, <2>10 DEF TemplateNext
<1>3. TemplateInv => TemplateSound
  BY TemplateInvImplies
<1>4. QED
  BY <1>1, <1>2, <1>3, PTL DEF TemplateSpec

(***************************************************************************)
(* Filters of sequences, by the places they keep.                          *)
(***************************************************************************)

\* The place of an entry among the entries a filter keeps.
Below(places, k) == {j \in places : j < k}

\* Every rank is taken, and entries that come later have a larger one.
LEMMA PlacesRanked ==
  ASSUME NEW n \in Nat, NEW places \in SUBSET (1..n)
  PROVE  /\ IsFiniteSet(places) /\ Cardinality(places) \in Nat /\ Cardinality(places) <= n
         /\ \A k \in places : Cardinality(Below(places, k)) \in 0..Cardinality(places) - 1
         /\ \A k, l \in places : k < l => Cardinality(Below(places, k)) < Cardinality(Below(places, l))
         /\ \A m \in 1..Cardinality(places) : \E k \in places : Cardinality(Below(places, k)) = m - 1
<1>1. IsFiniteSet(places) /\ Cardinality(places) \in Nat /\ Cardinality(places) <= n
  <2>1. IsFiniteSet(1..n) /\ Cardinality(1..n) = n
    BY FS_Interval
  <2>2. IsFiniteSet(places) /\ Cardinality(places) <= Cardinality(1..n)
    BY <2>1, FS_Subset
  <2>3. QED
    BY <2>1, <2>2, FS_CardinalityType
<1> DEFINE c == Cardinality(places)
           r(k) == Cardinality(Below(places, k))
<1>2. ASSUME NEW k \in places
      PROVE  /\ IsFiniteSet(Below(places, k)) /\ r(k) \in Nat /\ k \in 1..n
             /\ k \notin Below(places, k)
             /\ IsFiniteSet(Below(places, k) \cup {k}) /\ Cardinality(Below(places, k) \cup {k}) = r(k) + 1
  <2>1. Below(places, k) \in SUBSET places
    BY DEF Below
  <2>2. IsFiniteSet(Below(places, k)) /\ r(k) \in Nat
    BY <1>1, <2>1, FS_Subset, FS_CardinalityType
  <2>3. k \in 1..n /\ k \notin Below(places, k)
    BY DEF Below
  <2>4. QED
    BY <2>2, <2>3, FS_AddElement
<1>3. ASSUME NEW k \in places PROVE r(k) \in 0..c - 1
  <2>1. Below(places, k) \cup {k} \in SUBSET places
    BY DEF Below
  <2>2. Cardinality(Below(places, k) \cup {k}) <= c
    BY <1>1, <2>1, FS_Subset
  <2>3. r(k) \in Nat /\ r(k) + 1 <= c
    BY <1>2, <2>2
  <2>4. QED
    BY <1>1, <2>3
<1>4. ASSUME NEW k \in places, NEW l \in places, k < l PROVE r(k) < r(l)
  <2>1. k \in Int /\ l \in Int
    BY <1>2
  <2>2. Below(places, k) \cup {k} \in SUBSET Below(places, l)
    <3>1. \A j \in Below(places, k) : j \in places /\ j < k /\ j \in Int
      BY DEF Below
    <3>2. \A j \in Below(places, k) \cup {k} : j \in places /\ j < l
      BY <1>4, <2>1, <3>1
    <3>3. QED
      BY <3>2 DEF Below
  <2>3. Cardinality(Below(places, k) \cup {k}) <= r(l)
    BY <1>2, <2>2, FS_Subset
  <2>4. r(k) \in Nat /\ r(l) \in Nat /\ r(k) + 1 <= r(l)
    BY <1>2, <2>3
  <2>5. QED
    BY <2>4
<1>5. ASSUME NEW m \in 1..c PROVE \E k \in places : r(k) = m - 1
  <2> DEFINE f == [k \in places |-> r(k) + 1]
  <2>1. f \in [places -> 1..c]
    <3>1. \A k \in places : r(k) + 1 \in 1..c
      BY <1>1, <1>3
    <3>2. QED
      BY <3>1
  <2>2. ASSUME NEW k \in places, NEW l \in places, f[k] = f[l] PROVE k = l
    <3>1. k \in Int /\ l \in Int
      OBVIOUS
    <3>5. r(k) \in Nat /\ r(l) \in Nat
      BY <1>2
    <3>6. f[k] = r(k) + 1 /\ f[l] = r(l) + 1
      OBVIOUS
    <3>2. r(k) = r(l)
      BY <2>2, <3>5, <3>6
    <3>3. ~(k < l) /\ ~(l < k)
      BY <1>4, <3>1, <3>2, <3>5
    <3>4. QED
      BY <3>1, <3>3
  <2>3. f \in Injection(places, 1..c)
    BY <2>1, <2>2 DEF Injection, IsInjective
  <2>4. IsFiniteSet(1..c) /\ Cardinality(1..c) = c
    BY <1>1, FS_Interval
  <2>5. f \in Surjection(places, 1..c)
    BY <2>3, <2>4, FS_Injection
  <2>6. PICK k \in places : f[k] = m
    BY <2>5 DEF Surjection
  <2>7. r(k) \in Nat /\ r(k) + 1 = m
    BY <1>2, <2>6
  <2>8. QED
    BY <2>7
<1>6. QED
  BY <1>1, <1>3, <1>4, <1>5

\* What a filter keeps of a sequence: the entries at the places kept, each once.
LEMMA EntriesAre ==
  ASSUME NEW S, NEW s \in Seq(S), NEW places \in SUBSET (1..Len(s))
  PROVE  /\ EntriesAt(s, places) \in Seq(S)
         /\ \A i \in 1..Len(EntriesAt(s, places)) : \E k \in places : EntriesAt(s, places)[i] = s[k]
         /\ \A k \in places : \E i \in 1..Len(EntriesAt(s, places)) : EntriesAt(s, places)[i] = s[k]
         /\ \A i, j \in 1..Len(EntriesAt(s, places)) : i # j =>
               \E k, l \in places : k # l /\ EntriesAt(s, places)[i] = s[k] /\ EntriesAt(s, places)[j] = s[l]
<1>1. Len(s) \in Nat /\ \A k \in 1..Len(s) : s[k] \in S
  BY ElementOfSeq
<1> DEFINE c == Cardinality(places)
           at(m) == CHOOSE k \in places : Cardinality(Below(places, k)) = m - 1
           e == EntriesAt(s, places)
<1>2. c \in Nat /\ \A k \in places : Cardinality(Below(places, k)) \in 0..c - 1
  BY <1>1, PlacesRanked
<1>3. \A m \in 1..c : at(m) \in places /\ Cardinality(Below(places, at(m))) = m - 1
  BY <1>1, PlacesRanked
<1>4. e = [m \in 1..c |-> s[at(m)]]
  BY DEF EntriesAt, Below
<1> HIDE DEF e, at
<1>5. e \in Seq(S) /\ Len(e) = c /\ \A m \in 1..c : e[m] = s[at(m)]
  <2>1. \A m \in 1..c : s[at(m)] \in S
    BY <1>1, <1>3
  <2>2. e \in [1..c -> S]
    BY <1>4, <2>1
  <2>3. QED
    BY <1>2, <1>4, <2>2
<1>6. ASSUME NEW k \in places PROVE \E i \in 1..c : e[i] = s[k]
  <2> DEFINE m == Cardinality(Below(places, k)) + 1
  <2>1. m \in 1..c /\ Cardinality(Below(places, k)) = m - 1
    BY <1>2
  <2>2. at(m) \in places /\ Cardinality(Below(places, at(m))) = Cardinality(Below(places, k))
    BY <1>3, <2>1
  <2>6. \A x, y \in places : x < y => Cardinality(Below(places, x)) < Cardinality(Below(places, y))
    BY <1>1, PlacesRanked
  <2>8. Cardinality(Below(places, k)) \in Int
    BY <1>2
  <2>9. at(m) \in 1..Len(s) /\ k \in 1..Len(s)
    BY <2>2
  <2>7. Cardinality(Below(places, k)) \in Int /\ at(m) \in Int /\ k \in Int
    BY <1>1, <2>8, <2>9
  <2>3. ~(at(m) < k) /\ ~(k < at(m))
    BY <2>2, <2>6, <2>7
  <2>4. at(m) = k
    BY <2>3, <2>7
  <2>5. QED
    BY <1>5, <2>1, <2>4
<1>7. ASSUME NEW i \in 1..c, NEW j \in 1..c, i # j
      PROVE  at(i) # at(j)
  BY <1>3, <1>7
<1>8. \A i \in 1..Len(e) : \E k \in places : e[i] = s[k]
  BY <1>3, <1>5
<1>9. \A k \in places : \E i \in 1..Len(e) : e[i] = s[k]
  BY <1>5, <1>6
<1>10. ASSUME NEW i \in 1..c, NEW j \in 1..c, i # j
       PROVE  \E k, l \in places : k # l /\ e[i] = s[k] /\ e[j] = s[l]
  <2>1. at(i) \in places /\ at(j) \in places /\ at(i) # at(j) /\ e[i] = s[at(i)] /\ e[j] = s[at(j)]
    BY <1>3, <1>5, <1>7, <1>10
  <2>2. QED
    BY <2>1
<1>11. \A i, j \in 1..Len(e) : i # j => \E k, l \in places : k # l /\ e[i] = s[k] /\ e[j] = s[l]
  <2>1. ASSUME NEW i \in 1..Len(e), NEW j \in 1..Len(e), i # j
        PROVE  \E k, l \in places : k # l /\ e[i] = s[k] /\ e[j] = s[l]
    <3>1. i \in 1..c /\ j \in 1..c
      BY <1>5
    <3>2. QED
      BY <2>1, <3>1, <1>10
  <2>2. QED
    BY <2>1
<1>12. QED
  BY <1>5, <1>8, <1>9, <1>11 DEF e

\* Records each with its own id, and their ids.
Distinct(p) == \A i, j \in 1..Len(p) : p[i].id = p[j].id => i = j
IdSet(p) == {p[k].id : k \in 1..Len(p)}

\* What a filter keeps has the ids kept, each once.
LEMMA KeptOnce ==
  ASSUME NEW S, NEW s \in Seq(S), NEW places \in SUBSET (1..Len(s)), Distinct(s)
  PROVE  /\ EntriesAt(s, places) \in Seq(S) /\ Distinct(EntriesAt(s, places))
         /\ IdSet(EntriesAt(s, places)) = {s[k].id : k \in places}
<1> DEFINE e == EntriesAt(s, places)
<1>1. /\ e \in Seq(S)
      /\ \A i \in 1..Len(e) : \E k \in places : e[i] = s[k]
      /\ \A k \in places : \E i \in 1..Len(e) : e[i] = s[k]
      /\ \A i, j \in 1..Len(e) : i # j => \E k, l \in places : k # l /\ e[i] = s[k] /\ e[j] = s[l]
  BY EntriesAre, ZenonT(60)
<1> HIDE DEF e
<1>2. ASSUME NEW i \in 1..Len(e), NEW j \in 1..Len(e), e[i].id = e[j].id PROVE i = j
  <2>1. SUFFICES ASSUME i # j PROVE FALSE
    OBVIOUS
  <2>2. PICK k, l \in places : k # l /\ e[i] = s[k] /\ e[j] = s[l]
    BY <1>1, <2>1
  <2>3. k \in 1..Len(s) /\ l \in 1..Len(s) /\ s[k].id = s[l].id
    BY <1>2, <2>2
  <2>4. QED
    BY <2>2, <2>3 DEF Distinct
<1>3. IdSet(e) = {s[k].id : k \in places}
  <2>1. \A i \in 1..Len(e) : e[i].id \in {s[k].id : k \in places}
    BY <1>1
  <2>2. \A k \in places : s[k].id \in IdSet(e)
    BY <1>1 DEF IdSet
  <2>3. QED
    BY <2>1, <2>2 DEF IdSet
<1>4. QED
  BY <1>1, <1>2, <1>3 DEF e, Distinct

LEMMA JoinedOnce ==
  ASSUME NEW S, NEW a \in Seq(S), NEW b \in Seq(S), Distinct(a), Distinct(b), IdSet(a) \cap IdSet(b) = {}
  PROVE  /\ a \o b \in Seq(S) /\ Distinct(a \o b) /\ IdSet(a \o b) = IdSet(a) \cup IdSet(b)
<1>1. /\ Len(a) \in Nat /\ Len(b) \in Nat /\ a \o b \in Seq(S) /\ Len(a \o b) = Len(a) + Len(b)
      /\ \A i \in 1..Len(a) + Len(b) : (a \o b)[i] = IF i <= Len(a) THEN a[i] ELSE b[i - Len(a)]
  BY ConcatProperties, LenProperties
<1> DEFINE c == a \o b
<1> HIDE DEF c
<1>2. /\ Len(c) = Len(a) + Len(b)
      /\ \A i \in 1..Len(c) : \/ i \in 1..Len(a) /\ c[i] = a[i]
                              \/ i - Len(a) \in 1..Len(b) /\ c[i] = b[i - Len(a)]
  BY <1>1 DEF c
<1>3. /\ \A i \in 1..Len(a) : i \in 1..Len(c) /\ c[i] = a[i]
      /\ \A i \in 1..Len(b) : i + Len(a) \in 1..Len(c) /\ c[i + Len(a)] = b[i]
  BY <1>1 DEF c
<1>4. /\ \A i \in 1..Len(a) : a[i].id \in IdSet(a)
      /\ \A i \in 1..Len(b) : b[i].id \in IdSet(b)
  BY DEF IdSet
<1>5. ASSUME NEW i \in 1..Len(c), NEW j \in 1..Len(c), c[i].id = c[j].id PROVE i = j
  <2>0. i \in Int /\ j \in Int
    OBVIOUS
  <2>1. CASE i \in 1..Len(a) /\ c[i] = a[i] /\ j \in 1..Len(a) /\ c[j] = a[j]
    BY <2>1, <1>5 DEF Distinct
  <2>2. CASE i \in 1..Len(a) /\ c[i] = a[i] /\ j - Len(a) \in 1..Len(b) /\ c[j] = b[j - Len(a)]
    <3>1. c[i].id \in IdSet(a) /\ c[j].id \in IdSet(b)
      BY <2>2, <1>4
    <3>2. QED
      BY <3>1, <1>5
  <2>3. CASE i - Len(a) \in 1..Len(b) /\ c[i] = b[i - Len(a)] /\ j \in 1..Len(a) /\ c[j] = a[j]
    <3>1. c[i].id \in IdSet(b) /\ c[j].id \in IdSet(a)
      BY <2>3, <1>4
    <3>2. QED
      BY <3>1, <1>5
  <2>4. CASE i - Len(a) \in 1..Len(b) /\ c[i] = b[i - Len(a)] /\ j - Len(a) \in 1..Len(b) /\ c[j] = b[j - Len(a)]
    <3>1. i - Len(a) = j - Len(a)
      BY <2>4, <1>5 DEF Distinct
    <3>2. QED
      BY <3>1, <2>0, <1>1
  <2>5. QED
    BY <1>2, <2>1, <2>2, <2>3, <2>4
<1>6. IdSet(c) = IdSet(a) \cup IdSet(b)
  <2>1. ASSUME NEW x \in IdSet(c) PROVE x \in IdSet(a) \cup IdSet(b)
    <3>1. PICK i \in 1..Len(c) : x = c[i].id
      BY <2>1 DEF IdSet
    <3>2. QED
      BY <3>1, <1>2, <1>4
  <2>2. ASSUME NEW x \in IdSet(a) PROVE x \in IdSet(c)
    BY <2>2, <1>3 DEF IdSet
  <2>3. ASSUME NEW x \in IdSet(b) PROVE x \in IdSet(c)
    <3>1. PICK i \in 1..Len(b) : x = b[i].id
      BY <2>3 DEF IdSet
    <3>2. i + Len(a) \in 1..Len(c) /\ x = c[i + Len(a)].id
      BY <3>1, <1>3
    <3>3. QED
      BY <3>2 DEF IdSet
  <2>4. QED
    BY <2>1, <2>2, <2>3
<1>7. Distinct(c)
  BY <1>5 DEF Distinct
<1>8. QED
  BY <1>1, <1>6, <1>7 DEF c

LEMMA CutOnce ==
  ASSUME NEW S, NEW s \in Seq(S), Distinct(s), NEW n \in 0..Len(s)
  PROVE  /\ SubSeq(s, 1, n) \in Seq(S) /\ SubSeq(s, n + 1, Len(s)) \in Seq(S)
         /\ Distinct(SubSeq(s, 1, n)) /\ Distinct(SubSeq(s, n + 1, Len(s)))
         /\ IdSet(SubSeq(s, 1, n)) \cap IdSet(SubSeq(s, n + 1, Len(s))) = {}
         /\ IdSet(SubSeq(s, 1, n)) \cup IdSet(SubSeq(s, n + 1, Len(s))) = IdSet(s)
<1>1. Len(s) \in Nat /\ n \in Nat /\ n <= Len(s) /\ \A i \in 1..Len(s) : s[i] \in S
  BY LenProperties, ElementOfSeq
<1> DEFINE a == SubSeq(s, 1, n)
           b == SubSeq(s, n + 1, Len(s))
<1>2. a \in Seq(S) /\ Len(a) = n /\ \A i \in 1..n : a[i] = s[i]
  <2>1. \A i \in 1..n : s[i] \in S /\ 1 + i - 1 = i
    BY <1>1
  <2>2. /\ a \in Seq(S) /\ Len(a) = IF 1 <= n THEN n - 1 + 1 ELSE 0
        /\ \A i \in 1..n - 1 + 1 : a[i] = s[1 + i - 1]
    BY <1>1, <2>1, SubSeqProperties
  <2>3. n - 1 + 1 = n
    BY <1>1
  <2>4. QED
    BY <1>1, <2>1, <2>2, <2>3
<1>3. b \in Seq(S) /\ Len(b) = Len(s) - n /\ \A i \in 1..Len(s) - n : b[i] = s[n + i]
  <2>1. \A i \in n + 1..Len(s) : s[i] \in S
    BY <1>1
  <2>2. /\ b \in Seq(S) /\ Len(b) = IF n + 1 <= Len(s) THEN Len(s) - (n + 1) + 1 ELSE 0
        /\ \A i \in 1..Len(s) - (n + 1) + 1 : b[i] = s[n + 1 + i - 1]
    BY <1>1, <2>1, SubSeqProperties
  <2>3. Len(s) - (n + 1) + 1 = Len(s) - n /\ \A i \in Int : n + 1 + i - 1 = n + i
    BY <1>1
  <2>4. Len(b) = Len(s) - n
    BY <1>1, <2>2
  <2>5. ASSUME NEW i \in 1..Len(s) - n PROVE b[i] = s[n + i]
    <3>1. i \in Int /\ b[i] = s[n + 1 + i - 1]
      BY <2>2, <2>3
    <3>2. QED
      BY <2>3, <3>1
  <2>6. QED
    BY <2>2, <2>4, <2>5
<1> HIDE DEF a, b
<1>4. Distinct(a)
  <2>1. \A i, j \in 1..n : i \in 1..Len(s) /\ j \in 1..Len(s)
    BY <1>1
  <2>2. QED
    BY <2>1, <1>2 DEF Distinct
<1>5. /\ \A i \in 1..Len(b) : n + i \in 1..Len(s) /\ n + i > n /\ b[i] = s[n + i]
      /\ \A i, j \in 1..Len(b) : n + i = n + j => i = j
  BY <1>1, <1>3
<1>6. Distinct(b)
  <2>1. SUFFICES ASSUME NEW i \in 1..Len(b), NEW j \in 1..Len(b), b[i].id = b[j].id PROVE i = j
    BY DEF Distinct
  <2>2. n + i \in 1..Len(s) /\ n + j \in 1..Len(s) /\ s[n + i].id = s[n + j].id
    BY <1>5, <2>1
  <2>3. n + i = n + j
    BY <2>2 DEF Distinct
  <2>4. QED
    BY <1>5, <2>3
<1>7. \A i \in 1..Len(a) : i \in 1..Len(s) /\ i <= n /\ a[i] = s[i]
  BY <1>1, <1>2
<1>8. IdSet(a) \cap IdSet(b) = {}
  <2>1. ASSUME NEW i \in 1..Len(a), NEW j \in 1..Len(b), a[i].id = b[j].id PROVE FALSE
    <3>1. s[i].id = s[n + j].id /\ i \in 1..Len(s) /\ n + j \in 1..Len(s)
      BY <2>1, <1>5, <1>7
    <3>2. i = n + j
      BY <3>1 DEF Distinct
    <3>3. i <= n /\ n + j > n
      BY <1>5, <1>7
    <3>4. i \in Int /\ n \in Int
      BY <1>1
    <3>5. QED
      BY <3>2, <3>3, <3>4
  <2>2. QED
    BY <2>1 DEF IdSet
<1>9. IdSet(a) \cup IdSet(b) = IdSet(s)
  <2>1. ASSUME NEW k \in 1..Len(s) PROVE s[k].id \in IdSet(a) \cup IdSet(b)
    <3>1. CASE k <= n
      <4>1. k \in 1..Len(a) /\ a[k] = s[k]
        BY <3>1, <1>1, <1>2
      <4>2. QED
        BY <4>1 DEF IdSet
    <3>2. CASE k > n
      <4>1. k - n \in 1..Len(b) /\ b[k - n] = s[k]
        <5>1. k - n \in 1..Len(s) - n /\ n + (k - n) = k
          BY <3>2, <1>1
        <5>2. QED
          BY <5>1, <1>3
      <4>2. QED
        BY <4>1 DEF IdSet
    <3>3. k <= n \/ k > n
      BY <1>1
    <3>4. QED
      BY <3>1, <3>2, <3>3
  <2>2. \A x \in IdSet(a) : x \in IdSet(s)
    BY <1>7 DEF IdSet
  <2>3. \A x \in IdSet(b) : x \in IdSet(s)
    BY <1>5 DEF IdSet
  <2>4. QED
    BY <2>1, <2>2, <2>3 DEF IdSet
<1>10. QED
  BY <1>2, <1>3, <1>4, <1>6, <1>8, <1>9 DEF a, b

(***************************************************************************)
(* The runner's page: PlanSound.                                           *)
(***************************************************************************)

PlanEntries == [id : PlanRequests, enabled : BOOLEAN]

\* The requests of the collection, each once.
OrderFits(requests) == /\ requests \in Seq(PlanRequests)
                       /\ \A i, j \in 1..Len(requests) : requests[i] = requests[j] => i = j
RequestSet(requests) == {requests[k] : k \in 1..Len(requests)}

\* A plan of these requests, each once.
PlanOf(p, requests) == p \in Seq(PlanEntries) /\ Distinct(p) /\ IdSet(p) = RequestSet(requests)

\* The pending report is the one last clicked.
PendingFits == pendingId \in Reports => lastClick = pendingId

PlanInv == OrderFits(existing) /\ PlanOf(plan, existing) /\ PendingFits /\ DOMAIN pinStore = PlanProjects

LEMMA OrdersFit == \A s \in Orders : OrderFits(s) /\ ToSet(s) = RequestSet(s)
<1>1. SUFFICES ASSUME NEW s \in Orders PROVE OrderFits(s) /\ ToSet(s) = RequestSet(s)
  OBVIOUS
<1>2. Cardinality(PlanRequests) \in Nat
  BY PlanAssumption, FS_CardinalityType
<1>3. PICK n \in 0..Cardinality(PlanRequests) : s \in [1..n -> PlanRequests] /\ IsInjective(s)
  BY DEF Orders
<1>4. n \in Nat
  BY <1>2
<1>5. s \in Seq(PlanRequests) /\ Len(s) = n /\ DOMAIN s = 1..n
  BY <1>3, <1>4
<1>6. QED
  BY <1>3, <1>5 DEF OrderFits, RequestSet, ToSet, IsInjective

LEMMA SetOf == ASSUME NEW S, NEW s \in Seq(S) PROVE ToSet(s) = {s[k] : k \in 1..Len(s)}
<1>1. DOMAIN s = 1..Len(s)
  OBVIOUS
<1>2. QED
  BY <1>1 DEF ToSet

\* The ids of a plan, as the module writes them.
LEMMA IdsOf ==
  ASSUME NEW p \in Seq(PlanEntries)
  PROVE  /\ ToSet(PlanIds(p)) = IdSet(p) /\ (IsInjective(PlanIds(p)) <=> Distinct(p))
<1>1. DOMAIN p = 1..Len(p)
  OBVIOUS
<1>2. PlanIds(p) = [k \in 1..Len(p) |-> p[k].id]
  BY <1>1 DEF PlanIds
<1>3. DOMAIN PlanIds(p) = 1..Len(p) /\ \A k \in 1..Len(p) : PlanIds(p)[k] = p[k].id
  BY <1>2
<1>4. QED
  BY <1>3 DEF ToSet, IdSet, IsInjective, Distinct

LEMMA FunctionIsSeq ==
  ASSUME NEW S, NEW n \in Nat, NEW f \in [1..n -> S]
  PROVE  f \in Seq(S) /\ Len(f) = n
OBVIOUS

\* Every request of a sequence, enabled.
LEMMA EnabledOnce ==
  ASSUME NEW requests, OrderFits(requests)
  PROVE  PlanOf(AllEnabled(requests), requests)
<1> DEFINE new == [k \in 1..Len(requests) |-> [id |-> requests[k], enabled |-> TRUE]]
<1>1. DOMAIN requests = 1..Len(requests) /\ Len(requests) \in Nat /\ \A k \in 1..Len(requests) : requests[k] \in PlanRequests
  BY LenProperties, ElementOfSeq DEF OrderFits
<1>2. new \in [1..Len(requests) -> PlanEntries]
  BY <1>1 DEF PlanEntries
<1> HIDE DEF new
<1>3. new \in Seq(PlanEntries)
  BY <1>1, <1>2, FunctionIsSeq
<1>4. Len(new) = Len(requests)
  BY <1>1, <1>2, FunctionIsSeq
<1>5. \A k \in 1..Len(requests) : new[k].id = requests[k]
  BY DEF new
<1>6. Distinct(new)
  BY <1>4, <1>5 DEF Distinct, OrderFits
<1>7. IdSet(new) = RequestSet(requests)
  BY <1>4, <1>5 DEF IdSet, RequestSet
<1>8. AllEnabled(requests) = new
  BY <1>1 DEF AllEnabled, new
<1>9. QED
  BY <1>3, <1>6, <1>7, <1>8 DEF PlanOf

\* The requests at some places of the collection.
LEMMA PartFits ==
  ASSUME NEW requests, OrderFits(requests), NEW places \in SUBSET (1..Len(requests))
  PROVE  /\ OrderFits(EntriesAt(requests, places))
         /\ RequestSet(EntriesAt(requests, places)) = {requests[k] : k \in places}
<1> DEFINE e == EntriesAt(requests, places)
<1>1. requests \in Seq(PlanRequests)
  BY DEF OrderFits
<1>2. /\ e \in Seq(PlanRequests)
      /\ \A i \in 1..Len(e) : \E k \in places : e[i] = requests[k]
      /\ \A k \in places : \E i \in 1..Len(e) : e[i] = requests[k]
      /\ \A i, j \in 1..Len(e) : i # j => \E k, l \in places : k # l /\ e[i] = requests[k] /\ e[j] = requests[l]
  BY <1>1, EntriesAre, ZenonT(60)
<1> HIDE DEF e
<1>3. ASSUME NEW i \in 1..Len(e), NEW j \in 1..Len(e), e[i] = e[j], i # j PROVE FALSE
  <2>1. PICK k, l \in places : k # l /\ e[i] = requests[k] /\ e[j] = requests[l]
    BY <1>2, <1>3
  <2>2. k \in 1..Len(requests) /\ l \in 1..Len(requests)
    OBVIOUS
  <2>3. QED
    BY <1>3, <2>1, <2>2 DEF OrderFits
<1>4. OrderFits(e)
  BY <1>2, <1>3 DEF OrderFits
<1>5. RequestSet(e) = {requests[k] : k \in places}
  <2>1. \A i \in 1..Len(e) : e[i] \in {requests[k] : k \in places}
    BY <1>2
  <2>2. \A k \in places : requests[k] \in RequestSet(e)
    BY <1>2 DEF RequestSet
  <2>3. QED
    BY <2>1, <2>2 DEF RequestSet
<1>6. QED
  BY <1>4, <1>5 DEF e

LEMMA PlanForFits ==
  ASSUME PlanInv, NEW requests \in Orders
  PROVE  PlanOf(PlanFor(requests), requests)
<1> DEFINE places == {k \in 1..Len(plan) : plan[k].id \in RequestSet(requests)}
           retained == EntriesAt(plan, places)
           rest == {k \in 1..Len(requests) : requests[k] \notin IdSet(retained)}
           added == EntriesAt(requests, rest)
<1>1. OrderFits(requests) /\ ToSet(requests) = RequestSet(requests)
  BY OrdersFit
<1>2. plan \in Seq(PlanEntries) /\ Distinct(plan) /\ DOMAIN plan = 1..Len(plan)
  BY DEF PlanInv, PlanOf
<1>3. /\ retained \in Seq(PlanEntries) /\ Distinct(retained)
      /\ IdSet(retained) = {plan[k].id : k \in places}
  BY <1>2, KeptOnce
<1>4. ToSet(PlanIds(retained)) = IdSet(retained)
  BY <1>3, IdsOf
<1>5. requests \in Seq(PlanRequests) /\ DOMAIN requests = 1..Len(requests)
  BY <1>1 DEF OrderFits
<1>6. OrderFits(added) /\ RequestSet(added) = {requests[k] : k \in rest}
  BY <1>1, PartFits
<1>7. IdSet(retained) \subseteq RequestSet(requests)
  BY <1>3
<1> HIDE DEF retained, added
<1>8. PlanOf(AllEnabled(added), added)
  BY <1>6, EnabledOnce
<1>12. /\ IdSet(retained) \cap IdSet(AllEnabled(added)) = {}
       /\ IdSet(retained) \cup IdSet(AllEnabled(added)) = RequestSet(requests)
  BY <1>6, <1>7, <1>8 DEF RequestSet, PlanOf
<1>9. PlanOf(retained \o AllEnabled(added), requests)
  <2> DEFINE all == AllEnabled(added)
  <2>1. all \in Seq(PlanEntries) /\ Distinct(all)
    BY <1>8 DEF PlanOf
  <2>2. retained \in Seq(PlanEntries) /\ Distinct(retained)
    BY <1>3
  <2> HIDE DEF all
  <2>3. IdSet(retained) \cap IdSet(all) = {}
    BY <1>12 DEF all
  <2>4. /\ retained \o all \in Seq(PlanEntries) /\ Distinct(retained \o all)
        /\ IdSet(retained \o all) = IdSet(retained) \cup IdSet(all)
    BY <2>1, <2>2, <2>3, JoinedOnce
  <2>5. IdSet(retained) \cup IdSet(all) = RequestSet(requests)
    BY <1>12 DEF all
  <2>6. QED
    BY <2>4, <2>5 DEF PlanOf, all
<1>10. PlanFor(requests) = retained \o AllEnabled(added)
  BY <1>1, <1>2, <1>4, <1>5 DEF PlanFor, retained, added
<1>11. QED
  BY <1>9, <1>10

LEMMA RemovedOnce ==
  ASSUME NEW S, NEW s \in Seq(S), Distinct(s), NEW k \in 1..Len(s)
  PROVE  /\ RemoveAt(s, k) \in Seq(S) /\ Len(RemoveAt(s, k)) = Len(s) - 1
         /\ Distinct(RemoveAt(s, k)) /\ IdSet(RemoveAt(s, k)) = IdSet(s) \ {s[k].id}
<1> DEFINE t == RemoveAt(s, k)
<1>1. /\ t \in Seq(S) /\ Len(t) = Len(s) - 1
      /\ \A j \in 1..Len(s) - 1 : t[j] = IF j < k THEN s[j] ELSE s[j + 1]
  BY RemovedAt
<1> HIDE DEF t
<1>2. Len(s) \in Nat /\ k \in Int /\ k >= 1 /\ k <= Len(s)
  BY LenProperties
<1> DEFINE place(j) == IF j < k THEN j ELSE j + 1
<1>3. \A j \in 1..Len(t) : place(j) \in 1..Len(s) /\ place(j) # k /\ t[j] = s[place(j)]
  BY <1>1, <1>2
<1>4. \A i, j \in 1..Len(t) : place(i) = place(j) => i = j
  BY <1>1, <1>2
<1>5. \A i \in 1..Len(s) : i # k => \E j \in 1..Len(t) : place(j) = i
  <2>1. SUFFICES ASSUME NEW i \in 1..Len(s), i # k PROVE \E j \in 1..Len(t) : place(j) = i
    OBVIOUS
  <2>2. CASE i < k
    BY <2>2, <1>1, <1>2
  <2>3. CASE i > k
    <3>1. i - 1 \in 1..Len(t) /\ place(i - 1) = i
      BY <2>3, <1>1, <1>2
    <3>2. QED
      BY <3>1
  <2>4. QED
    BY <2>1, <2>2, <2>3, <1>2
<1> HIDE DEF place
<1>6. Distinct(t)
  BY <1>3, <1>4 DEF Distinct
<1>7. IdSet(t) = IdSet(s) \ {s[k].id}
  <2>1. ASSUME NEW j \in 1..Len(t) PROVE t[j].id \in IdSet(s) \ {s[k].id}
    <3>1. place(j) \in 1..Len(s) /\ place(j) # k /\ t[j] = s[place(j)]
      BY <1>3
    <3>2. s[place(j)].id # s[k].id
      BY <3>1 DEF Distinct
    <3>3. QED
      BY <3>1, <3>2 DEF IdSet
  <2>2. ASSUME NEW i \in 1..Len(s), s[i].id # s[k].id PROVE s[i].id \in IdSet(t)
    <3>1. PICK j \in 1..Len(t) : place(j) = i
      BY <2>2, <1>5
    <3>2. QED
      BY <3>1, <1>3 DEF IdSet
  <2>3. QED
    BY <2>1, <2>2 DEF IdSet
<1>8. QED
  BY <1>1, <1>6, <1>7 DEF t

LEMMA InsertedOnce ==
  ASSUME NEW S, NEW s \in Seq(S), NEW e \in S, Distinct(s), e.id \notin IdSet(s), NEW k \in 1..Len(s) + 1
  PROVE  /\ InsertAt(s, k, e) \in Seq(S) /\ Len(InsertAt(s, k, e)) = Len(s) + 1
         /\ Distinct(InsertAt(s, k, e)) /\ IdSet(InsertAt(s, k, e)) = IdSet(s) \cup {e.id}
<1> DEFINE t == InsertAt(s, k, e)
<1>1. t \in Seq(S) /\ Len(t) = Len(s) + 1
  BY InsertedAt
<1>10. \A j \in 1..Len(s) + 1 : t[j] = IF j < k THEN s[j] ELSE IF j = k THEN e ELSE s[j - 1]
  BY InsertedAt
<1> HIDE DEF t
<1>2. Len(s) \in Nat /\ k \in Int /\ k >= 1 /\ k <= Len(s) + 1
  BY LenProperties
<1> DEFINE place(j) == IF j < k THEN j ELSE j - 1
<1>3. /\ \A j \in 1..Len(t) : j # k => place(j) \in 1..Len(s) /\ t[j] = s[place(j)]
      /\ k \in 1..Len(t) /\ t[k] = e
  BY <1>1, <1>2, <1>10
<1>4. \A i, j \in 1..Len(t) : i # k /\ j # k /\ place(i) = place(j) => i = j
  BY <1>1, <1>2
<1>5. \A i \in 1..Len(s) : \E j \in 1..Len(t) : j # k /\ place(j) = i
  <2>1. SUFFICES ASSUME NEW i \in 1..Len(s) PROVE \E j \in 1..Len(t) : j # k /\ place(j) = i
    OBVIOUS
  <2>2. CASE i < k
    BY <2>2, <1>1, <1>2
  <2>3. CASE i >= k
    <3>1. i + 1 \in 1..Len(t) /\ i + 1 # k /\ place(i + 1) = i
      BY <2>3, <1>1, <1>2
    <3>2. QED
      BY <3>1
  <2>4. QED
    BY <2>2, <2>3, <1>2
<1> HIDE DEF place
<1>6. \A i \in 1..Len(s) : s[i].id \in IdSet(s) /\ s[i].id # e.id
  BY DEF IdSet
<1>7. Distinct(t)
  <2>1. SUFFICES ASSUME NEW i \in 1..Len(t), NEW j \in 1..Len(t), t[i].id = t[j].id PROVE i = j
    BY DEF Distinct
  <2>2. CASE i # k /\ j # k
    <3>1. place(i) = place(j)
      BY <2>1, <2>2, <1>3 DEF Distinct
    <3>2. QED
      BY <2>2, <3>1, <1>4
  <2>3. CASE i = k \/ j = k
    BY <2>1, <2>3, <1>3, <1>6
  <2>4. QED
    BY <2>2, <2>3
<1>8. IdSet(t) = IdSet(s) \cup {e.id}
  <2>1. ASSUME NEW j \in 1..Len(t) PROVE t[j].id \in IdSet(s) \cup {e.id}
    BY <1>3, <1>6
  <2>2. ASSUME NEW i \in 1..Len(s) PROVE s[i].id \in IdSet(t)
    <3>1. PICK j \in 1..Len(t) : j # k /\ place(j) = i
      BY <1>5
    <3>2. QED
      BY <3>1, <1>3 DEF IdSet
  <2>3. e.id \in IdSet(t)
    BY <1>3 DEF IdSet
  <2>4. QED
    BY <2>1, <2>2, <2>3 DEF IdSet
<1>9. QED
  BY <1>1, <1>7, <1>8 DEF t

\* A change of entries that keeps ids keeps the plan's ids.
LEMMA SameIds ==
  ASSUME NEW S, NEW s \in Seq(S), NEW t \in [1..Len(s) -> S], \A k \in 1..Len(s) : t[k].id = s[k].id, Distinct(s)
  PROVE  t \in Seq(S) /\ Len(t) = Len(s) /\ Distinct(t) /\ IdSet(t) = IdSet(s)
<1>1. Len(s) \in Nat
  BY LenProperties
<1>2. t \in Seq(S) /\ Len(t) = Len(s)
  BY <1>1, FunctionIsSeq
<1>3. QED
  BY <1>2 DEF Distinct, IdSet

LEMMA ReorderFits ==
  ASSUME PlanInv, NEW moving, NEW target, NEW after \in BOOLEAN
  PROVE  PlanOf(Reordered(moving, target, after), existing)
<1> DEFINE moved == EntriesAt(plan, {k \in 1..Len(plan) : plan[k].id \in moving})
           rest == EntriesAt(plan, {k \in 1..Len(plan) : plan[k].id \notin moving})
           place == CHOOSE k \in DOMAIN rest : rest[k].id = target
           at == IF after THEN place ELSE place - 1
<1>1. plan \in Seq(PlanEntries) /\ Distinct(plan) /\ DOMAIN plan = 1..Len(plan) /\ PlanOf(plan, existing)
  BY DEF PlanInv, PlanOf
<1>2. /\ moved \in Seq(PlanEntries) /\ Distinct(moved)
      /\ IdSet(moved) = {plan[k].id : k \in {k \in 1..Len(plan) : plan[k].id \in moving}}
  BY <1>1, KeptOnce
<1>3. /\ rest \in Seq(PlanEntries) /\ Distinct(rest)
      /\ IdSet(rest) = {plan[k].id : k \in {k \in 1..Len(plan) : plan[k].id \notin moving}}
  BY <1>1, KeptOnce
<1> HIDE DEF moved, rest
<1>4. IdSet(moved) \cap IdSet(rest) = {} /\ IdSet(moved) \cup IdSet(rest) = IdSet(plan)
  BY <1>2, <1>3 DEF IdSet
<1>5. ToSet(PlanIds(rest)) = IdSet(rest) /\ DOMAIN rest = 1..Len(rest) /\ Len(rest) \in Nat
  BY <1>3, IdsOf, LenProperties
<1>6. CASE target \in IdSet(rest)
  <2>1. place \in 1..Len(rest)
    BY <1>5, <1>6 DEF IdSet
  <2> HIDE DEF place
  <2>2. at \in 0..Len(rest)
    BY <2>1, <1>5
  <2> HIDE DEF at
  <2> DEFINE a == SubSeq(rest, 1, at)
             b == SubSeq(rest, at + 1, Len(rest))
  <2>3. /\ a \in Seq(PlanEntries) /\ b \in Seq(PlanEntries) /\ Distinct(a) /\ Distinct(b)
        /\ IdSet(a) \cap IdSet(b) = {} /\ IdSet(a) \cup IdSet(b) = IdSet(rest)
    BY <1>3, <2>2, CutOnce
  <2> HIDE DEF a, b
  <2>4. /\ a \o moved \in Seq(PlanEntries) /\ Distinct(a \o moved)
        /\ IdSet(a \o moved) = IdSet(a) \cup IdSet(moved)
    <3>1. IdSet(a) \cap IdSet(moved) = {}
      BY <1>4, <2>3
    <3>2. QED
      BY <1>2, <2>3, <3>1, JoinedOnce
  <2> DEFINE c == a \o moved
  <2> HIDE DEF c
  <2>10. c \in Seq(PlanEntries) /\ Distinct(c) /\ IdSet(c) = IdSet(a) \cup IdSet(moved)
    BY <2>4 DEF c
  <2>5. c \o b \in Seq(PlanEntries) /\ Distinct(c \o b) /\ IdSet(c \o b) = IdSet(c) \cup IdSet(b)
    <3>1. IdSet(c) \cap IdSet(b) = {}
      BY <1>4, <2>3, <2>10
    <3>2. QED
      BY <2>3, <2>10, <3>1, JoinedOnce
  <2>6. IdSet(c \o b) = IdSet(plan)
    BY <1>4, <2>3, <2>10, <2>5
  <2>7. PlanOf(c \o b, existing)
    BY <1>1, <2>5, <2>6 DEF PlanOf
  <2>8. Reordered(moving, target, after) \in {plan, c \o b}
    BY <1>1 DEF Reordered, moved, rest, place, at, a, b, c
  <2>9. QED
    BY <1>1, <2>7, <2>8
<1>7. CASE target \notin IdSet(rest)
  <2>1. Reordered(moving, target, after) = plan
    BY <1>1, <1>5, <1>7 DEF Reordered, moved, rest
  <2>2. PlanOf(plan, existing)
    BY DEF PlanInv
  <2>3. QED
    BY <2>1, <2>2, Zenon
<1>8. QED
  BY <1>6, <1>7

LEMMA PlanSteps ==
  ASSUME PlanInv,
         \/ \E requests \in Orders : ChangeRequests(requests)
         \/ ToggleAll
         \/ \E k \in DOMAIN plan : Toggle(k) \/ DragStart(k) \/ \E to \in DOMAIN plan : MoveRequest(k, to)
         \/ \E r \in ToSet(existing), after \in BOOLEAN : DropRequest(r, after)
  PROVE  PlanInv' /\ UNCHANGED <<reportVars, pinVars>>
<1>1. /\ plan \in Seq(PlanEntries) /\ Distinct(plan) /\ PlanOf(plan, existing)
      /\ DOMAIN plan = 1..Len(plan) /\ \A k \in 1..Len(plan) : plan[k] \in PlanEntries
  BY ElementOfSeq DEF PlanInv, PlanOf
<1>2. SUFFICES OrderFits(existing)' /\ PlanOf(plan, existing)' /\ UNCHANGED <<reportVars, pinVars>>
  BY DEF PlanInv, PendingFits, reportVars, pinVars
<1>3. CASE \E requests \in Orders : ChangeRequests(requests)
  <2>1. PICK requests \in Orders : ChangeRequests(requests)
    BY <1>3
  <2>2. OrderFits(requests) /\ PlanOf(PlanFor(requests), requests)
    BY OrdersFit, PlanForFits
  <2>3. existing' = requests /\ plan' = PlanFor(requests) /\ UNCHANGED <<reportVars, pinVars>>
    BY <2>1 DEF ChangeRequests
  <2>4. QED
    BY <2>2, <2>3
<1>4. ASSUME NEW t \in [1..Len(plan) -> PlanEntries], \A k \in 1..Len(plan) : t[k].id = plan[k].id
      PROVE  PlanOf(t, existing)
  BY <1>1, <1>4, SameIds DEF PlanOf
<1>5. CASE ToggleAll
  <2> DEFINE b == \A j \in DOMAIN plan : plan[j].enabled
             t == [k \in DOMAIN plan |-> [plan[k] EXCEPT !.enabled = ~(\A j \in DOMAIN plan : plan[j].enabled)]]
  <2>1. t \in [1..Len(plan) -> PlanEntries] /\ \A k \in 1..Len(plan) : t[k].id = plan[k].id
    <3>1. (~b) \in BOOLEAN
      OBVIOUS
    <3>2. ASSUME NEW k \in 1..Len(plan), NEW c \in BOOLEAN
          PROVE  [plan[k] EXCEPT !.enabled = c] \in PlanEntries /\ [plan[k] EXCEPT !.enabled = c].id = plan[k].id
      BY <1>1 DEF PlanEntries
    <3> HIDE DEF b
    <3>3. t = [k \in 1..Len(plan) |-> [plan[k] EXCEPT !.enabled = ~b]]
      BY <1>1 DEF b
    <3>4. QED
      BY <3>1, <3>2, <3>3
  <2>2. plan' = t /\ existing' = existing /\ UNCHANGED <<reportVars, pinVars>>
    BY <1>5 DEF ToggleAll
  <2> HIDE DEF t
  <2>3. PlanOf(t, existing)
    BY <1>4, <2>1
  <2>4. QED
    BY <2>2, <2>3 DEF PlanInv
<1>6. CASE \E k \in DOMAIN plan : Toggle(k)
  <2>1. PICK k \in 1..Len(plan) : Toggle(k)
    BY <1>1, <1>6
  <2> DEFINE t == [plan EXCEPT ![k].enabled = ~@]
  <2>2. t \in [1..Len(plan) -> PlanEntries] /\ \A j \in 1..Len(plan) : t[j].id = plan[j].id
    <3>1. plan \in [1..Len(plan) -> PlanEntries]
      BY <1>1
    <3>2. plan[k] \in PlanEntries /\ [plan[k] EXCEPT !.enabled = ~@] \in PlanEntries /\ [plan[k] EXCEPT !.enabled = ~@].id = plan[k].id
      BY <1>1 DEF PlanEntries
    <3>3. QED
      BY <3>1, <3>2
  <2>3. plan' = t /\ existing' = existing /\ UNCHANGED <<reportVars, pinVars>>
    BY <2>1 DEF Toggle
  <2> HIDE DEF t
  <2>4. PlanOf(t, existing)
    BY <1>4, <2>2
  <2>5. QED
    BY <2>3, <2>4 DEF PlanInv
<1>7. CASE \E k \in DOMAIN plan : DragStart(k)
  BY <1>7 DEF DragStart, PlanInv
<1>8. CASE \E k \in DOMAIN plan, to \in DOMAIN plan : MoveRequest(k, to)
  <2>0. PICK k \in DOMAIN plan, to \in DOMAIN plan : MoveRequest(k, to)
    BY <1>8
  <2>1. k \in 1..Len(plan) /\ to \in 1..Len(plan) /\ MoveRequest(k, to)
    BY <1>1, <2>0, Zenon
  <2> DEFINE t == RemoveAt(plan, k)
  <2>2. t \in Seq(PlanEntries) /\ Len(t) = Len(plan) - 1 /\ Distinct(t) /\ IdSet(t) = IdSet(plan) \ {plan[k].id}
    BY <1>1, <2>1, RemovedOnce, Zenon
  <2> HIDE DEF t
  <2>3. to \in 1..Len(t) + 1
    <3>1. Len(plan) \in Nat
      BY <1>1, LenProperties
    <3>2. QED
      BY <2>2, <3>1
  <2>4. plan[k] \in PlanEntries /\ plan[k].id \notin IdSet(t)
    BY <1>1, <2>2
  <2>5. /\ InsertAt(t, to, plan[k]) \in Seq(PlanEntries) /\ Distinct(InsertAt(t, to, plan[k]))
        /\ IdSet(InsertAt(t, to, plan[k])) = IdSet(t) \cup {plan[k].id}
    BY <2>2, <2>3, <2>4, InsertedOnce
  <2>6. plan[k].id \in IdSet(plan)
    BY DEF IdSet
  <2>7. PlanOf(InsertAt(t, to, plan[k]), existing)
    BY <1>1, <2>2, <2>5, <2>6 DEF PlanOf
  <2>8. plan' = InsertAt(t, to, plan[k]) /\ existing' = existing /\ UNCHANGED <<reportVars, pinVars>>
    BY <2>1 DEF MoveRequest, t
  <2>9. QED
    BY <2>7, <2>8 DEF PlanInv
<1>9. CASE \E r \in ToSet(existing), after \in BOOLEAN : DropRequest(r, after)
  <2>1. PICK r \in ToSet(existing), after \in BOOLEAN : DropRequest(r, after)
    BY <1>9
  <2>2. plan' = Reordered(dragged, r, after) /\ existing' = existing /\ UNCHANGED <<reportVars, pinVars>>
    BY <2>1 DEF DropRequest
  <2>3. PlanOf(Reordered(dragged, r, after), existing)
    BY ReorderFits
  <2>4. QED
    BY <2>2, <2>3 DEF PlanInv
<1>10. QED
  BY <1>3, <1>5, <1>6, <1>7, <1>8, <1>9

\* What PlanSound says of a step.
DeletedOnSecondClick == \A r \in reports \ reports' : lastClick = r
PinsOfTheirProject == \A p \in PlanProjects : pinStore'[p] # pinStore[p] => pinState.project = p

LEMMA ReportSteps ==
  ASSUME PlanInv, DeleteTimeout \/ \E r \in Reports : ClickDelete(r)
  PROVE  PlanInv' /\ DeletedOnSecondClick /\ UNCHANGED pinVars
<1>1. existing' = existing /\ plan' = plan /\ UNCHANGED pinVars
  BY DEF DeleteTimeout, ClickDelete, pinVars
<1>2. PendingFits' /\ DeletedOnSecondClick
  <2>1. CASE DeleteTimeout
    BY <2>1, PlanAssumption DEF DeleteTimeout, PendingFits, DeletedOnSecondClick
  <2>2. CASE \E r \in Reports : ClickDelete(r)
    BY <2>2, PlanAssumption DEF ClickDelete, Confirmed, PlanInv, PendingFits, DeletedOnSecondClick
  <2>3. QED
    BY <2>1, <2>2
<1>3. QED
  BY <1>1, <1>2 DEF PlanInv, pinVars

LEMMA PinSteps ==
  ASSUME PlanInv, LoadPins \/ PinEffect \/ (\E p \in PlanProjects : ShowProject(p)) \/ \E r \in PlanRequests : TogglePin(r)
  PROVE  PlanInv' /\ PinsOfTheirProject /\ UNCHANGED reportVars
<1>1. UNCHANGED <<existing, plan, reports, pendingId, lastClick>>
  BY DEF LoadPins, PinEffect, ShowProject, TogglePin, reportVars
<1>2. PinsOfTheirProject
  <2>1. CASE pinStore' = pinStore
    BY <2>1 DEF PinsOfTheirProject
  <2>2. CASE PinEffect
    BY <2>2 DEF PinEffect, StoresPins, PinsOfTheirProject, PlanInv
  <2>3. QED
    BY <2>1, <2>2 DEF LoadPins, ShowProject, TogglePin
<1>3. DOMAIN pinStore' = PlanProjects
  BY DEF LoadPins, PinEffect, ShowProject, TogglePin, PlanInv
<1>4. QED
  BY <1>1, <1>2, <1>3 DEF PlanInv, PendingFits, reportVars

LEMMA PlanInvInit == PlanInit => PlanInv
<1>1. SUFFICES ASSUME PlanInit PROVE PlanInv
  OBVIOUS
<1>2. OrderFits(existing)
  BY <1>1, OrdersFit DEF PlanInit
<1>3. PlanOf(plan, existing)
  BY <1>1, <1>2, EnabledOnce DEF PlanInit
<1>4. PendingFits
  BY <1>1, PlanAssumption DEF PlanInit, PendingFits
<1>5. QED
  BY <1>1, <1>2, <1>3, <1>4 DEF PlanInv, PlanInit

LEMMA PlanInvStep == PlanInv /\ [PlanNext]_planVars => PlanInv' /\ [DeletedOnSecondClick /\ PinsOfTheirProject]_planVars
<1>1. SUFFICES ASSUME PlanInv, [PlanNext]_planVars PROVE PlanInv' /\ [DeletedOnSecondClick /\ PinsOfTheirProject]_planVars
  OBVIOUS
<1>2. ASSUME UNCHANGED reportVars PROVE DeletedOnSecondClick
  BY <1>2 DEF reportVars, DeletedOnSecondClick
<1>3. ASSUME UNCHANGED pinVars PROVE PinsOfTheirProject
  BY <1>3 DEF pinVars, PinsOfTheirProject
<1>4. CASE \/ \E requests \in Orders : ChangeRequests(requests)
           \/ ToggleAll
           \/ \E k \in DOMAIN plan : Toggle(k) \/ DragStart(k) \/ \E to \in DOMAIN plan : MoveRequest(k, to)
           \/ \E r \in ToSet(existing), after \in BOOLEAN : DropRequest(r, after)
  BY <1>1, <1>2, <1>3, <1>4, PlanSteps
<1>5. CASE DeleteTimeout \/ \E r \in Reports : ClickDelete(r)
  BY <1>1, <1>3, <1>5, ReportSteps
<1>6. CASE LoadPins \/ PinEffect \/ (\E p \in PlanProjects : ShowProject(p)) \/ \E r \in PlanRequests : TogglePin(r)
  BY <1>1, <1>2, <1>6, PinSteps
<1>7. CASE UNCHANGED planVars
  BY <1>1, <1>7 DEF planVars, reportVars, pinVars, PlanInv, PendingFits
<1>8. QED
  BY <1>1, <1>4, <1>5, <1>6, <1>7 DEF PlanNext

\* The runner's page: the plan holds every request of the collection once
\* (reorderRunnerPlan and the effect that follows runnerRequests); a report is
\* deleted by a second click on it (requestDeleteReport); and what is stored
\* as a project's pins changes only while its pins are loaded (the pin effects).
THEOREM PlansStaySound == PlanSpec => PlanSound
<1>1. PlanInv => PlanExact
  <2>1. SUFFICES ASSUME PlanInv PROVE PlanExact
    OBVIOUS
  <2>2. ToSet(existing) = RequestSet(existing)
    BY <2>1, SetOf DEF PlanInv, OrderFits, RequestSet
  <2>3. QED
    BY <2>1, <2>2, IdsOf DEF PlanInv, PlanOf, PlanExact
<1>2. [DeletedOnSecondClick /\ PinsOfTheirProject]_planVars =>
      [/\ \A r \in reports \ reports' : lastClick = r
       /\ \A p \in PlanProjects : pinStore'[p] # pinStore[p] => pinState.project = p]_planVars
  BY DEF DeletedOnSecondClick, PinsOfTheirProject
<1>3. QED
  BY <1>1, <1>2, PlanInvInit, PlanInvStep, PTL DEF PlanSpec, PlanSound

(***************************************************************************)
(* The document tabs: TabsSound.                                           *)
(***************************************************************************)

TabDocuments == TabRequests \cup TabOthers
TabRecords == [id : TabDocuments, temporary : BOOLEAN]
TabStates == [tabs : Seq(TabRecords), active : TabDocuments \cup {Nothing}, history : Seq(TabDocuments),
              closed : Seq(TabDocuments), dashboard : BOOLEAN]

OneTemporary(tabs) == \A i, j \in 1..Len(tabs) : tabs[i].temporary /\ tabs[j].temporary => i = j

\* A strip of these documents, each once, with at most one temporary tab.
StripOf(tabs, valid) == /\ tabs \in Seq(TabRecords) /\ Distinct(tabs) /\ OneTemporary(tabs)
                        /\ IdSet(tabs) \subseteq valid
FitsIn(state, valid) == /\ state \in TabStates /\ StripOf(state.tabs, valid)
                        /\ state.active \in valid \cup {Nothing}

\* Entries that come from different places of s come from it in order or not.
DrawnFrom(t, s) == \A i, j \in 1..Len(t) : i # j => \E k, l \in 1..Len(s) : k # l /\ t[i] = s[k] /\ t[j] = s[l]

LEMMA DrawnTemporary ==
  ASSUME NEW s, NEW t, DrawnFrom(t, s), OneTemporary(s)
  PROVE  OneTemporary(t)
<1>1. SUFFICES ASSUME NEW i \in 1..Len(t), NEW j \in 1..Len(t), t[i].temporary, t[j].temporary, i # j PROVE FALSE
  BY DEF OneTemporary
<1>2. PICK k, l \in 1..Len(s) : k # l /\ t[i] = s[k] /\ t[j] = s[l]
  BY <1>1 DEF DrawnFrom
<1>3. QED
  BY <1>1, <1>2 DEF OneTemporary

\* What a filter keeps of a strip.
LEMMA PartOfStrip ==
  ASSUME NEW tabs, NEW valid, StripOf(tabs, valid), NEW places \in SUBSET (1..Len(tabs))
  PROVE  /\ StripOf(Part(tabs, places), {tabs[k].id : k \in places})
         /\ IdSet(Part(tabs, places)) = {tabs[k].id : k \in places}
<1> DEFINE e == EntriesAt(tabs, places)
<1>1. Part(tabs, places) = e
  BY DEF Part, EntriesAt
<1>2. tabs \in Seq(TabRecords) /\ Distinct(tabs) /\ OneTemporary(tabs)
  BY DEF StripOf
<1>3. e \in Seq(TabRecords) /\ Distinct(e) /\ IdSet(e) = {tabs[k].id : k \in places}
  BY <1>2, KeptOnce
<1>4. \A i, j \in 1..Len(e) : i # j => \E k, l \in places : k # l /\ e[i] = tabs[k] /\ e[j] = tabs[l]
  BY <1>2, EntriesAre
<1> HIDE DEF e
<1>5. OneTemporary(e)
  <2>1. DrawnFrom(e, tabs)
    BY <1>4 DEF DrawnFrom
  <2>2. QED
    BY <1>2, <2>1, DrawnTemporary
<1>6. QED
  BY <1>1, <1>3, <1>5 DEF StripOf

\* A filter, a concatenation and a cut of a sequence of documents.
LEMMA DropSet ==
  ASSUME NEW s \in Seq(TabDocuments), NEW ids
  PROVE  /\ Drop(s, ids) \in Seq(TabDocuments) /\ ToSet(Drop(s, ids)) = ToSet(s) \ ids
         /\ Keep(s, ids) \in Seq(TabDocuments) /\ ToSet(Keep(s, ids)) = ToSet(s) \cap ids
<1>1. DOMAIN s = 1..Len(s)
  OBVIOUS
<1>2. ASSUME NEW places \in SUBSET (1..Len(s))
      PROVE  Part(s, places) \in Seq(TabDocuments) /\ ToSet(Part(s, places)) = {s[k] : k \in places}
  <2> DEFINE e == EntriesAt(s, places)
  <2>1. Part(s, places) = e
    BY DEF Part, EntriesAt
  <2>2. /\ e \in Seq(TabDocuments)
        /\ \A i \in 1..Len(e) : \E k \in places : e[i] = s[k]
        /\ \A k \in places : \E i \in 1..Len(e) : e[i] = s[k]
    BY EntriesAre
  <2> HIDE DEF e
  <2>3. ToSet(e) = {e[i] : i \in 1..Len(e)}
    BY <2>2, SetOf
  <2>4. {e[i] : i \in 1..Len(e)} = {s[k] : k \in places}
    <3>1. \A i \in 1..Len(e) : e[i] \in {s[k] : k \in places}
      BY <2>2
    <3>2. \A k \in places : s[k] \in {e[i] : i \in 1..Len(e)}
      BY <2>2
    <3>3. QED
      BY <3>1, <3>2
  <2>5. QED
    BY <2>1, <2>2, <2>3, <2>4
<1>3. ToSet(s) = {s[k] : k \in 1..Len(s)}
  BY SetOf
<1>4. Drop(s, ids) \in Seq(TabDocuments) /\ ToSet(Drop(s, ids)) = ToSet(s) \ ids
  <2> DEFINE places == {k \in 1..Len(s) : s[k] \notin ids}
  <2>1. Drop(s, ids) = Part(s, places)
    BY <1>1 DEF Drop
  <2>2. Part(s, places) \in Seq(TabDocuments) /\ ToSet(Part(s, places)) = {s[k] : k \in places}
    BY <1>2
  <2>3. {s[k] : k \in places} = {s[k] : k \in 1..Len(s)} \ ids
    OBVIOUS
  <2>4. QED
    BY <2>1, <2>2, <2>3, <1>3
<1>5. Keep(s, ids) \in Seq(TabDocuments) /\ ToSet(Keep(s, ids)) = ToSet(s) \cap ids
  <2> DEFINE places == {k \in 1..Len(s) : s[k] \in ids}
  <2>1. Keep(s, ids) = Part(s, places)
    BY <1>1 DEF Keep
  <2>2. Part(s, places) \in Seq(TabDocuments) /\ ToSet(Part(s, places)) = {s[k] : k \in places}
    BY <1>2
  <2>3. {s[k] : k \in places} = {s[k] : k \in 1..Len(s)} \cap ids
    OBVIOUS
  <2>4. QED
    BY <2>1, <2>2, <2>3, <1>3
<1>6. QED
  BY <1>4, <1>5

LEMMA CutSet ==
  ASSUME NEW s \in Seq(TabDocuments), NEW n \in Nat
  PROVE  /\ Newest(s, n) \in Seq(TabDocuments) /\ ToSet(Newest(s, n)) \subseteq ToSet(s)
         /\ Latest(s, n) \in Seq(TabDocuments) /\ ToSet(Latest(s, n)) \subseteq ToSet(s)
<1>1. Len(s) \in Nat /\ \A k \in 1..Len(s) : s[k] \in TabDocuments
  BY LenProperties, ElementOfSeq
<1>2. ASSUME NEW a \in 1..Len(s) + 1, NEW b \in 0..Len(s)
      PROVE  SubSeq(s, a, b) \in Seq(TabDocuments) /\ ToSet(SubSeq(s, a, b)) \subseteq ToSet(s)
  <2> DEFINE t == SubSeq(s, a, b)
  <2>1. a \in Int /\ b \in Int /\ a >= 1 /\ b <= Len(s)
    BY <1>1
  <2>2. \A k \in a..b : k \in 1..Len(s) /\ s[k] \in TabDocuments
    BY <1>1, <2>1
  <2>3. /\ t \in Seq(TabDocuments) /\ Len(t) = IF a <= b THEN b - a + 1 ELSE 0
        /\ \A k \in 1..b - a + 1 : t[k] = s[a + k - 1]
    BY <2>1, <2>2, SubSeqProperties
  <2> HIDE DEF t
  <2>4. ASSUME NEW k \in 1..Len(t) PROVE t[k] \in {s[j] : j \in 1..Len(s)}
    <3>1. a <= b /\ Len(t) = b - a + 1
      BY <2>1, <2>3, <2>4
    <3>2. k \in 1..b - a + 1 /\ a + k - 1 \in 1..Len(s)
      BY <1>1, <2>1, <3>1
    <3>3. QED
      BY <2>3, <3>2
  <2>5. ToSet(t) = {t[k] : k \in 1..Len(t)} /\ ToSet(s) = {s[k] : k \in 1..Len(s)}
    BY <2>3, SetOf
  <2>6. QED
    BY <2>3, <2>4, <2>5 DEF t
<1>3. (IF Len(s) < n THEN Len(s) ELSE n) \in 0..Len(s) /\ 1 \in 1..Len(s) + 1
  BY <1>1
<1>4. (IF Len(s) > n THEN Len(s) - n + 1 ELSE 1) \in 1..Len(s) + 1 /\ Len(s) \in 0..Len(s)
  BY <1>1
<1>5. QED
  BY <1>2, <1>3, <1>4 DEF Newest, Latest

LEMMA JoinSet ==
  ASSUME NEW a \in Seq(TabDocuments), NEW b \in Seq(TabDocuments)
  PROVE  a \o b \in Seq(TabDocuments) /\ ToSet(a \o b) \subseteq ToSet(a) \cup ToSet(b)
<1>1. /\ Len(a) \in Nat /\ Len(b) \in Nat /\ a \o b \in Seq(TabDocuments) /\ Len(a \o b) = Len(a) + Len(b)
      /\ \A i \in 1..Len(a) + Len(b) : (a \o b)[i] = IF i <= Len(a) THEN a[i] ELSE b[i - Len(a)]
  BY ConcatProperties, LenProperties
<1>2. /\ ToSet(a) = {a[k] : k \in 1..Len(a)} /\ ToSet(b) = {b[k] : k \in 1..Len(b)}
      /\ ToSet(a \o b) = {(a \o b)[k] : k \in 1..Len(a \o b)}
  BY <1>1, SetOf
<1>3. ASSUME NEW i \in 1..Len(a \o b)
      PROVE  (a \o b)[i] \in {a[k] : k \in 1..Len(a)} \cup {b[k] : k \in 1..Len(b)}
  <2>1. i \in 1..Len(a) + Len(b)
    BY <1>1
  <2>2. CASE i <= Len(a)
    <3>1. i \in 1..Len(a) /\ (a \o b)[i] = a[i]
      BY <1>1, <2>1, <2>2
    <3>2. QED
      BY <3>1
  <2>3. CASE i > Len(a)
    <3>1. i - Len(a) \in 1..Len(b) /\ (a \o b)[i] = b[i - Len(a)]
      BY <1>1, <2>1, <2>3
    <3>2. QED
      BY <3>1
  <2>4. QED
    BY <2>1, <2>2, <2>3, <1>1
<1>4. QED
  BY <1>1, <1>2, <1>3

LEMMA StripIds ==
  ASSUME NEW tabs, NEW valid, StripOf(tabs, valid)
  PROVE  /\ TabIds(tabs) = IdSet(tabs) /\ DOMAIN tabs = 1..Len(tabs) /\ Len(tabs) \in Nat
         /\ \A k \in 1..Len(tabs) : tabs[k] \in TabRecords /\ tabs[k].id \in IdSet(tabs)
         /\ IdSet(tabs) \subseteq TabDocuments /\ (IdSet(tabs) = {} <=> tabs = <<>>)
         /\ IdSeq(tabs) \in Seq(TabDocuments) /\ ToSet(IdSeq(tabs)) = IdSet(tabs)
<1>1. tabs \in Seq(TabRecords)
  BY DEF StripOf
<1>2. DOMAIN tabs = 1..Len(tabs) /\ Len(tabs) \in Nat /\ \A k \in 1..Len(tabs) : tabs[k] \in TabRecords
  BY <1>1, LenProperties, ElementOfSeq
<1>3. TabIds(tabs) = IdSet(tabs) /\ \A k \in 1..Len(tabs) : tabs[k].id \in IdSet(tabs)
  BY <1>2 DEF TabIds, IdSet
<1>4. IdSet(tabs) \subseteq TabDocuments
  BY <1>2 DEF IdSet, TabRecords
<1>5. IdSet(tabs) = {} <=> tabs = <<>>
  <2>1. ASSUME tabs = <<>> PROVE IdSet(tabs) = {}
    BY <2>1 DEF IdSet
  <2>2. ASSUME tabs # <<>> PROVE IdSet(tabs) # {}
    <3>1. 1 \in 1..Len(tabs)
      BY <1>1, <2>2
    <3>2. QED
      BY <3>1, <1>3
  <2>3. QED
    BY <2>1, <2>2
<1> DEFINE q == [k \in 1..Len(tabs) |-> tabs[k].id]
<1>6. q \in [1..Len(tabs) -> TabDocuments]
  BY <1>2 DEF TabRecords
<1>7. q \in Seq(TabDocuments) /\ Len(q) = Len(tabs)
  BY <1>2, <1>6, FunctionIsSeq
<1>8. \A k \in 1..Len(tabs) : q[k] = tabs[k].id
  OBVIOUS
<1>9. IdSeq(tabs) = q
  BY <1>2 DEF IdSeq
<1> HIDE DEF q
<1>10. ToSet(q) = {q[k] : k \in 1..Len(q)}
  BY <1>7, SetOf
<1>11. ToSet(q) = IdSet(tabs)
  BY <1>7, <1>8, <1>10 DEF IdSet
<1>12. QED
  BY <1>2, <1>3, <1>4, <1>5, <1>7, <1>9, <1>11

\* What TabsSound says of a settled strip, but for the request in the editor.
Clean(state, valid) ==
    /\ IdSet(state.tabs) \subseteq valid /\ (state.dashboard <=> IdSet(state.tabs) = {})
    /\ IF IdSet(state.tabs) = {} THEN state.active = Nothing ELSE state.active \in IdSet(state.tabs)
    /\ ToSet(state.history) \subseteq IdSet(state.tabs) \ {state.active}
    /\ ToSet(state.closed) \subseteq valid \ IdSet(state.tabs)

LEMMA StateFields ==
  ASSUME NEW state, NEW valid, FitsIn(state, valid)
  PROVE  /\ StripOf(state.tabs, valid) /\ state.active \in TabDocuments \cup {Nothing}
         /\ state.history \in Seq(TabDocuments) /\ state.closed \in Seq(TabDocuments)
         /\ state.dashboard \in BOOLEAN
<1>1. state \in TabStates /\ StripOf(state.tabs, valid)
  BY DEF FitsIn
<1>2. /\ state.active \in TabDocuments \cup {Nothing} /\ state.history \in Seq(TabDocuments)
      /\ state.closed \in Seq(TabDocuments) /\ state.dashboard \in BOOLEAN
  BY <1>1 DEF TabStates
<1>3. QED
  BY <1>1, <1>2

\* The history of a tab that is activated.
ActivatedHistory(state, id) ==
    IF state.active \in TabIds(state.tabs) THEN <<state.active>> \o Drop(state.history, {state.active, id})
    ELSE Drop(state.history, {id})

LEMMA HistoryFits ==
  ASSUME NEW state, NEW valid, FitsIn(state, valid), NEW id
  PROVE  /\ Newest(ActivatedHistory(state, id), MaxTabHistory) \in Seq(TabDocuments)
         /\ ToSet(Newest(ActivatedHistory(state, id), MaxTabHistory))
               \subseteq (ToSet(state.history) \ {id}) \cup ({state.active} \cap IdSet(state.tabs))
<1> DEFINE h == ActivatedHistory(state, id)
<1>1. /\ StripOf(state.tabs, valid) /\ state.history \in Seq(TabDocuments)
      /\ TabIds(state.tabs) = IdSet(state.tabs) /\ IdSet(state.tabs) \subseteq TabDocuments
  BY StateFields, StripIds
<1>2. /\ h \in Seq(TabDocuments)
      /\ ToSet(h) \subseteq (ToSet(state.history) \ {id}) \cup ({state.active} \cap IdSet(state.tabs))
  <2>1. CASE state.active \in IdSet(state.tabs)
    <3> DEFINE a == <<state.active>>
               d == Drop(state.history, {state.active, id})
    <3>1. a \in Seq(TabDocuments) /\ ToSet(a) = {state.active}
      <4>1. state.active \in TabDocuments
        BY <1>1, <2>1
      <4>2. a \in Seq(TabDocuments) /\ Len(a) = 1 /\ a[1] = state.active
        BY <4>1
      <4>3. ToSet(a) = {a[k] : k \in 1..Len(a)}
        BY <4>2, SetOf
      <4> HIDE DEF a
      <4>4. QED
        BY <4>2, <4>3
    <3>2. d \in Seq(TabDocuments) /\ ToSet(d) = ToSet(state.history) \ {state.active, id}
      BY <1>1, DropSet
    <3> HIDE DEF a, d
    <3>3. a \o d \in Seq(TabDocuments) /\ ToSet(a \o d) \subseteq ToSet(a) \cup ToSet(d)
      BY <3>1, <3>2, JoinSet
    <3>4. h = a \o d
      BY <1>1, <2>1 DEF ActivatedHistory, a, d
    <3>5. QED
      BY <2>1, <3>1, <3>2, <3>3, <3>4
  <2>2. CASE state.active \notin IdSet(state.tabs)
    <3>1. h = Drop(state.history, {id})
      BY <1>1, <2>2 DEF ActivatedHistory
    <3>2. QED
      BY <1>1, <3>1, DropSet
  <2>3. QED
    BY <2>1, <2>2
<1> HIDE DEF h
<1>3. Newest(h, MaxTabHistory) \in Seq(TabDocuments) /\ ToSet(Newest(h, MaxTabHistory)) \subseteq ToSet(h)
  BY <1>2, CutSet, TabsAssumption
<1>4. QED
  BY <1>2, <1>3 DEF h

\* Activating a tab, field by field.
LEMMA ActivateFields ==
  ASSUME NEW state, NEW valid, FitsIn(state, valid), NEW id
  PROVE  /\ FitsIn(Activate(state, id), valid) /\ Activate(state, id).tabs = state.tabs
         /\ id \notin IdSet(state.tabs) => Activate(state, id) = state
         /\ id \in IdSet(state.tabs) =>
              /\ Activate(state, id).active = id /\ Activate(state, id).dashboard = FALSE
              /\ ToSet(Activate(state, id).closed) = ToSet(state.closed) \ {id}
              /\ ToSet(Activate(state, id).history)
                    \subseteq IF state.active = id THEN ToSet(state.history)
                              ELSE (ToSet(state.history) \ {id}) \cup ({state.active} \cap IdSet(state.tabs))
<1>1. /\ StripOf(state.tabs, valid) /\ state.history \in Seq(TabDocuments) /\ state.closed \in Seq(TabDocuments)
      /\ TabIds(state.tabs) = IdSet(state.tabs) /\ IdSet(state.tabs) \subseteq TabDocuments
      /\ IdSet(state.tabs) \subseteq valid
  BY StateFields, StripIds DEF StripOf
<1> DEFINE h == IF state.active = id THEN state.history ELSE Newest(ActivatedHistory(state, id), MaxTabHistory)
           c == Drop(state.closed, {id})
<1>2. c \in Seq(TabDocuments) /\ ToSet(c) = ToSet(state.closed) \ {id}
  BY <1>1, DropSet
<1>3. /\ h \in Seq(TabDocuments)
      /\ ToSet(h) \subseteq IF state.active = id THEN ToSet(state.history)
                            ELSE (ToSet(state.history) \ {id}) \cup ({state.active} \cap IdSet(state.tabs))
  BY <1>1, HistoryFits
<1>4. Activate(state, id) = IF id \notin IdSet(state.tabs) THEN state
                            ELSE [state EXCEPT !.active = id, !.closed = c, !.dashboard = FALSE, !.history = h]
  BY <1>1 DEF Activate, ActivatedHistory
<1> HIDE DEF h, c
<1>5. CASE id \notin IdSet(state.tabs)
  BY <1>4, <1>5
<1>6. CASE id \in IdSet(state.tabs)
  <2> DEFINE a == [state EXCEPT !.active = id, !.closed = c, !.dashboard = FALSE, !.history = h]
  <2>1. id \in TabDocuments /\ id \in valid
    BY <1>1, <1>6
  <2>2. /\ a \in TabStates /\ a.tabs = state.tabs /\ a.active = id /\ a.dashboard = FALSE
        /\ a.closed = c /\ a.history = h
    BY <1>2, <1>3, <2>1 DEF FitsIn, TabStates
  <2> HIDE DEF a
  <2>3. FitsIn(a, valid)
    BY <1>1, <2>1, <2>2 DEF FitsIn
  <2>4. Activate(state, id) = a
    BY <1>4, <1>6 DEF a
  <2>5. QED
    BY <1>2, <1>3, <1>6, <2>2, <2>3, <2>4
<1>7. QED
  BY <1>5, <1>6

LEMMA FitsMore ==
  ASSUME NEW state, NEW valid, NEW more, FitsIn(state, valid), valid \subseteq more
  PROVE  FitsIn(state, more)
BY DEF FitsIn, StripOf

\* A strip of one temporary tab.
LEMMA OneTab ==
  ASSUME NEW id \in TabDocuments, NEW temporary \in BOOLEAN, NEW valid, id \in valid
  PROVE  LET tabs == <<[id |-> id, temporary |-> temporary]>>
         IN StripOf(tabs, valid) /\ IdSet(tabs) = {id} /\ tabs # <<>>
<1> DEFINE r == [id |-> id, temporary |-> temporary]
<1>1. r \in TabRecords /\ r.id = id
  BY DEF TabRecords
<1> HIDE DEF r
<1> DEFINE tabs == <<r>>
<1>2. tabs \in Seq(TabRecords) /\ Len(tabs) = 1 /\ tabs[1] = r /\ tabs # <<>>
  BY <1>1
<1> HIDE DEF tabs
<1>3. IdSet(tabs) = {id}
  BY <1>1, <1>2 DEF IdSet
<1>4. Distinct(tabs) /\ OneTemporary(tabs)
  BY <1>2 DEF Distinct, OneTemporary
<1>5. QED
  BY <1>2, <1>3, <1>4 DEF StripOf, tabs, r

\* What the effect leaves is a strip of the documents that a user can work with.
LEMMA Reconciles ==
  ASSUME NEW state, FitsIn(state, TabDocuments), NEW valid \in SUBSET TabDocuments, NEW fallback \in valid
  PROVE  FitsIn(Reconcile(state, valid, fallback), valid) /\ Clean(Reconcile(state, valid, fallback), valid)
<1>1. /\ StripOf(state.tabs, TabDocuments) /\ state.active \in TabDocuments \cup {Nothing}
      /\ state.history \in Seq(TabDocuments) /\ state.closed \in Seq(TabDocuments)
      /\ state.dashboard \in BOOLEAN
  BY StateFields
<1> DEFINE places == {k \in DOMAIN state.tabs : state.tabs[k].id \in valid}
           kept == Part(state.tabs, places)
           tabs == IF kept = <<>> /\ ~state.dashboard /\ fallback \in valid
                   THEN <<[id |-> fallback, temporary |-> TRUE]>> ELSE kept
           ids == IdSet(tabs)
           active == CASE state.active \in TabIds(tabs) -> state.active
                       [] state.active \notin TabIds(tabs) /\ fallback \in TabIds(tabs) -> fallback
                       [] OTHER -> IF tabs = <<>> THEN Nothing ELSE tabs[1].id
           past == Drop(Keep(state.history, TabIds(tabs)), {active})
           closed == Drop(Keep(state.closed, valid), TabIds(tabs))
           dashboard == state.dashboard /\ kept = <<>>
<1>2. StripOf(kept, valid)
  <2>1. places \in SUBSET (1..Len(state.tabs))
    BY <1>1, StripIds
  <2>2. StripOf(kept, {state.tabs[k].id : k \in places})
    BY <1>1, <2>1, PartOfStrip
  <2>3. {state.tabs[k].id : k \in places} \subseteq valid
    OBVIOUS
  <2>4. QED
    BY <2>2, <2>3 DEF StripOf
<1> HIDE DEF places, kept
<1>3. StripOf(tabs, valid) /\ (tabs = <<>> => dashboard) /\ (tabs # <<>> => ~dashboard)
  <2>1. CASE kept = <<>> /\ ~state.dashboard
    BY <1>1, <2>1, OneTab
  <2>2. CASE ~(kept = <<>> /\ ~state.dashboard)
    BY <1>1, <1>2, <2>2
  <2>3. QED
    BY <2>1, <2>2
<1>4. Reconcile(state, valid, fallback) =
        [tabs |-> tabs, active |-> active, history |-> past, closed |-> closed, dashboard |-> dashboard]
  BY DEF Reconcile, places, kept
<1>5. dashboard \in BOOLEAN
  BY <1>1
<1> HIDE DEF tabs, dashboard
<1>6. /\ TabIds(tabs) = ids /\ (ids = {} <=> tabs = <<>>) /\ Len(tabs) \in Nat /\ tabs \in Seq(TabRecords)
      /\ \A k \in 1..Len(tabs) : tabs[k].id \in ids
      /\ ids \subseteq valid
  BY <1>3, StripIds DEF StripOf
<1>7. tabs # <<>> => 1 \in 1..Len(tabs)
  BY <1>6
<1>8. IF ids = {} THEN active = Nothing ELSE active \in ids
  <2>1. CASE tabs = <<>>
    BY <1>6, <2>1
  <2>2. CASE tabs # <<>>
    BY <1>6, <1>7, <2>2
  <2>3. QED
    BY <2>1, <2>2
<1> HIDE DEF active
<1>9. past \in Seq(TabDocuments) /\ ToSet(past) \subseteq ids \ {active}
  BY <1>1, <1>6, DropSet
<1>10. closed \in Seq(TabDocuments) /\ ToSet(closed) \subseteq valid \ ids
  BY <1>1, <1>6, DropSet
<1> HIDE DEF past, closed, ids
<1> DEFINE r == [tabs |-> tabs, active |-> active, history |-> past, closed |-> closed, dashboard |-> dashboard]
<1>11. r \in TabStates /\ r.tabs = tabs /\ r.active = active /\ r.history = past /\ r.closed = closed
       /\ r.dashboard = dashboard
  BY <1>5, <1>6, <1>8, <1>9, <1>10 DEF TabStates
<1> HIDE DEF r
<1>12. FitsIn(r, valid)
  BY <1>3, <1>6, <1>8, <1>11 DEF FitsIn
<1>13. Clean(r, valid)
  <2>1. IdSet(r.tabs) = ids /\ (r.dashboard <=> ids = {})
    BY <1>3, <1>5, <1>6, <1>11 DEF ids
  <2>2. QED
    BY <2>1, <1>6, <1>8, <1>9, <1>10, <1>11 DEF Clean
<1>14. QED
  BY <1>4, <1>12, <1>13 DEF r

LEMMA FirstPlaceIs ==
  ASSUME NEW n \in Nat, NEW places \in SUBSET (1..n)
  PROVE  /\ FirstPlace(places) \in 0..n
         /\ FirstPlace(places) = 0 <=> places = {}
         /\ places # {} => FirstPlace(places) \in places
<1>1. CASE places = {}
  BY <1>1 DEF FirstPlace
<1>2. CASE places # {}
  <2>1. \E k \in places : \A j \in places : k <= j
    <3>1. IsFiniteSet(places) /\ Cardinality(places) \in Nat
      BY PlacesRanked
    <3>2. Cardinality(places) # 0
      BY <1>2, <3>1, FS_EmptySet
    <3>3. 1 \in 1..Cardinality(places)
      BY <3>1, <3>2
    <3>4. PICK k \in places : Cardinality(Below(places, k)) = 1 - 1
      BY <3>3, PlacesRanked
    <3>5. Below(places, k) \in SUBSET places
      BY DEF Below
    <3>6. IsFiniteSet(Below(places, k))
      BY <3>1, <3>5, FS_Subset
    <3>7. Below(places, k) = {}
      BY <3>4, <3>6, FS_EmptySet
    <3>8. \A j \in places : ~(j < k) /\ j \in Int /\ k \in Int
      BY <3>7 DEF Below
    <3>9. \A j \in places : k <= j
      BY <3>8
    <3>10. QED
      BY <3>9
  <2>2. FirstPlace(places) \in places
    BY <1>2, <2>1 DEF FirstPlace
  <2>3. FirstPlace(places) \in 1..n
    BY <2>2
  <2>4. QED
    BY <1>2, <2>2, <2>3
<1>3. QED
  BY <1>1, <1>2

\* The temporary tab is replaced by another one.
PutTab(tabs, slot, id) == [tabs EXCEPT ![slot] = [id |-> id, temporary |-> TRUE]]

LEMMA PutAt ==
  ASSUME NEW tabs, NEW valid \in SUBSET TabDocuments, StripOf(tabs, valid),
         NEW slot \in 1..Len(tabs), tabs[slot].temporary, NEW id \in valid, id \notin IdSet(tabs)
  PROVE  /\ StripOf(PutTab(tabs, slot, id), valid)
         /\ IdSet(PutTab(tabs, slot, id)) = (IdSet(tabs) \ {tabs[slot].id}) \cup {id}
<1> DEFINE r == [id |-> id, temporary |-> TRUE]
           n == Len(tabs)
           put == [tabs EXCEPT ![slot] = r]
<1>1. /\ tabs \in Seq(TabRecords) /\ n \in Nat /\ DOMAIN tabs = 1..n
      /\ \A k \in 1..n : tabs[k] \in TabRecords /\ tabs[k].id \in IdSet(tabs)
      /\ IdSet(tabs) \subseteq valid
  BY StripIds DEF StripOf
<1>2. r \in TabRecords /\ r.id = id /\ r.temporary = TRUE
  BY DEF TabRecords
<1> HIDE DEF r
<1>3. put \in Seq(TabRecords) /\ Len(put) = n /\ \A k \in 1..n : put[k] = IF k = slot THEN r ELSE tabs[k]
  <2>1. put \in [1..n -> TabRecords] /\ \A k \in 1..n : put[k] = IF k = slot THEN r ELSE tabs[k]
    BY <1>1, <1>2
  <2> HIDE DEF put
  <2>2. QED
    BY <1>1, <2>1, FunctionIsSeq
<1> HIDE DEF n, put
<1>4. ASSUME NEW i \in 1..n, NEW j \in 1..n, put[i].id = put[j].id PROVE i = j
  <2>1. CASE i = slot /\ j # slot
    BY <1>1, <1>2, <1>3, <1>4, <2>1
  <2>2. CASE i # slot /\ j = slot
    BY <1>1, <1>2, <1>3, <1>4, <2>2
  <2>3. CASE i # slot /\ j # slot
    BY <1>3, <1>4, <2>3 DEF StripOf, Distinct, n
  <2>4. QED
    BY <2>1, <2>2, <2>3
<1>5. ASSUME NEW i \in 1..n, NEW j \in 1..n, put[i].temporary, put[j].temporary PROVE i = j
  <2>1. \A k \in 1..n : k # slot => ~tabs[k].temporary
    BY DEF StripOf, OneTemporary, n
  <2>2. i = slot /\ j = slot
    BY <1>3, <1>5, <2>1
  <2>3. QED
    BY <2>2
<1>6. IdSet(put) = (IdSet(tabs) \ {tabs[slot].id}) \cup {id}
  <2>1. ASSUME NEW x \in IdSet(put) PROVE x \in (IdSet(tabs) \ {tabs[slot].id}) \cup {id}
    <3>1. PICK k \in 1..n : x = put[k].id
      BY <2>1, <1>3 DEF IdSet
    <3>2. CASE k = slot
      BY <3>1, <3>2, <1>2, <1>3
    <3>3. CASE k # slot
      <4>1. x = tabs[k].id /\ tabs[k].id # tabs[slot].id
        BY <3>1, <3>3, <1>3 DEF StripOf, Distinct, n
      <4>2. QED
        BY <4>1, <1>1
    <3>4. QED
      BY <3>2, <3>3
  <2>2. ASSUME NEW x \in IdSet(tabs), x # tabs[slot].id PROVE x \in IdSet(put)
    <3>1. PICK k \in 1..n : x = tabs[k].id
      BY <2>2 DEF IdSet, n
    <3>2. k # slot
      BY <2>2, <3>1
    <3>3. x = put[k].id
      BY <3>1, <3>2, <1>3
    <3>4. QED
      BY <3>3, <1>3 DEF IdSet
  <2>3. id \in IdSet(put)
    <3>1. slot \in 1..Len(put) /\ put[slot].id = id
      BY <1>2, <1>3 DEF n
    <3>2. QED
      BY <3>1 DEF IdSet
  <2>4. QED
    BY <2>1, <2>2, <2>3
<1>7. Distinct(put) /\ OneTemporary(put)
  BY <1>3, <1>4, <1>5 DEF Distinct, OneTemporary
<1>8. QED
  BY <1>1, <1>3, <1>6, <1>7 DEF StripOf, put, r, PutTab

\* One more tab at the end.
LEMMA AddTab ==
  ASSUME NEW tabs, NEW valid \in SUBSET TabDocuments, StripOf(tabs, valid), NEW temporary \in BOOLEAN,
         NEW id \in valid, id \notin IdSet(tabs), temporary => \A k \in 1..Len(tabs) : ~tabs[k].temporary
  PROVE  LET added == Append(tabs, [id |-> id, temporary |-> temporary])
         IN StripOf(added, valid) /\ IdSet(added) = IdSet(tabs) \cup {id}
<1> DEFINE r == [id |-> id, temporary |-> temporary]
           n == Len(tabs)
           added == Append(tabs, r)
<1>1. /\ tabs \in Seq(TabRecords) /\ n \in Nat
      /\ \A k \in 1..n : tabs[k] \in TabRecords /\ tabs[k].id \in IdSet(tabs)
      /\ IdSet(tabs) \subseteq valid
  BY StripIds DEF StripOf
<1>2. r \in TabRecords /\ r.id = id /\ r.temporary = temporary
  BY DEF TabRecords
<1> HIDE DEF r
<1>3. /\ added \in Seq(TabRecords) /\ Len(added) = n + 1
      /\ added[n + 1] = r /\ \A k \in 1..n : added[k] = tabs[k]
  BY <1>1, <1>2, AppendProperties
<1> HIDE DEF added, n
<1>4. \A k \in 1..n + 1 : k \in 1..n \/ k = n + 1
  BY <1>1
<1>5. (\A k \in 1..n : k \in 1..n + 1) /\ n + 1 \in 1..n + 1
  BY <1>1
<1>6. ASSUME NEW i \in 1..n + 1, NEW j \in 1..n + 1, added[i].id = added[j].id PROVE i = j
  <2>1. CASE i \in 1..n /\ j \in 1..n
    BY <2>1, <1>3, <1>6 DEF StripOf, Distinct, n
  <2>2. CASE i = n + 1 /\ j \in 1..n
    BY <2>2, <1>1, <1>2, <1>3, <1>6
  <2>3. CASE i \in 1..n /\ j = n + 1
    BY <2>3, <1>1, <1>2, <1>3, <1>6
  <2>4. QED
    BY <1>4, <2>1, <2>2, <2>3
<1>7. ASSUME NEW i \in 1..n + 1, NEW j \in 1..n + 1, added[i].temporary, added[j].temporary PROVE i = j
  <2>1. CASE i \in 1..n /\ j \in 1..n
    BY <2>1, <1>3, <1>7 DEF StripOf, OneTemporary, n
  <2>2. CASE i = n + 1 /\ j \in 1..n
    BY <2>2, <1>2, <1>3, <1>7 DEF n
  <2>3. CASE i \in 1..n /\ j = n + 1
    BY <2>3, <1>2, <1>3, <1>7 DEF n
  <2>4. QED
    BY <1>4, <2>1, <2>2, <2>3
<1>8. IdSet(added) = IdSet(tabs) \cup {id}
  <2>1. ASSUME NEW x \in IdSet(added) PROVE x \in IdSet(tabs) \cup {id}
    <3>1. PICK k \in 1..n + 1 : x = added[k].id
      BY <2>1, <1>3 DEF IdSet
    <3>2. QED
      BY <3>1, <1>1, <1>2, <1>3, <1>4
  <2>2. ASSUME NEW x \in IdSet(tabs) PROVE x \in IdSet(added)
    <3>1. PICK k \in 1..n : x = tabs[k].id
      BY <2>2 DEF IdSet, n
    <3>2. k \in 1..Len(added) /\ x = added[k].id
      BY <3>1, <1>3, <1>5
    <3>3. QED
      BY <3>2 DEF IdSet
  <2>3. id \in IdSet(added)
    <3>1. n + 1 \in 1..Len(added) /\ added[n + 1].id = id
      BY <1>2, <1>3, <1>5
    <3>2. QED
      BY <3>1 DEF IdSet
  <2>4. QED
    BY <2>1, <2>2, <2>3
<1>9. Distinct(added) /\ OneTemporary(added)
  BY <1>3, <1>6, <1>7 DEF Distinct, OneTemporary
<1>10. QED
  BY <1>1, <1>3, <1>8, <1>9 DEF StripOf, added, r

\* A tab that is no longer temporary.
LEMMA PermanentStrip ==
  ASSUME NEW tabs, NEW valid, StripOf(tabs, valid), NEW id
  PROVE  StripOf(Permanent(tabs, id), valid) /\ IdSet(Permanent(tabs, id)) = IdSet(tabs)
<1> DEFINE n == Len(tabs)
           r(k) == IF tabs[k].id = id THEN [tabs[k] EXCEPT !.temporary = FALSE] ELSE tabs[k]
           p == [k \in 1..n |-> r(k)]
<1>1. /\ tabs \in Seq(TabRecords) /\ n \in Nat /\ DOMAIN tabs = 1..n
      /\ \A k \in 1..n : tabs[k] \in TabRecords
  BY StripIds DEF StripOf
<1>2. \A k \in 1..n : r(k) \in TabRecords /\ r(k).id = tabs[k].id /\ (r(k).temporary => tabs[k].temporary)
  BY <1>1 DEF TabRecords
<1>3. p = Permanent(tabs, id)
  BY <1>1 DEF Permanent
<1> HIDE DEF r
<1>4. p \in [1..n -> TabRecords] /\ \A k \in 1..n : p[k] = r(k)
  BY <1>2
<1> HIDE DEF p
<1>5. p \in Seq(TabRecords) /\ Len(p) = n
  BY <1>1, <1>4, FunctionIsSeq
<1>6. Distinct(p) /\ OneTemporary(p)
  BY <1>2, <1>4, <1>5 DEF StripOf, Distinct, OneTemporary
<1>7. IdSet(p) = IdSet(tabs)
  BY <1>2, <1>4, <1>5 DEF IdSet
<1>8. QED
  BY <1>3, <1>5, <1>6, <1>7 DEF StripOf

\* A state with another strip and history.
WithStrip(state, tabs, past) == [state EXCEPT !.tabs = tabs, !.history = past]

LEMMA WithTabs ==
  ASSUME NEW state, NEW valid, FitsIn(state, valid), NEW tabs, StripOf(tabs, valid),
         NEW past \in Seq(TabDocuments)
  PROVE  /\ FitsIn(WithStrip(state, tabs, past), valid) /\ WithStrip(state, tabs, past).tabs = tabs
         /\ WithStrip(state, tabs, past).history = past
         /\ WithStrip(state, tabs, past).active = state.active
         /\ WithStrip(state, tabs, past).closed = state.closed
<1> DEFINE s == WithStrip(state, tabs, past)
<1>1. tabs \in Seq(TabRecords)
  BY DEF StripOf
<1>2. /\ s \in TabStates /\ s.tabs = tabs /\ s.history = past /\ s.active = state.active
      /\ s.closed = state.closed
  BY <1>1 DEF FitsIn, TabStates, WithStrip
<1> HIDE DEF s
<1>3. FitsIn(s, valid)
  BY <1>2 DEF FitsIn
<1>4. QED
  BY <1>2, <1>3 DEF s

LEMMA OnlyTabs ==
  ASSUME NEW state, NEW valid, FitsIn(state, valid), NEW tabs, StripOf(tabs, valid)
  PROVE  FitsIn([state EXCEPT !.tabs = tabs], valid)
<1>1. tabs \in Seq(TabRecords)
  BY DEF StripOf
<1> DEFINE s == [state EXCEPT !.tabs = tabs]
<1>2. s \in TabStates /\ s.tabs = tabs /\ s.active = state.active
  BY <1>1 DEF FitsIn, TabStates
<1> HIDE DEF s
<1>3. FitsIn(s, valid)
  BY <1>2 DEF FitsIn
<1>4. QED
  BY <1>3 DEF s

\* Activating a tab of a strip a user can work with leaves such a strip.
LEMMA ActivateClean ==
  ASSUME NEW state, NEW valid, FitsIn(state, valid), NEW id \in IdSet(state.tabs),
         ToSet(state.history) \subseteq IdSet(state.tabs), state.active = id => id \notin ToSet(state.history),
         ToSet(state.closed) \subseteq valid \ (IdSet(state.tabs) \ {id})
  PROVE  Clean(Activate(state, id), valid) /\ Activate(state, id).active = id
<1>1. IdSet(state.tabs) \subseteq valid
  BY DEF FitsIn, StripOf
<1> DEFINE a == Activate(state, id)
<1>2. /\ a.tabs = state.tabs /\ a.active = id /\ a.dashboard = FALSE
      /\ ToSet(a.closed) = ToSet(state.closed) \ {id}
      /\ ToSet(a.history) \subseteq IF state.active = id THEN ToSet(state.history)
                                    ELSE (ToSet(state.history) \ {id}) \cup ({state.active} \cap IdSet(state.tabs))
  BY ActivateFields
<1> HIDE DEF a
<1>3. ToSet(a.history) \subseteq IdSet(state.tabs) \ {id}
  BY <1>2
<1>4. ToSet(a.closed) \subseteq valid \ IdSet(state.tabs)
  BY <1>2
<1>5. Clean(a, valid)
  BY <1>1, <1>2, <1>3, <1>4 DEF Clean
<1>6. QED
  BY <1>2, <1>5 DEF a

\* Opening a tab keeps a strip of the documents, and one a user can work with.
LEMMA OpensFit ==
  ASSUME NEW valid \in SUBSET TabDocuments, NEW state, FitsIn(state, valid), NEW id \in valid,
         NEW permanent \in BOOLEAN
  PROVE  /\ FitsIn(OpenTab(state, id, permanent), valid)
         /\ Clean(state, valid) /\ ~permanent =>
              /\ Clean(OpenTab(state, id, permanent), valid)
              /\ \/ OpenTab(state, id, permanent).active = id
                 \/ OpenTab(state, id, permanent) = state /\ ~(Len(state.tabs) < MaxOpenTabs)
<1> DEFINE places == {k \in DOMAIN state.tabs : state.tabs[k].temporary}
           slot == IF permanent THEN 0 ELSE FirstPlace(places)
           put == PutTab(state.tabs, slot, id)
           past == Drop(state.history, {state.tabs[slot].id})
           added == Append(state.tabs, [id |-> id, temporary |-> ~permanent])
           opened(tabs, hist) == WithStrip(state, tabs, hist)
           o == OpenTab(state, id, permanent)
           n == Len(state.tabs)
<1>1. /\ StripOf(state.tabs, valid) /\ state.history \in Seq(TabDocuments) /\ state.closed \in Seq(TabDocuments)
      /\ state.dashboard \in BOOLEAN
  BY StateFields
<1>2. /\ TabIds(state.tabs) = IdSet(state.tabs) /\ DOMAIN state.tabs = 1..n /\ n \in Nat
      /\ IdSet(state.tabs) \subseteq valid
      /\ \A k \in 1..n : state.tabs[k].id \in IdSet(state.tabs)
  BY <1>1, StripIds DEF StripOf
<1>3. /\ slot \in 0..n
      /\ slot > 0 => slot \in places /\ ~permanent
      /\ slot = 0 /\ ~permanent => \A k \in 1..n : ~state.tabs[k].temporary
  <2>1. places \in SUBSET (1..n)
    BY <1>2
  <2>2. /\ FirstPlace(places) \in 0..n
        /\ FirstPlace(places) = 0 <=> places = {}
        /\ places # {} => FirstPlace(places) \in places
    BY <1>2, <2>1, FirstPlaceIs
  <2>3. FirstPlace(places) > 0 => FirstPlace(places) # 0
    BY <2>2
  <2>4. QED
    BY <1>2, <2>2, <2>3
<1>4. o = CASE id \in IdSet(state.tabs) ->
                 Activate(IF permanent THEN [state EXCEPT !.tabs = Permanent(@, id)] ELSE state, id)
            [] id \notin IdSet(state.tabs) /\ slot > 0 -> Activate(opened(put, past), id)
            [] id \notin IdSet(state.tabs) /\ slot = 0 /\ n < MaxOpenTabs ->
                 Activate(opened(added, state.history), id)
            [] OTHER -> state
  BY <1>2 DEF OpenTab, WithStrip, PutTab
<1>5. /\ Clean(state, valid) => /\ ToSet(state.history) \subseteq IdSet(state.tabs) \ {state.active}
                                /\ ToSet(state.closed) \subseteq valid \ IdSet(state.tabs)
  BY DEF Clean
<1> HIDE DEF o, slot
<1>6. CASE id \in IdSet(state.tabs)
  <2>1. CASE permanent
    <3> DEFINE p == Permanent(state.tabs, id)
               s == [state EXCEPT !.tabs = p]
    <3>1. StripOf(p, valid)
      BY <1>1, PermanentStrip
    <3>2. FitsIn(s, valid)
      BY <3>1, OnlyTabs
    <3>3. o = Activate(s, id)
      BY <1>4, <1>6, <2>1
    <3> HIDE DEF s
    <3>4. FitsIn(Activate(s, id), valid)
      BY <3>2, ActivateFields
    <3>5. QED
      BY <2>1, <3>3, <3>4 DEF o
  <2>2. CASE ~permanent
    <3>1. o = Activate(state, id)
      BY <1>4, <1>6, <2>2
    <3>2. FitsIn(Activate(state, id), valid)
      BY ActivateFields
    <3>3. ASSUME Clean(state, valid) PROVE Clean(Activate(state, id), valid) /\ Activate(state, id).active = id
      <4>1. /\ ToSet(state.history) \subseteq IdSet(state.tabs)
            /\ state.active = id => id \notin ToSet(state.history)
            /\ ToSet(state.closed) \subseteq valid \ (IdSet(state.tabs) \ {id})
        BY <1>5, <3>3
      <4>2. QED
        BY <1>6, <4>1, ActivateClean
    <3>4. QED
      BY <3>1, <3>2, <3>3 DEF o
  <2>3. QED
    BY <2>1, <2>2
<1>7. CASE id \notin IdSet(state.tabs) /\ slot > 0
  <2> DEFINE s == opened(put, past)
             old == state.tabs[slot].id
  <2>1. slot \in 1..n /\ state.tabs[slot].temporary /\ ~permanent
    BY <1>3, <1>2, <1>7
  <2>2. StripOf(put, valid) /\ IdSet(put) = (IdSet(state.tabs) \ {old}) \cup {id}
    BY <1>1, <1>7, <2>1, PutAt
  <2>3. past \in Seq(TabDocuments) /\ ToSet(past) = ToSet(state.history) \ {old}
    BY <1>1, DropSet
  <2> HIDE DEF put, past
  <2>4. /\ FitsIn(s, valid) /\ s.tabs = put /\ s.history = past /\ s.active = state.active
        /\ s.closed = state.closed
    BY <2>2, <2>3, WithTabs
  <2>5. o = Activate(s, id)
    <3>1. ~(id \in IdSet(state.tabs))
      BY <1>7
    <3>2. ~(slot = 0)
      BY <1>7, <2>1
    <3>3. QED
      BY <1>4, <1>7, <3>1, <3>2
  <2> HIDE DEF s, old
  <2>6. FitsIn(Activate(s, id), valid)
    BY <2>4, ActivateFields
  <2>7. ASSUME Clean(state, valid) PROVE Clean(Activate(s, id), valid) /\ Activate(s, id).active = id
    <3>1. ToSet(s.history) \subseteq IdSet(s.tabs)
      BY <1>5, <2>2, <2>3, <2>4, <2>7
    <3>2. s.active = id => id \notin ToSet(s.history)
      BY <1>5, <2>3, <2>4, <2>7
    <3>3. ToSet(s.closed) \subseteq valid \ (IdSet(s.tabs) \ {id})
      BY <1>5, <2>2, <2>4, <2>7
    <3>4. id \in IdSet(s.tabs)
      BY <2>2, <2>4
    <3>5. QED
      BY <2>4, <3>1, <3>2, <3>3, <3>4, ActivateClean
  <2>8. QED
    BY <2>5, <2>6, <2>7 DEF o
<1>8. CASE id \notin IdSet(state.tabs) /\ slot = 0 /\ n < MaxOpenTabs
  <2> DEFINE s == opened(added, state.history)
  <2>1. ~permanent => \A k \in 1..Len(state.tabs) : ~state.tabs[k].temporary
    BY <1>3, <1>8
  <2>2. StripOf(added, valid) /\ IdSet(added) = IdSet(state.tabs) \cup {id}
    BY <1>1, <1>8, <2>1, AddTab
  <2> HIDE DEF added
  <2>4. /\ FitsIn(s, valid) /\ s.tabs = added /\ s.history = state.history /\ s.active = state.active
        /\ s.closed = state.closed
    BY <1>1, <2>2, WithTabs
  <2>5. o = Activate(s, id)
    <3>1. ~(id \in IdSet(state.tabs)) /\ ~(slot > 0)
      BY <1>8
    <3>3. QED
      BY <1>4, <1>8, <3>1
  <2> HIDE DEF s
  <2>6. FitsIn(Activate(s, id), valid)
    BY <2>4, ActivateFields
  <2>7. ASSUME Clean(state, valid) PROVE Clean(Activate(s, id), valid) /\ Activate(s, id).active = id
    <3>1. ToSet(s.history) \subseteq IdSet(s.tabs)
      BY <1>5, <2>2, <2>4, <2>7
    <3>2. s.active = id => id \notin ToSet(s.history)
      BY <1>5, <2>4, <2>7
    <3>3. ToSet(s.closed) \subseteq valid \ (IdSet(s.tabs) \ {id})
      BY <1>5, <2>2, <2>4, <2>7
    <3>4. id \in IdSet(s.tabs)
      BY <2>2, <2>4
    <3>5. QED
      BY <2>4, <3>1, <3>2, <3>3, <3>4, ActivateClean
  <2>8. QED
    BY <2>5, <2>6, <2>7 DEF o
<1>9. CASE id \notin IdSet(state.tabs) /\ slot = 0 /\ ~(n < MaxOpenTabs)
  <2>1. o = state
    <3>1. ~(id \in IdSet(state.tabs)) /\ ~(slot > 0)
      BY <1>9
    <3>2. QED
      BY <1>4, <1>9, <3>1
  <2>2. QED
    BY <1>9, <2>1 DEF o
<1>10. slot > 0 \/ slot = 0
  BY <1>2, <1>3
<1>11. QED
  BY <1>6, <1>7, <1>8, <1>9, <1>10

\* Tabs of a strip, each once, in any order.
LEMMA SomeTabs ==
  ASSUME NEW s, NEW valid, StripOf(s, valid), NEW t \in Seq(TabRecords), Distinct(t),
         \A j \in 1..Len(t) : \E k \in 1..Len(s) : t[j] = s[k]
  PROVE  StripOf(t, valid)
<1>1. ASSUME NEW i \in 1..Len(t), NEW j \in 1..Len(t), t[i].temporary, t[j].temporary PROVE i = j
  <2>1. PICK k \in 1..Len(s) : t[i] = s[k]
    OBVIOUS
  <2>2. PICK l \in 1..Len(s) : t[j] = s[l]
    OBVIOUS
  <2>3. k = l
    BY <1>1, <2>1, <2>2 DEF StripOf, OneTemporary
  <2>4. QED
    BY <2>1, <2>2, <2>3 DEF Distinct
<1>2. IdSet(t) \subseteq IdSet(s)
  BY DEF IdSet
<1>3. QED
  BY <1>1, <1>2 DEF StripOf, OneTemporary

\* A strip without one of its tabs, and with that tab at another place.
LEMMA RemoveTab ==
  ASSUME NEW tabs, NEW valid, StripOf(tabs, valid), NEW k \in 1..Len(tabs)
  PROVE  /\ StripOf(RemoveAt(tabs, k), valid) /\ Len(RemoveAt(tabs, k)) = Len(tabs) - 1
         /\ IdSet(RemoveAt(tabs, k)) = IdSet(tabs) \ {tabs[k].id}
         /\ \A j \in 1..Len(RemoveAt(tabs, k)) : \E i \in 1..Len(tabs) : RemoveAt(tabs, k)[j] = tabs[i]
<1> DEFINE t == RemoveAt(tabs, k)
<1>1. tabs \in Seq(TabRecords) /\ Distinct(tabs)
  BY DEF StripOf
<1>2. Len(tabs) \in Nat
  BY <1>1, LenProperties
<1>3. t \in Seq(TabRecords) /\ Len(t) = Len(tabs) - 1 /\ Distinct(t) /\ IdSet(t) = IdSet(tabs) \ {tabs[k].id}
  BY <1>1, RemovedOnce
<1>4. \A j \in 1..Len(tabs) - 1 : t[j] = IF j < k THEN tabs[j] ELSE tabs[j + 1]
  BY <1>1, RemovedAt
<1> HIDE DEF t
<1>5. \A j \in 1..Len(tabs) - 1 : j \in 1..Len(tabs) /\ j + 1 \in 1..Len(tabs)
  BY <1>2
<1>6. \A j \in 1..Len(t) : \E i \in 1..Len(tabs) : t[j] = tabs[i]
  BY <1>3, <1>4, <1>5
<1>7. StripOf(t, valid)
  BY <1>3, <1>6, SomeTabs
<1>8. QED
  BY <1>3, <1>6, <1>7 DEF t

LEMMA PutBack ==
  ASSUME NEW tabs, NEW valid, StripOf(tabs, valid), NEW k \in 1..Len(tabs), NEW p \in 1..Len(tabs)
  PROVE  StripOf(InsertAt(RemoveAt(tabs, k), p, tabs[k]), valid)
<1> DEFINE t == RemoveAt(tabs, k)
           e == tabs[k]
           r == InsertAt(t, p, e)
<1>1. tabs \in Seq(TabRecords) /\ Len(tabs) \in Nat /\ e \in TabRecords
  BY StripIds DEF StripOf
<1>2. /\ t \in Seq(TabRecords) /\ Distinct(t) /\ Len(t) = Len(tabs) - 1 /\ e.id \notin IdSet(t)
      /\ \A j \in 1..Len(t) : \E i \in 1..Len(tabs) : t[j] = tabs[i]
  <2>1. /\ StripOf(t, valid) /\ Len(t) = Len(tabs) - 1 /\ IdSet(t) = IdSet(tabs) \ {e.id}
        /\ \A j \in 1..Len(t) : \E i \in 1..Len(tabs) : t[j] = tabs[i]
    BY RemoveTab
  <2> HIDE DEF t, e
  <2>2. QED
    BY <2>1 DEF StripOf
<1> HIDE DEF t
<1>3. p \in 1..Len(t) + 1 /\ Len(t) \in Nat
  BY <1>1, <1>2
<1>4. r \in Seq(TabRecords) /\ Len(r) = Len(t) + 1 /\ Distinct(r)
  BY <1>1, <1>2, <1>3, InsertedOnce
<1>5. \A j \in 1..Len(t) + 1 : r[j] = IF j < p THEN t[j] ELSE IF j = p THEN e ELSE t[j - 1]
  BY <1>1, <1>2, <1>3, InsertedAt
<1> HIDE DEF r
<1>6. \A j \in 1..Len(t) + 1 : (j < p => j \in 1..Len(t)) /\ (~(j < p) /\ j # p => j - 1 \in 1..Len(t))
  BY <1>3
<1>7. \A j \in 1..Len(r) : r[j] = e \/ \E i \in 1..Len(t) : r[j] = t[i]
  BY <1>4, <1>5, <1>6
<1>8. \A j \in 1..Len(r) : \E i \in 1..Len(tabs) : r[j] = tabs[i]
  BY <1>2, <1>7
<1>9. StripOf(r, valid)
  BY <1>4, <1>8, SomeTabs
<1>10. QED
  BY <1>9 DEF r, t

\* The place of a tab.
LEMMA TabAt ==
  ASSUME NEW tabs, NEW valid, StripOf(tabs, valid), NEW id
  PROVE  /\ TabIndex(tabs, id) \in 0..Len(tabs)
         /\ TabIndex(tabs, id) = 0 <=> id \notin IdSet(tabs)
         /\ id \in IdSet(tabs) => TabIndex(tabs, id) \in 1..Len(tabs) /\ tabs[TabIndex(tabs, id)].id = id
<1> DEFINE places == {k \in DOMAIN tabs : tabs[k].id = id}
           f == TabIndex(tabs, id)
<1>1. DOMAIN tabs = 1..Len(tabs) /\ Len(tabs) \in Nat
  BY StripIds
<1>2. places \in SUBSET (1..Len(tabs)) /\ f = FirstPlace(places)
  BY <1>1 DEF TabIndex
<1>3. /\ f \in 0..Len(tabs)
      /\ f = 0 <=> places = {}
      /\ places # {} => f \in places
  BY <1>1, <1>2, FirstPlaceIs
<1>4. places = {} <=> id \notin IdSet(tabs)
  BY <1>1 DEF IdSet
<1>5. places # {} => f \in 1..Len(tabs) /\ tabs[f].id = id
  BY <1>1, <1>3
<1>6. QED
  BY <1>3, <1>4, <1>5

\* Closing tabs.
LEMMA ClosedFit ==
  ASSUME NEW state, NEW valid, FitsIn(state, valid), NEW ids \in Seq(TabDocuments)
  PROVE  NowClosed(state, ids) \in Seq(TabDocuments)
<1> DEFINE d == Drop(state.closed, ToSet(ids))
<1>1. d \in Seq(TabDocuments)
  BY StateFields, DropSet
<1> HIDE DEF d
<1>2. d \o ids \in Seq(TabDocuments)
  BY <1>1, JoinSet
<1> DEFINE j == d \o ids
<1> HIDE DEF j
<1>3. Latest(j, MaxClosedTabs) \in Seq(TabDocuments)
  BY <1>2, CutSet, TabsAssumption DEF j
<1>4. QED
  BY <1>3 DEF NowClosed, j, d

LEMMA StateFits ==
  ASSUME NEW valid \in SUBSET TabDocuments, NEW tabs, StripOf(tabs, valid), NEW active \in valid \cup {Nothing},
         NEW past \in Seq(TabDocuments), NEW closed \in Seq(TabDocuments), NEW dashboard \in BOOLEAN
  PROVE  FitsIn([tabs |-> tabs, active |-> active, history |-> past, closed |-> closed, dashboard |-> dashboard], valid)
BY DEF FitsIn, TabStates, StripOf

LEMMA EmptyStrip == ASSUME NEW valid PROVE StripOf(<<>>, valid) /\ <<>> \in Seq(TabDocuments)
<1>1. Len(<<>>) = 0 /\ <<>> \in Seq(TabRecords) /\ <<>> \in Seq(TabDocuments)
  OBVIOUS
<1>2. QED
  BY <1>1 DEF StripOf, Distinct, OneTemporary, IdSet

LEMMA DashboardFits ==
  ASSUME NEW valid \in SUBSET TabDocuments, NEW state, FitsIn(state, valid)
  PROVE  FitsIn(Dashboard(state), valid) /\ FitsIn(CloseAllTabs(state), valid)
<1> DEFINE c == NowClosed(state, IdSeq(state.tabs))
<1>1. IdSeq(state.tabs) \in Seq(TabDocuments)
  BY StateFields, StripIds
<1>2. c \in Seq(TabDocuments)
  BY <1>1, ClosedFit
<1> HIDE DEF c
<1>3. Nothing \in valid \cup {Nothing} /\ TRUE \in BOOLEAN
  OBVIOUS
<1>4. Dashboard(state) = [tabs |-> <<>>, active |-> Nothing, history |-> <<>>, closed |-> c, dashboard |-> TRUE]
  BY DEF Dashboard, c
<1>5. FitsIn(Dashboard(state), valid)
  BY <1>2, <1>3, <1>4, EmptyStrip, StateFits
<1>6. QED
  BY <1>5 DEF CloseAllTabs

LEMMA TabClosesFit ==
  ASSUME NEW valid \in SUBSET TabDocuments, NEW state, FitsIn(state, valid), NEW id
  PROVE  FitsIn(CloseTab(state, id), valid)
<1> DEFINE index == TabIndex(state.tabs, id)
           tabs == RemoveAt(state.tabs, index)
           past == Drop(Keep(state.history, TabIds(tabs)), {id})
           neighbour == IF index > 1 THEN index - 1 ELSE 1
           active == CASE state.active # id -> state.active
                       [] state.active = id /\ past # <<>> -> past[1]
                       [] OTHER -> tabs[neighbour].id
           rest == Drop(past, {active})
           closed == NowClosed(state, <<id>>)
           n == Len(state.tabs)
           c == CloseTab(state, id)
<1>1. /\ StripOf(state.tabs, valid) /\ state.history \in Seq(TabDocuments) /\ state.active \in valid \cup {Nothing}
      /\ n \in Nat /\ IdSet(state.tabs) \subseteq TabDocuments
  BY StateFields, StripIds DEF FitsIn
<1>2. /\ index \in 0..n
      /\ index = 0 <=> id \notin IdSet(state.tabs)
      /\ id \in IdSet(state.tabs) => index \in 1..n
  BY <1>1, TabAt
<1>3. c = CASE index = 0 -> state
            [] index > 0 /\ n = 1 -> Dashboard(state)
            [] OTHER -> [tabs |-> tabs, active |-> active, history |-> rest, closed |-> closed, dashboard |-> FALSE]
  BY DEF CloseTab
<1>4. CASE index = 0
  BY <1>3, <1>4
<1>5. CASE index > 0 /\ n = 1
  <2>1. ~(index = 0)
    BY <1>2, <1>5
  <2>2. c = Dashboard(state)
    BY <1>3, <1>5, <2>1
  <2>3. QED
    BY <2>2, DashboardFits
<1>6. CASE index > 0 /\ n # 1
  <2>1. index \in 1..n /\ id \in IdSet(state.tabs) /\ ~(index = 0) /\ id \in TabDocuments
    BY <1>1, <1>2, <1>6
  <2>2. /\ StripOf(tabs, valid) /\ Len(tabs) = n - 1
    BY <1>1, <2>1, RemoveTab
  <2>3. c = [tabs |-> tabs, active |-> active, history |-> rest, closed |-> closed, dashboard |-> FALSE]
    BY <1>3, <1>6, <2>1
  <2> HIDE DEF tabs, index, n
  <2>4. neighbour \in 1..Len(tabs)
    <3>1. n \in Int /\ index \in Int /\ 1 <= index /\ index <= n /\ n # 1
      BY <1>1, <1>6, <2>1
    <3>2. neighbour \in 1..n - 1
      BY <3>1
    <3>3. QED
      BY <2>2, <3>2
  <2> HIDE DEF neighbour
  <2>5. /\ TabIds(tabs) = IdSet(tabs) /\ IdSet(tabs) \subseteq valid
        /\ \A k \in 1..Len(tabs) : tabs[k].id \in IdSet(tabs)
    BY <2>2, StripIds DEF StripOf
  <2>6. past \in Seq(TabDocuments) /\ ToSet(past) \subseteq valid
    <3> DEFINE kept == Keep(state.history, TabIds(tabs))
    <3>1. kept \in Seq(TabDocuments) /\ ToSet(kept) \subseteq valid
      BY <1>1, <2>5, DropSet
    <3> HIDE DEF kept
    <3>2. Drop(kept, {id}) \in Seq(TabDocuments) /\ ToSet(Drop(kept, {id})) \subseteq valid
      BY <3>1, DropSet
    <3>3. QED
      BY <3>2 DEF kept
  <2> HIDE DEF past
  <2>7. past # <<>> => past[1] \in valid
    <3>1. ToSet(past) = {past[k] : k \in 1..Len(past)}
      BY <2>6, SetOf
    <3>2. past # <<>> => 1 \in 1..Len(past)
      BY <2>6
    <3>3. QED
      BY <2>6, <3>1, <3>2
  <2>8. active \in valid \cup {Nothing}
    <3>1. tabs[neighbour].id \in valid
      BY <2>4, <2>5
    <3>2. CASE state.active # id
      BY <1>1, <3>2
    <3>3. CASE state.active = id /\ past # <<>>
      BY <2>7, <3>3
    <3>4. CASE state.active = id /\ ~(past # <<>>)
      BY <3>1, <3>4
    <3>5. QED
      BY <3>2, <3>3, <3>4
  <2> HIDE DEF active
  <2>9. rest \in Seq(TabDocuments)
    BY <2>6, DropSet
  <2>10. <<id>> \in Seq(TabDocuments)
    BY <2>1
  <2>11. closed \in Seq(TabDocuments)
    BY <2>10, ClosedFit
  <2> HIDE DEF rest, closed, c
  <2>12. FALSE \in BOOLEAN
    OBVIOUS
  <2>13. FitsIn(c, valid)
    BY <2>2, <2>3, <2>8, <2>9, <2>11, <2>12, StateFits
  <2>14. QED
    BY <2>13 DEF c
<1>7. index > 0 \/ index = 0
  BY <1>1, <1>2
<1>8. QED
  BY <1>4, <1>5, <1>6, <1>7

LEMMA ClosesOthersFit ==
  ASSUME NEW valid \in SUBSET TabDocuments, NEW state, FitsIn(state, valid), NEW id
  PROVE  FitsIn(CloseOtherTabs(state, id), valid)
<1> DEFINE tabs == <<state.tabs[TabIndex(state.tabs, id)]>>
           c == Drop(state.closed, TabIds(state.tabs))
           d == Drop(IdSeq(state.tabs), {id})
           closed == Latest(c \o d, MaxClosedTabs)
           o == CloseOtherTabs(state, id)
<1>1. /\ StripOf(state.tabs, valid) /\ state.closed \in Seq(TabDocuments)
      /\ IdSeq(state.tabs) \in Seq(TabDocuments) /\ TabIds(state.tabs) = IdSet(state.tabs)
      /\ \A k \in 1..Len(state.tabs) : state.tabs[k] \in TabRecords
      /\ IdSet(state.tabs) \subseteq valid
  BY StateFields, StripIds DEF StripOf
<1>2. CASE id \notin IdSet(state.tabs) \/ Len(state.tabs) <= 1
  BY <1>1, <1>2 DEF CloseOtherTabs
<1>3. CASE ~(id \notin IdSet(state.tabs) \/ Len(state.tabs) <= 1)
  <2>1. /\ TabIndex(state.tabs, id) \in 1..Len(state.tabs) /\ state.tabs[TabIndex(state.tabs, id)].id = id
        /\ id \in valid
    BY <1>1, <1>3, TabAt
  <2>2. StripOf(tabs, valid)
    <3> DEFINE e == state.tabs[TabIndex(state.tabs, id)]
    <3>1. e \in TabRecords
      BY <1>1, <2>1
    <3>2. tabs \in Seq(TabRecords) /\ Len(tabs) = 1 /\ tabs[1] = e
      BY <3>1
    <3>3. Distinct(tabs)
      BY <3>2 DEF Distinct
    <3>4. \A j \in 1..Len(tabs) : \E k \in 1..Len(state.tabs) : tabs[j] = state.tabs[k]
      BY <2>1, <3>2
    <3> HIDE DEF tabs
    <3>5. QED
      BY <1>1, <3>2, <3>3, <3>4, SomeTabs
  <2>3. c \in Seq(TabDocuments) /\ d \in Seq(TabDocuments)
    BY <1>1, DropSet
  <2> HIDE DEF c, d, tabs
  <2>4. c \o d \in Seq(TabDocuments)
    BY <2>3, JoinSet
  <2> DEFINE j == c \o d
  <2> HIDE DEF j
  <2>5. Latest(j, MaxClosedTabs) \in Seq(TabDocuments)
    BY <2>4, CutSet, TabsAssumption DEF j
  <2>6. closed \in Seq(TabDocuments)
    BY <2>5 DEF j
  <2> HIDE DEF closed
  <2>7. o = [tabs |-> tabs, active |-> id, history |-> <<>>, closed |-> closed, dashboard |-> FALSE]
    BY <1>1, <1>3 DEF CloseOtherTabs, tabs, closed, c, d
  <2>8. id \in valid \cup {Nothing} /\ FALSE \in BOOLEAN
    BY <2>1
  <2> HIDE DEF o
  <2>9. FitsIn(o, valid)
    BY <2>2, <2>6, <2>7, <2>8, EmptyStrip, StateFits
  <2>10. QED
    BY <2>9 DEF o
<1>4. QED
  BY <1>2, <1>3

LEMMA ReopensFit ==
  ASSUME NEW valid \in SUBSET TabDocuments, NEW state, FitsIn(state, valid)
  PROVE  FitsIn(ReopenTab(state, valid), valid)
<1> DEFINE k == Keep(state.closed, valid)
           candidates == Drop(k, TabIds(state.tabs))
           last == Last(candidates)
           closed == Drop(state.closed, {last})
           s == [state EXCEPT !.closed = closed]
<1>1. state.closed \in Seq(TabDocuments)
  BY StateFields
<1>2. k \in Seq(TabDocuments) /\ ToSet(k) \subseteq valid
  BY <1>1, DropSet
<1>3. candidates \in Seq(TabDocuments) /\ ToSet(candidates) \subseteq valid
  <2> HIDE DEF k
  <2>1. QED
    BY <1>2, DropSet
<1> HIDE DEF k, candidates
<1>4. CASE candidates = <<>>
  BY <1>4 DEF ReopenTab, candidates, k
<1>5. CASE candidates # <<>>
  <2>1. last \in valid
    <3>1. ToSet(candidates) = {candidates[j] : j \in 1..Len(candidates)}
      BY <1>3, SetOf
    <3>2. Len(candidates) \in 1..Len(candidates)
      BY <1>3, <1>5
    <3>3. QED
      BY <1>3, <3>1, <3>2 DEF Last
  <2> HIDE DEF last
  <2>2. closed \in Seq(TabDocuments)
    BY <1>1, DropSet
  <2> HIDE DEF closed
  <2>3. s \in TabStates /\ s.tabs = state.tabs /\ s.active = state.active
    BY <2>2 DEF FitsIn, TabStates
  <2>5. ReopenTab(state, valid) = OpenTab(s, last, TRUE)
    BY <1>5 DEF ReopenTab, candidates, k, last, closed
  <2> HIDE DEF s
  <2>4. FitsIn(s, valid)
    BY <2>3 DEF FitsIn
  <2>6. TRUE \in BOOLEAN
    OBVIOUS
  <2>7. FitsIn(OpenTab(s, last, TRUE), valid)
    BY <2>1, <2>4, <2>6, OpensFit
  <2>8. QED
    BY <2>5, <2>7
<1>6. QED
  BY <1>4, <1>5

LEMMA CyclesFit ==
  ASSUME NEW valid, NEW state, FitsIn(state, valid), NEW offset
  PROVE  FitsIn(CycleTab(state, offset), valid)
<1>1. \A id : FitsIn(Activate(state, id), valid)
  BY ActivateFields
<1> DEFINE next == state.tabs[(((IF TabIndex(state.tabs, state.active) = 0 THEN 1
                                 ELSE TabIndex(state.tabs, state.active)) - 1 + offset + Len(state.tabs))
                               % Len(state.tabs)) + 1].id
<1>2. CycleTab(state, offset) = IF Len(state.tabs) < 2 THEN state ELSE Activate(state, next)
  BY DEF CycleTab
<1> HIDE DEF next
<1>3. QED
  BY <1>1, <1>2

LEMMA MovesFit ==
  ASSUME NEW valid, NEW state, FitsIn(state, valid), NEW id, NEW target, NEW after \in 0..1
  PROVE  FitsIn(MoveTab(state, id, target, after), valid)
<1> DEFINE k == TabIndex(state.tabs, id)
           tabs == RemoveAt(state.tabs, k)
           p == TabIndex(tabs, target) + after
           moved == InsertAt(tabs, p, state.tabs[k])
           n == Len(state.tabs)
<1>1. StripOf(state.tabs, valid) /\ TabIds(state.tabs) = IdSet(state.tabs) /\ n \in Nat
  BY StateFields, StripIds
<1>2. CASE id = target \/ ~({id, target} \subseteq IdSet(state.tabs))
  BY <1>1, <1>2 DEF MoveTab
<1>3. CASE ~(id = target \/ ~({id, target} \subseteq IdSet(state.tabs)))
  <2>1. id \in IdSet(state.tabs) /\ target \in IdSet(state.tabs) /\ id # target
    BY <1>3
  <2>2. k \in 1..n /\ state.tabs[k].id = id
    BY <1>1, <2>1, TabAt
  <2>3. StripOf(tabs, valid) /\ Len(tabs) = n - 1 /\ IdSet(tabs) = IdSet(state.tabs) \ {id}
    <3> HIDE DEF k
    <3>1. /\ StripOf(tabs, valid) /\ Len(tabs) = Len(state.tabs) - 1
          /\ IdSet(tabs) = IdSet(state.tabs) \ {state.tabs[k].id}
      BY <1>1, <2>2, RemoveTab
    <3> HIDE DEF tabs
    <3>2. QED
      BY <2>2, <3>1
  <2> DEFINE place == TabIndex(tabs, target)
  <2>4. place \in 1..Len(tabs)
    <3> HIDE DEF tabs
    <3>1. target \in IdSet(tabs)
      BY <2>1, <2>3
    <3>2. QED
      BY <2>3, <3>1, TabAt
  <2>5. MoveTab(state, id, target, after) = [state EXCEPT !.tabs = moved]
    BY <1>1, <1>3 DEF MoveTab
  <2> HIDE DEF place, n
  <2>6. p \in 1..n
    <3>1. place \in Int /\ 1 <= place /\ place <= n - 1 /\ n \in Nat
      BY <1>1, <2>3, <2>4
    <3>2. place + after \in 1..n
      BY <3>1
    <3>3. QED
      BY <3>2 DEF place
  <2> HIDE DEF p, k
  <2>7. StripOf(moved, valid)
    BY <1>1, <2>2, <2>6, PutBack DEF n
  <2> HIDE DEF moved
  <2>8. FitsIn([state EXCEPT !.tabs = moved], valid)
    BY <2>7, OnlyTabs
  <2>9. QED
    BY <2>5, <2>8
<1>4. QED
  BY <1>2, <1>3

\* What the tabs keep from step to step: the strip is one of documents, each
\* once, and the request in the editor is a document.
TabsInv ==
    /\ FitsIn(tabState, TabDocuments) /\ documents \subseteq TabDocuments
    /\ shownRequest \in documents \cap TabRequests

LEMMA EffectFits ==
  ASSUME TabsInv
  PROVE  /\ FitsIn(Effect(tabState), documents) /\ Clean(Effect(tabState), documents)
         /\ Effect(tabState).active \in TabRequests /\ Len(Effect(tabState).tabs) < MaxOpenTabs
               => Effect(tabState).active = shownRequest
<1> DEFINE r == Reconcile(tabState, documents, shownRequest)
           o == OpenTab(r, shownRequest, FALSE)
           follows == ~r.dashboard /\ r.active \notin TabOthers /\ shownRequest \in documents /\ r.active # shownRequest
           e == Effect(tabState)
<1>1. FitsIn(tabState, TabDocuments) /\ documents \in SUBSET TabDocuments /\ shownRequest \in documents
  BY DEF TabsInv
<1>2. FitsIn(r, documents) /\ Clean(r, documents)
  BY <1>1, Reconciles
<1>3. e = IF follows THEN o ELSE r
  BY DEF Effect, Follow
<1> HIDE DEF r, e
<1>4. CASE follows
  <2>1. FALSE \in BOOLEAN /\ ~FALSE
    OBVIOUS
  <2>2. /\ FitsIn(o, documents) /\ Clean(o, documents)
        /\ o.active = shownRequest \/ (o = r /\ ~(Len(r.tabs) < MaxOpenTabs))
    BY <1>1, <1>2, <2>1, OpensFit
  <2> HIDE DEF o
  <2>3. e = o
    BY <1>3, <1>4
  <2>4. QED
    BY <2>2, <2>3 DEF e
<1>5. CASE ~follows
  <2>1. e = r
    BY <1>3, <1>5
  <2>2. ASSUME r.active \in TabRequests PROVE r.active = shownRequest
    <3>1. r.active # Nothing /\ r.active \notin TabOthers
      BY <2>2, TabsAssumption DEF Nothing
    <3>2. ~r.dashboard
      BY <1>2, <3>1 DEF Clean
    <3>3. QED
      BY <1>1, <1>5, <3>1, <3>2
  <2>3. QED
    BY <1>2, <2>1, <2>2 DEF e
<1>6. QED
  BY <1>4, <1>5

LEMMA ShownIn ==
  ASSUME NEW valid, NEW state, FitsIn(state, valid), shownRequest \in valid \cap TabRequests
  PROVE  Shown(state) \in valid \cap TabRequests
BY TabsAssumption DEF FitsIn, Shown, Nothing

\* A handler computes the next state from a settled one.
LEMMA Handled ==
  ASSUME TabsInv, TabsSettled, FitsIn(tabState', documents), documents' = documents,
         shownRequest' \in documents \cap TabRequests
  PROVE  TabsInv'
<1>1. FitsIn(tabState', TabDocuments)
  BY FitsMore DEF TabsInv
<1>2. QED
  BY <1>1 DEF TabsInv

LEMMA PromotesFit ==
  ASSUME NEW state, NEW valid, FitsIn(state, valid), NEW id
  PROVE  FitsIn(Promote(state, id), valid)
<1> DEFINE p == Permanent(state.tabs, id)
<1>1. StripOf(p, valid)
  BY StateFields, PermanentStrip
<1> HIDE DEF p
<1>2. FitsIn([state EXCEPT !.tabs = p], valid)
  BY <1>1, OnlyTabs
<1>3. QED
  BY <1>2 DEF Promote, p

\* The handlers of the tab strip.
LEMMA HandlerSteps ==
  ASSUME TabsInv
  PROVE  /\ UpdateActiveRequest \/ CloseAllDocuments \/ ReopenDocument => TabsInv'
         /\ \A offset \in {1, -1} : CycleDocument(offset) => TabsInv'
         /\ \A id : CloseDocument(id) \/ CloseOtherDocuments(id) \/ OpenFromRunner(id) => TabsInv'
         /\ \A id : \A permanent \in BOOLEAN : OpenDocument(id, permanent) => TabsInv'
         /\ \A id, target : \A after \in 0..1 : ReorderDocument(id, target, after) => TabsInv'
<1>1. documents \in SUBSET TabDocuments /\ shownRequest \in documents \cap TabRequests
  BY DEF TabsInv
<1>2. TabsSettled => FitsIn(tabState, documents)
  BY EffectFits DEF TabsSettled
<1>3. ASSUME UpdateActiveRequest PROVE TabsInv'
  <2>1. TabsSettled /\ tabState' = Promote(tabState, shownRequest) /\ shownRequest' = Shown(tabState') /\ documents' = documents
    BY <1>3 DEF UpdateActiveRequest, Handler, Apply
  <2>2. FitsIn(tabState', documents)
    BY <1>2, <2>1, PromotesFit
  <2>3. QED
    BY <1>1, <2>1, <2>2, ShownIn, Handled
<1>4. ASSUME CloseAllDocuments PROVE TabsInv'
  <2>1. TabsSettled /\ tabState' = CloseAllTabs(tabState) /\ shownRequest' = Shown(tabState') /\ documents' = documents
    BY <1>4 DEF CloseAllDocuments, Handler, Apply
  <2>2. FitsIn(tabState', documents)
    BY <1>1, <1>2, <2>1, DashboardFits
  <2>3. QED
    BY <1>1, <2>1, <2>2, ShownIn, Handled
<1>5. ASSUME ReopenDocument PROVE TabsInv'
  <2>1. TabsSettled /\ tabState' = ReopenTab(tabState, documents) /\ shownRequest' = Shown(tabState') /\ documents' = documents
    BY <1>5 DEF ReopenDocument, Handler, Apply
  <2>2. FitsIn(tabState', documents)
    BY <1>1, <1>2, <2>1, ReopensFit
  <2>3. QED
    BY <1>1, <2>1, <2>2, ShownIn, Handled
<1>6. ASSUME NEW offset, CycleDocument(offset) PROVE TabsInv'
  <2>1. TabsSettled /\ tabState' = CycleTab(tabState, offset) /\ shownRequest' = Shown(tabState') /\ documents' = documents
    BY <1>6 DEF CycleDocument, Handler, Apply
  <2>2. FitsIn(tabState', documents)
    BY <1>2, <2>1, CyclesFit
  <2>3. QED
    BY <1>1, <2>1, <2>2, ShownIn, Handled
<1>7. ASSUME NEW id, CloseDocument(id) PROVE TabsInv'
  <2>1. TabsSettled /\ tabState' = CloseTab(tabState, id) /\ shownRequest' = Shown(tabState') /\ documents' = documents
    BY <1>7 DEF CloseDocument, Handler, Apply
  <2>2. FitsIn(tabState', documents)
    BY <1>1, <1>2, <2>1, TabClosesFit
  <2>3. QED
    BY <1>1, <2>1, <2>2, ShownIn, Handled
<1>8. ASSUME NEW id, CloseOtherDocuments(id) PROVE TabsInv'
  <2>1. TabsSettled /\ tabState' = CloseOtherTabs(tabState, id) /\ shownRequest' = Shown(tabState') /\ documents' = documents
    BY <1>8 DEF CloseOtherDocuments, Handler, Apply
  <2>2. FitsIn(tabState', documents)
    BY <1>1, <1>2, <2>1, ClosesOthersFit
  <2>3. QED
    BY <1>1, <2>1, <2>2, ShownIn, Handled
<1>9. ASSUME NEW id, NEW permanent \in BOOLEAN, id \in documents, Handler(OpenTab(tabState, id, permanent)) PROVE TabsInv'
  <2>1. TabsSettled /\ tabState' = OpenTab(tabState, id, permanent) /\ shownRequest' = Shown(tabState') /\ documents' = documents
    BY <1>9 DEF Handler, Apply
  <2>2. FitsIn(tabState', documents)
    BY <1>1, <1>2, <1>9, <2>1, OpensFit
  <2>3. QED
    BY <1>1, <2>1, <2>2, ShownIn, Handled
<1>10. ASSUME NEW id, NEW target, NEW after \in 0..1, ReorderDocument(id, target, after) PROVE TabsInv'
  <2>1. TabsSettled /\ tabState' = MoveTab(tabState, id, target, after) /\ shownRequest' = Shown(tabState') /\ documents' = documents
    BY <1>10 DEF ReorderDocument, Handler, Apply
  <2>2. FitsIn(tabState', documents)
    BY <1>2, <2>1, MovesFit
  <2>3. QED
    BY <1>1, <2>1, <2>2, ShownIn, Handled
<1>11. \A id : OpenFromRunner(id) => TabsInv'
  <2>1. FALSE \in BOOLEAN
    OBVIOUS
  <2>2. ASSUME NEW id, OpenFromRunner(id) PROVE TabsInv'
    <3>1. id \in documents /\ Handler(OpenTab(tabState, id, FALSE))
      BY <2>2 DEF OpenFromRunner
    <3>2. QED
      BY <1>9, <2>1, <3>1
  <2>3. QED
    BY <2>2
<1>12. \A id : \A permanent \in BOOLEAN : OpenDocument(id, permanent) => TabsInv'
  BY <1>9 DEF OpenDocument
<1>13. UpdateActiveRequest \/ CloseAllDocuments \/ ReopenDocument => TabsInv'
  BY <1>3, <1>4, <1>5
<1>14. \A id : CloseDocument(id) \/ CloseOtherDocuments(id) \/ OpenFromRunner(id) => TabsInv'
  BY <1>7, <1>8, <1>11
<1>15. QED
  BY <1>6, <1>10, <1>12, <1>13, <1>14

\* A document that is created, copied or deleted.
LEMMA DocumentSteps ==
  ASSUME TabsInv
  PROVE  /\ \A id \in TabDocuments : AddDocument(id) \/ DuplicateActiveRequest(id) => TabsInv'
         /\ \A id : DeleteOther(id) \/ DeleteFolderDocument(id) => TabsInv'
         /\ DeleteActiveRequest => TabsInv'
<1>1. /\ documents \in SUBSET TabDocuments /\ shownRequest \in documents \cap TabRequests
      /\ FitsIn(tabState, TabDocuments)
  BY DEF TabsInv
<1>2. TabsSettled => FitsIn(tabState, documents)
  BY EffectFits DEF TabsSettled
<1>3. TabRequests \cap TabOthers = {} /\ TabRequests \subseteq TabDocuments
  BY TabsAssumption DEF TabDocuments
<1>4. ASSUME NEW id \in TabDocuments, AddDocument(id) PROVE TabsInv'
  <2> DEFINE more == documents \cup {id}
  <2>1. /\ TabsSettled /\ documents' = more /\ tabState' = OpenTab(tabState, id, FALSE)
        /\ shownRequest' = IF id \in TabRequests THEN id ELSE Shown(tabState')
    BY <1>4 DEF AddDocument
  <2>2. more \in SUBSET TabDocuments /\ documents \subseteq more /\ id \in more /\ FALSE \in BOOLEAN
        /\ shownRequest \in more \cap TabRequests
    BY <1>1
  <2> HIDE DEF more
  <2>3. FitsIn(tabState, more)
    BY <1>2, <2>1, <2>2, FitsMore
  <2>4. FitsIn(tabState', more)
    BY <2>1, <2>2, <2>3, OpensFit
  <2>5. FitsIn(tabState', TabDocuments)
    BY <2>2, <2>4, FitsMore
  <2>6. Shown(tabState') \in more \cap TabRequests
    BY <2>2, <2>4, ShownIn
  <2>7. QED
    BY <2>1, <2>2, <2>5, <2>6 DEF TabsInv
<1>5. ASSUME NEW id \in TabDocuments, DuplicateActiveRequest(id) PROVE TabsInv'
  <2>1. documents' = documents \cup {id} /\ id \in TabRequests /\ shownRequest' = id /\ tabState' = tabState
    BY <1>5 DEF DuplicateActiveRequest
  <2>2. QED
    BY <1>1, <2>1 DEF TabsInv
<1>6. ASSUME NEW id, DeleteOther(id) PROVE TabsInv'
  <2>1. /\ TabsSettled /\ id \in TabOthers /\ documents' = documents \ {id} /\ tabState' = CloseTab(tabState, id)
        /\ shownRequest' = Shown(tabState')
    BY <1>6 DEF DeleteOther, Apply
  <2>2. FitsIn(tabState', documents)
    BY <1>1, <1>2, <2>1, TabClosesFit
  <2>3. FitsIn(tabState', TabDocuments)
    BY <1>1, <2>2, FitsMore
  <2>4. Shown(tabState') \in documents \cap TabRequests
    BY <1>1, <2>2, ShownIn
  <2>5. QED
    BY <1>1, <1>3, <2>1, <2>3, <2>4 DEF TabsInv
<1>7. ASSUME NEW id, DeleteFolderDocument(id) PROVE TabsInv'
  <2>1. id \in TabOthers /\ documents' = documents \ {id} /\ tabState' = tabState /\ shownRequest' = shownRequest
    BY <1>7 DEF DeleteFolderDocument
  <2>2. QED
    BY <1>1, <1>3, <2>1 DEF TabsInv
<1>8. ASSUME DeleteActiveRequest PROVE TabsInv'
  <2> DEFINE rest == (documents \cap TabRequests) \ {shownRequest}
  <2>1. PICK next \in IF rest # {} THEN rest ELSE TabRequests \ documents :
           documents' = (documents \ {shownRequest}) \cup {next} /\ shownRequest' = next
    BY <1>8 DEF DeleteActiveRequest
  <2>2. tabState' = tabState /\ next \in TabRequests
    BY <1>8, <2>1 DEF DeleteActiveRequest
  <2>3. QED
    BY <1>1, <1>3, <2>1, <2>2 DEF TabsInv
<1>9. QED
  BY <1>4, <1>5, <1>6, <1>7, <1>8

LEMMA RestartStep ==
  ASSUME TabsInv, Restart
  PROVE  TabsInv'
<1> DEFINE found == documents \ unsaved
           request == IF shownRequest \in found THEN shownRequest ELSE CHOOSE r \in found \cap TabRequests : TRUE
           state == Reconcile(tabState, found, request)
<1>1. /\ documents' = found /\ tabState' = state /\ found \cap TabRequests # {}
      /\ shownRequest' = IF state.active \in TabRequests THEN state.active ELSE request
  BY DEF Restart
<1>2. found \in SUBSET TabDocuments /\ FitsIn(tabState, TabDocuments) /\ shownRequest \in TabRequests
  BY DEF TabsInv
<1>3. request \in found /\ request \in TabRequests
  BY <1>1, <1>2
<1> HIDE DEF found, request
<1>4. FitsIn(state, found)
  BY <1>2, <1>3, Reconciles
<1> HIDE DEF state
<1>5. FitsIn(state, TabDocuments)
  BY <1>2, <1>4, FitsMore
<1>6. state.active \in found \cup {Nothing} /\ Nothing \notin TabRequests
  BY <1>4, TabsAssumption DEF FitsIn, Nothing
<1>7. shownRequest' \in found \cap TabRequests
  BY <1>1, <1>3, <1>6
<1>8. QED
  BY <1>1, <1>2, <1>5, <1>7 DEF TabsInv

LEMMA TabsInvInit == TabsInit => TabsInv
<1> SUFFICES ASSUME TabsInit PROVE TabsInv
  OBVIOUS
<1> DEFINE r == CHOOSE r \in TabRequests : TRUE
<1>1. r \in TabRequests
  BY TabsAssumption
<1> HIDE DEF r
<1>2. documents = {RunnerDocument, r} /\ shownRequest = r /\ tabState = Reconcile(NoTabs, documents, shownRequest)
  BY DEF TabsInit, r
<1>3. documents \in SUBSET TabDocuments /\ shownRequest \in documents
  BY <1>1, <1>2, TabsAssumption DEF TabDocuments
<1>4. FitsIn(NoTabs, TabDocuments)
  <2>1. Nothing \in TabDocuments \cup {Nothing} /\ FALSE \in BOOLEAN /\ TabDocuments \in SUBSET TabDocuments
    OBVIOUS
  <2>2. QED
    BY <2>1, EmptyStrip, StateFits DEF NoTabs
<1>5. FitsIn(tabState, documents)
  BY <1>2, <1>3, <1>4, Reconciles
<1>6. FitsIn(tabState, TabDocuments)
  BY <1>3, <1>5, FitsMore
<1>7. QED
  BY <1>1, <1>2, <1>3, <1>6 DEF TabsInv

LEMMA TabsInvStep == TabsInv /\ [TabsNext]_tabVars => TabsInv'
<1> SUFFICES ASSUME TabsInv, [TabsNext]_tabVars PROVE TabsInv'
  OBVIOUS
<1>1. CASE Reconciled
  <2>1. tabState' = Effect(tabState) /\ documents' = documents /\ shownRequest' = shownRequest
    BY <1>1 DEF Reconciled
  <2>2. FitsIn(tabState', documents)
    BY <2>1, EffectFits
  <2>3. FitsIn(tabState', TabDocuments)
    BY <2>2, FitsMore DEF TabsInv
  <2>4. QED
    BY <2>1, <2>3 DEF TabsInv
<1>2. CASE UpdateActiveRequest \/ CloseAllDocuments \/ ReopenDocument
  BY <1>2, HandlerSteps
<1>3. CASE DeleteActiveRequest
  BY <1>3, DocumentSteps
<1>4. CASE Saved
  <2>1. tabState' = tabState /\ documents' = documents /\ shownRequest' = shownRequest
    BY <1>4 DEF Saved
  <2>2. QED
    BY <2>1 DEF TabsInv
<1>5. CASE Restart
  BY <1>5, RestartStep
<1>6. CASE \E offset \in {1, -1} : CycleDocument(offset)
  BY <1>6, HandlerSteps
<1>7. ASSUME NEW id \in TabRequests \cup TabOthers,
             \/ CloseDocument(id) \/ CloseOtherDocuments(id) \/ AddDocument(id) \/ OpenFromRunner(id)
             \/ DuplicateActiveRequest(id) \/ DeleteOther(id) \/ DeleteFolderDocument(id)
             \/ \E permanent \in BOOLEAN : OpenDocument(id, permanent)
             \/ \E target \in TabRequests \cup TabOthers, after \in 0 .. 1 : ReorderDocument(id, target, after)
      PROVE  TabsInv'
  <2>0. id \in TabDocuments
    BY DEF TabDocuments
  <2>1. CASE CloseDocument(id) \/ CloseOtherDocuments(id) \/ OpenFromRunner(id)
    BY <2>1, HandlerSteps
  <2>2. CASE AddDocument(id) \/ DuplicateActiveRequest(id) \/ DeleteOther(id) \/ DeleteFolderDocument(id)
    BY <2>0, <2>2, DocumentSteps
  <2>3. CASE \E permanent \in BOOLEAN : OpenDocument(id, permanent)
    BY <2>3, HandlerSteps
  <2>4. CASE \E target \in TabRequests \cup TabOthers, after \in 0 .. 1 : ReorderDocument(id, target, after)
    BY <2>4, HandlerSteps
  <2>5. QED
    BY <1>7, <2>1, <2>2, <2>3, <2>4
<1>8. CASE UNCHANGED tabVars
  <2>1. tabState' = tabState /\ documents' = documents /\ shownRequest' = shownRequest
    BY <1>8 DEF tabVars
  <2>2. QED
    BY <2>1 DEF TabsInv
<1>9. QED
  BY <1>1, <1>2, <1>3, <1>4, <1>5, <1>6, <1>7, <1>8 DEF TabsNext

\* The numbers of TabsSound, from strips whose tabs are distinct.
LEMMA StripCounts ==
  ASSUME NEW tabs, NEW valid, StripOf(tabs, valid)
  PROVE  /\ Cardinality(IdSet(tabs)) = Len(tabs)
         /\ Cardinality({k \in DOMAIN tabs : tabs[k].temporary}) <= 1
<1> DEFINE n == Len(tabs)
           ids == IdSet(tabs)
           temporaries == {k \in DOMAIN tabs : tabs[k].temporary}
<1>1. DOMAIN tabs = 1..n /\ n \in Nat /\ Distinct(tabs) /\ OneTemporary(tabs)
  BY StripIds DEF StripOf
<1>2. IsFiniteSet(1..n) /\ Cardinality(1..n) = n
  <2>1. n \in Int /\ 1 \in Int /\ n >= 0
    BY <1>1
  <2> HIDE DEF n
  <2>2. IsFiniteSet(1..n) /\ Cardinality(1..n) = IF 1 > n THEN 0 ELSE n - 1 + 1
    BY <2>1, FS_Interval
  <2>3. (IF 1 > n THEN 0 ELSE n - 1 + 1) = n
    BY <2>1
  <2>4. QED
    BY <2>2, <2>3
<1>3. Cardinality(ids) = n
  <2> DEFINE f == [k \in 1..n |-> tabs[k].id]
  <2>1. f \in [1..n -> ids]
    BY DEF IdSet
  <2>2. \A i, j \in 1..n : f[i] = f[j] => i = j
    BY <1>1 DEF Distinct
  <2>3. \A x \in ids : \E k \in 1..n : f[k] = x
    BY DEF IdSet
  <2>4. f \in Injection(1..n, ids)
    BY <2>1, <2>2 DEF Injection, IsInjective
  <2>5. f \in Surjection(1..n, ids)
    BY <2>1, <2>3 DEF Surjection
  <2>6. ExistsBijection(1..n, ids)
    BY <2>4, <2>5 DEF ExistsBijection, Bijection
  <2> HIDE DEF f, ids, n
  <2>7. QED
    BY <1>2, <2>6, FS_Bijection
<1>4. Cardinality(temporaries) <= 1
  <2>1. CASE temporaries = {}
    <3>1. Cardinality(temporaries) = 0
      BY <2>1, FS_EmptySet
    <3>2. QED
      BY <3>1
  <2>2. CASE temporaries # {}
    <3>1. PICK k \in temporaries : TRUE
      BY <2>2
    <3>2. \A j \in temporaries : j = k
      BY <1>1, <3>1 DEF OneTemporary
    <3>3. temporaries = {k}
      BY <3>1, <3>2
    <3>4. Cardinality(temporaries) = 1
      BY <3>3, FS_Singleton
    <3>5. QED
      BY <3>4
  <2>3. QED
    BY <2>1, <2>2
<1>5. QED
  BY <1>3, <1>4

LEMMA TabsInvSound == TabsInv => TabsSound
<1> SUFFICES ASSUME TabsInv, TabsSettled PROVE TabsSound
  BY DEF TabsSound
<1>1. /\ FitsIn(tabState, documents) /\ Clean(tabState, documents)
      /\ tabState.active \in TabRequests /\ Len(tabState.tabs) < MaxOpenTabs => tabState.active = shownRequest
  BY EffectFits DEF TabsSettled
<1>2. StripOf(tabState.tabs, documents)
  BY <1>1, StateFields
<1>3. TabIds(tabState.tabs) = IdSet(tabState.tabs)
  BY <1>2, StripIds
<1>4. /\ Cardinality(IdSet(tabState.tabs)) = Len(tabState.tabs)
      /\ Cardinality({k \in DOMAIN tabState.tabs : tabState.tabs[k].temporary}) <= 1
  BY <1>2, StripCounts
<1>5. QED
  BY <1>1, <1>3, <1>4 DEF TabsSound, Clean

\* Whatever is opened, closed, moved, created, deleted or restarted, once the
\* reconciling effect of App.tsx has settled, the strip is one a user can work
\* with (requestTabs.ts).
THEOREM TabsStaySound == TabsSpec => []TabsSound
<1>1. TabsSpec => []TabsInv
  BY TabsInvInit, TabsInvStep, PTL DEF TabsSpec
<1>2. QED
  BY <1>1, TabsInvSound, PTL

=============================================================================
