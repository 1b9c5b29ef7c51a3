---------------------------- MODULE MockServers ----------------------------
(***************************************************************************)
(* Mock servers: the routes a project keeps, the workbench that edits them *)
(* and pushes every edit to the running listener after a debounce, the     *)
(* response pane that turns a response into a route, and the registry of   *)
(* listeners in the desktop process.  Commands of the renderer are calls   *)
(* that reach the desktop process in any order; their answers come back    *)
(* later still.  Servers are known by id only: a duplicated project has    *)
(* servers of the same ids.                                                *)
(***************************************************************************)
EXTENDS Integers, FiniteSets

CONSTANTS MockIds,            \* ids of mock servers
          MockProjects,       \* projects, which share server ids
          MaxMockEdits,       \* bound: routes written
          MaxMockCalls,       \* bound: commands sent to the desktop process
          MaxProjectChanges   \* bound: project changes

ASSUME MockAssumptions ==
    /\ IsFiniteSet(MockIds) /\ MockIds # {} /\ MockProjects # {}
    /\ "unmounted" \notin MockIds
    /\ MaxMockEdits \in Nat /\ MaxMockCalls \in Nat /\ MaxProjectChanges \in Nat

VARIABLES mocks,       \* workspace.mockServers of every project
          mockProject, \* the active project
          bench,       \* the server the mounted workbench shows, or Unmounted
          runningMocks,\* React state: id -> number of the start that runs it, 0: none
          latestMock,  \* mockSyncTimeouts and latestMockServers: the routes a
                       \* pending timer will send, or NoTimer
          mockCalls,   \* commands and answers under way
          registry,    \* MockServerState.servers
          listeners,   \* listener tasks: [start, port], port 0 once the socket is closed
          changing,    \* "no", "stopping", "stopped": stopWorkspaceRuntime
          generatingMock, \* generateAiMock awaits the model
          mockEdits,   \* routes written so far: the next route's id and content
          mockSent,    \* commands sent so far: the next call's number
          mockChanges, \* project changes so far
          missed,      \* starts that left the list although nothing stopped them
          crossed      \* servers stopped by a stop meant for an earlier instance

mockVars == <<mocks, mockProject, bench, runningMocks, latestMock, mockCalls, registry,
              listeners, changing, generatingMock, mockEdits, mockSent, mockChanges,
              missed, crossed>>

mockRendererVars == <<mocks, mockProject, bench, runningMocks, latestMock, changing,
                  generatingMock, mockEdits, mockSent, mockChanges>>

NoMock == [port |-> 0, routes |-> {}]
Unmounted == "unmounted"
NoTimer == {[id |-> 0, at |-> "none", content |-> 0]}
NoInstance == [start |-> 0, seq |-> 0, routes |-> {}, late |-> FALSE]

\* Method and path of a route: two that can be served and one whose path does
\* not begin with a slash, which the editor accepts and the desktop process refuses.
Places == {"/a", "/b", "bad"}

\* validate_server_input: one unacceptable route refuses the whole command.
ValidRoutes(routes) == \A r \in routes : r.at # "bad"

Current == mocks[mockProject]
Exists(id) == Current[id] # NoMock
Ports == {4010 + n : n \in 0..Cardinality(MockIds)}
NextMockPort == CHOOSE p \in Ports : /\ \A id \in MockIds : Current[id].port # p
                                     /\ \A q \in Ports : q < p =>
                                          \E id \in MockIds : Current[id].port = q

MockCall(kind, id) == [kind |-> kind, id |-> id, n |-> mockSent + 1, routes |-> {}, port |-> 0,
                       phase |-> "asked", of |-> runningMocks[id]]

(***************************************************************************)
(* The workbench.  Every change of the shown server or of its address runs *)
(* the effect, which replaces the pending timer of that server.            *)
(***************************************************************************)

\* The synchronisation effect after the shown server became `routes' and the
\* running servers became `running'.
SyncEffect(shown, routes, running) ==
    IF shown # Unmounted /\ running[shown] # 0
    THEN [latestMock EXCEPT ![shown] = routes] ELSE latestMock

AllowEdit == mockEdits < MaxMockEdits

MockRoute(place) == [id |-> mockEdits + 1, at |-> place, content |-> mockEdits + 1]

\* updateServer with new routes for the shown server.
SetRoutes(routes) ==
    /\ mocks' = [mocks EXCEPT ![mockProject][bench].routes = routes]
    /\ mockEdits' = mockEdits + 1
    /\ latestMock' = SyncEffect(bench, routes, runningMocks)
    /\ UNCHANGED <<mockProject, bench, runningMocks, mockCalls, registry, listeners, changing,
                   generatingMock, mockSent, mockChanges, missed, crossed>>

AddRoute ==
    /\ AllowEdit /\ bench # Unmounted
    /\ \E place \in Places : SetRoutes(Current[bench].routes \cup {MockRoute(place)})

\* updateRoute, and overwriteRouteFromLatestResponse, which keeps the place.
UpdateRoute ==
    /\ AllowEdit /\ bench # Unmounted
    /\ \E r \in Current[bench].routes, place \in Places :
          SetRoutes((Current[bench].routes \ {r})
                        \cup {[r EXCEPT !.at = place, !.content = mockEdits + 1]})

DeleteRoute ==
    /\ AllowEdit /\ bench # Unmounted
    /\ \E r \in Current[bench].routes : SetRoutes(Current[bench].routes \ {r})

\* Opening a server or another one: the effect runs for the server shown now;
\* timers of servers shown before stay.
OpenBench ==
    /\ changing = "no"
    /\ \E id \in MockIds :
          /\ Exists(id) /\ bench # id
          /\ bench' = id
          /\ latestMock' = SyncEffect(id, Current[id].routes, runningMocks)
    /\ UNCHANGED <<mocks, mockProject, runningMocks, mockCalls, registry, listeners, changing,
                   generatingMock, mockEdits, mockSent, mockChanges, missed, crossed>>

\* Leaving the workbench clears every pending timer.
LeaveBench ==
    /\ bench # Unmounted
    /\ bench' = Unmounted
    /\ latestMock' = [id \in MockIds |-> NoTimer]
    /\ UNCHANGED <<mocks, mockProject, runningMocks, mockCalls, registry, listeners, changing,
                   generatingMock, mockEdits, mockSent, mockChanges, missed, crossed>>

\* A server made with the fixed first port, from the empty workbench or the tabs.
CreateMock ==
    /\ changing = "no"
    /\ \E id \in MockIds :
          /\ \A p \in MockProjects : mocks[p][id] = NoMock
          /\ mocks' = [mocks EXCEPT ![mockProject][id] = [port |-> 4010, routes |-> {}]]
          /\ bench' = id
    /\ UNCHANGED <<mockProject, runningMocks, latestMock, mockCalls, registry, listeners,
                   changing, generatingMock, mockEdits, mockSent, mockChanges, missed, crossed>>

\* generateAiMock: the guard on a second one, the wait, and the server it adds
\* to the project that is active when the model answers.
AskGenerate ==
    /\ bench # Unmounted /\ ~generatingMock
    /\ generatingMock' = TRUE
    /\ UNCHANGED <<mocks, mockProject, bench, runningMocks, latestMock, mockCalls, registry,
                   listeners, changing, mockEdits, mockSent, mockChanges, missed, crossed>>

GenerateReturns ==
    /\ generatingMock
    /\ generatingMock' = FALSE
    /\ \/ UNCHANGED <<mocks, bench, latestMock, mockEdits>>
       \/ /\ AllowEdit
          /\ \E id \in MockIds, port \in Ports :
                /\ \A p \in MockProjects : mocks[p][id] = NoMock
                /\ mocks' = [mocks EXCEPT ![mockProject][id] =
                                [port |-> port, routes |-> {MockRoute("/a")}]]
                /\ bench' = id
          /\ mockEdits' = mockEdits + 1
          /\ UNCHANGED latestMock
    /\ UNCHANGED <<mockProject, runningMocks, mockCalls, registry, listeners, changing,
                   mockSent, mockChanges, missed, crossed>>

\* The timer of a server fires and sends the latest routes seen.
SyncTimerFires ==
    /\ mockSent < MaxMockCalls
    /\ \E id \in MockIds :
          /\ latestMock[id] # NoTimer
          /\ latestMock' = [latestMock EXCEPT ![id] = NoTimer]
          /\ mockCalls' = mockCalls \cup {[MockCall("update", id) EXCEPT !.routes = latestMock[id]]}
    /\ mockSent' = mockSent + 1
    /\ UNCHANGED <<mocks, mockProject, bench, runningMocks, registry, listeners, changing,
                   generatingMock, mockEdits, mockChanges, missed, crossed>>

\* toggleServer: a running server is stopped, its pending timer dropped; any
\* other one is started with the routes and the port shown.
ToggleServer ==
    /\ mockSent < MaxMockCalls /\ bench # Unmounted
    /\ mockSent' = mockSent + 1
    /\ IF runningMocks[bench] # 0
       THEN /\ mockCalls' = mockCalls \cup {MockCall("stop", bench)}
            /\ latestMock' = [latestMock EXCEPT ![bench] = NoTimer]
       ELSE /\ mockCalls' = mockCalls \cup
                  {[MockCall("start", bench) EXCEPT !.routes = Current[bench].routes,
                                                    !.port = Current[bench].port]}
            /\ UNCHANGED latestMock
    /\ UNCHANGED <<mocks, mockProject, bench, runningMocks, registry, listeners, changing,
                   generatingMock, mockEdits, mockChanges, missed, crossed>>

(***************************************************************************)
(* The response pane, outside the workbench: a response becomes a route of *)
(* a new server, a new route of a server, or overwrites a route; a server  *)
(* that runs is sent its new routes at once.                               *)
(***************************************************************************)

\* applyResponseToMockTarget: the server after the response was applied.  A new
\* server takes a fresh id and the next free port; a new route must begin with a
\* slash and repeat no place of the server; an overwritten one keeps its place.
NewTargets(id) ==
    IF \A p \in MockProjects : mocks[p][id] = NoMock
    THEN {[port |-> NextMockPort, routes |-> {MockRoute("/a")}]} ELSE {}

RouteTargets(id) ==
    LET routes == Current[id].routes
        created == {routes \cup {MockRoute(place)} :
                      place \in {p \in Places \ {"bad"} : \A r \in routes : r.at # p}}
        overwritten == {(routes \ {r}) \cup {[r EXCEPT !.content = mockEdits + 1]} : r \in routes}
    IN  {[port |-> Current[id].port, routes |-> set] : set \in created \cup overwritten}

Targets(id) == IF Exists(id) THEN RouteTargets(id) ELSE NewTargets(id)

ApplyResponse ==
    /\ AllowEdit /\ bench = Unmounted /\ changing = "no"
    /\ \E id \in MockIds :
       \E server \in Targets(id) :
          /\ mocks' = [mocks EXCEPT ![mockProject][id] = server]
          /\ IF runningMocks[id] # 0
             THEN /\ mockSent < MaxMockCalls
                  /\ mockSent' = mockSent + 1
                  /\ mockCalls' = mockCalls
                        \cup {[MockCall("update", id) EXCEPT !.routes = server.routes]}
             ELSE UNCHANGED <<mockSent, mockCalls>>
    /\ mockEdits' = mockEdits + 1
    /\ UNCHANGED <<mockProject, bench, runningMocks, latestMock, registry, listeners, changing,
                   generatingMock, mockChanges, missed, crossed>>

(***************************************************************************)
(* The desktop process.                                                    *)
(***************************************************************************)

Replace(c, phase) == (mockCalls \ {c}) \cup {[c EXCEPT !.phase = phase]}

\* start_with_policy up to the bind: validation, the first look at the
\* registry, the socket.
StartBinds ==
    /\ \E c \in mockCalls :
          /\ c.kind = "start" /\ c.phase = "asked"
          /\ IF /\ ValidRoutes(c.routes)
                /\ registry[c.id] = NoInstance
                /\ \A l \in listeners : l.port # c.port
             THEN /\ mockCalls' = Replace(c, "bound")
                  /\ listeners' = listeners \cup {[start |-> c.n, port |-> c.port]}
             ELSE /\ mockCalls' = Replace(c, "failed")
                  /\ UNCHANGED listeners
    /\ UNCHANGED <<mockRendererVars, registry, missed, crossed>>

\* The second look at the registry and the registration.
StartRegisters ==
    /\ \E c \in mockCalls :
          /\ c.kind = "start" /\ c.phase = "bound"
          /\ IF registry[c.id] = NoInstance
             THEN /\ registry' = [registry EXCEPT ![c.id] =
                        [start |-> c.n, seq |-> c.n, routes |-> c.routes, late |-> FALSE]]
                  /\ mockCalls' = Replace(c, "done")
                  /\ UNCHANGED listeners
             ELSE /\ mockCalls' = Replace(c, "failed")
                  /\ listeners' = {l \in listeners : l.start # c.n}
                  /\ UNCHANGED registry
    /\ UNCHANGED <<mockRendererVars, missed, crossed>>

\* stop: the entry leaves the registry and its listener is told to shut down.
StopArrives ==
    /\ \E c \in mockCalls :
          /\ c.kind = "stop" /\ c.phase = "asked"
          /\ registry' = [registry EXCEPT ![c.id] = NoInstance]
          /\ mockCalls' = Replace(c, IF registry[c.id] # NoInstance THEN "done" ELSE "failed")
          /\ crossed' = IF registry[c.id].start \notin {0, c.of} THEN crossed \cup {c.id}
                        ELSE crossed
    /\ UNCHANGED <<mockRendererVars, listeners, missed>>

\* Mutant: the clean-up knows the server by its id and removes a replacement.
CleanupByName(start) ==
    [id \in MockIds |-> IF registry[id].start # 0 /\ start < registry[id].start
                        THEN NoInstance ELSE registry[id]]

\* What the task of a listener removes when its shutdown is over: the entry of
\* its own instance only.
Cleanup(start) ==
    [id \in MockIds |-> IF registry[id].start = start THEN NoInstance ELSE registry[id]]

\* A listener that was told to stop closes its socket at once and ends when its
\* open connections have; only then does its clean-up run.
ToldToStop(l) ==
    /\ \A id \in MockIds : registry[id].start # l.start
    /\ \A c \in mockCalls : ~(c.kind = "start" /\ c.n = l.start /\ c.phase = "bound")

SocketCloses ==
    /\ \E l \in listeners :
          /\ l.port # 0 /\ ToldToStop(l)
          /\ listeners' = (listeners \ {l}) \cup {[l EXCEPT !.port = 0]}
    /\ UNCHANGED <<mockRendererVars, mockCalls, registry, missed, crossed>>

ListenerEnds ==
    /\ \E l \in listeners :
          /\ l.port = 0
          /\ listeners' = listeners \ {l}
          /\ registry' = Cleanup(l.start)
    /\ UNCHANGED <<mockRendererVars, mockCalls, missed, crossed>>

\* update: validated, then written over the routes of whatever runs now.
UpdateArrives ==
    /\ \E c \in mockCalls :
          /\ c.kind = "update"
          /\ mockCalls' = mockCalls \ {c}
          /\ registry' = IF ValidRoutes(c.routes) /\ registry[c.id] # NoInstance
                         THEN [registry EXCEPT ![c.id] =
                                 [start |-> @.start, seq |-> IF c.n < @.seq THEN @.seq ELSE c.n,
                                  routes |-> c.routes, late |-> c.n < @.seq]]
                         ELSE registry
    /\ UNCHANGED <<mockRendererVars, listeners, missed, crossed>>

(***************************************************************************)
(* Answers, and the project change.                                        *)
(***************************************************************************)

\* Mutant: the effect depends on the shown server only.
StartedWithoutEffect(id, running) == latestMock

\* The effect once the answer of a start made `running': it runs because the
\* address of the shown server changed.
StartedEffect(id, running) ==
    IF bench = id THEN SyncEffect(id, Current[id].routes, running) ELSE latestMock

StartAnswered ==
    /\ \E c \in mockCalls :
          /\ c.kind = "start" /\ c.phase \in {"done", "failed"}
          /\ mockCalls' = mockCalls \ {c}
          /\ IF c.phase = "failed"
             THEN UNCHANGED <<runningMocks, latestMock, missed>>
             ELSE LET running == [runningMocks EXCEPT ![c.id] = c.n] IN
                  /\ runningMocks' = running
                  /\ latestMock' = StartedEffect(c.id, running)
                  /\ missed' = IF changing = "stopping" THEN missed \cup {c.n} ELSE missed
    /\ UNCHANGED <<mocks, mockProject, bench, registry, listeners, changing, generatingMock,
                   mockEdits, mockSent, mockChanges, crossed>>

\* A stop that succeeded removes the server from the list, one that failed only
\* shows its error.  The answer may come when a newer instance is registered.
StopAnswered ==
    /\ \E c \in mockCalls :
          /\ c.kind = "stop" /\ c.phase \in {"done", "failed"}
          /\ mockCalls' = mockCalls \ {c}
          /\ runningMocks' = IF c.phase = "done" THEN [runningMocks EXCEPT ![c.id] = 0]
                             ELSE runningMocks
          /\ missed' = IF c.phase = "done" /\ registry[c.id] # NoInstance
                       THEN missed \cup {registry[c.id].start} ELSE missed
    /\ UNCHANGED <<mocks, mockProject, bench, latestMock, registry, listeners, changing,
                   generatingMock, mockEdits, mockSent, mockChanges, crossed>>

\* stopWorkspaceRuntime asks for the end of every server listed as running.
ListedMocks == {id \in MockIds : runningMocks[id] # 0}

BeginProjectChange ==
    /\ changing = "no" /\ mockChanges < MaxProjectChanges
    /\ changing' = "stopping"
    /\ mockChanges' = mockChanges + 1
    /\ mockCalls' = mockCalls \cup
          {[MockCall("stop", id) EXCEPT !.kind = "stop for change"] : id \in ListedMocks}
    /\ UNCHANGED <<mocks, mockProject, bench, runningMocks, latestMock, registry, listeners,
                   generatingMock, mockEdits, mockSent, missed, crossed>>

ChangeStopArrives ==
    /\ \E c \in mockCalls :
          /\ c.kind = "stop for change"
          /\ mockCalls' = mockCalls \ {c}
          /\ registry' = [registry EXCEPT ![c.id] = NoInstance]
          /\ crossed' = IF registry[c.id].start \notin {0, c.of} THEN crossed \cup {c.id}
                        ELSE crossed
    /\ UNCHANGED <<mockRendererVars, listeners, missed>>

\* Every stop is settled: the list is emptied.
RuntimeStopped ==
    /\ changing = "stopping"
    /\ \A c \in mockCalls : c.kind # "stop for change"
    /\ changing' = "stopped"
    /\ runningMocks' = [id \in MockIds |-> 0]
    /\ UNCHANGED <<mocks, mockProject, bench, latestMock, mockCalls, registry, listeners,
                   generatingMock, mockEdits, mockSent, mockChanges, missed, crossed>>

\* The other project is adopted and the workbench unmounts; or the operation
\* failed and this project stays.
ProjectChanged ==
    /\ changing = "stopped"
    /\ changing' = "no"
    /\ \/ \E p \in MockProjects \ {mockProject} :
             /\ mockProject' = p
             /\ bench' = Unmounted
             /\ latestMock' = [id \in MockIds |-> NoTimer]
       \/ UNCHANGED <<mockProject, bench, latestMock>>
    /\ UNCHANGED <<mocks, runningMocks, mockCalls, registry, listeners, generatingMock,
                   mockEdits, mockSent, mockChanges, missed, crossed>>

MockInit ==
    /\ mockProject = CHOOSE p \in MockProjects : TRUE
    /\ LET first == CHOOSE id \in MockIds : TRUE IN
       mocks = [p \in MockProjects |-> [id \in MockIds |->
                  IF id = first THEN [port |-> 4010, routes |-> {}] ELSE NoMock]]
    /\ bench = Unmounted
    /\ runningMocks = [id \in MockIds |-> 0]
    /\ latestMock = [id \in MockIds |-> NoTimer]
    /\ mockCalls = {} /\ listeners = {} /\ missed = {} /\ crossed = {}
    /\ registry = [id \in MockIds |-> NoInstance]
    /\ changing = "no" /\ generatingMock = FALSE
    /\ mockEdits = 0 /\ mockSent = 0 /\ mockChanges = 0

MockNext ==
    \/ AddRoute \/ UpdateRoute \/ DeleteRoute \/ OpenBench \/ LeaveBench \/ CreateMock
    \/ AskGenerate \/ GenerateReturns \/ SyncTimerFires \/ ToggleServer \/ ApplyResponse
    \/ StartBinds \/ StartRegisters \/ StopArrives \/ SocketCloses \/ ListenerEnds \/ UpdateArrives
    \/ StartAnswered \/ StopAnswered
    \/ BeginProjectChange \/ ChangeStopArrives \/ RuntimeStopped \/ ProjectChanged

MockSpec == MockInit /\ [][MockNext]_mockVars

(***************************************************************************)
(* Properties.                                                             *)
(***************************************************************************)

StopUnderWay(id) == \E c \in mockCalls : c.id = id /\ c.kind \in {"stop", "stop for change"}

\* While the workbench shows a running server, the listener serves the routes
\* on the screen, or a timer or a command that carries exactly these is under
\* way, also when they were edited while the start was awaited or another
\* server was shown in between.  Only routes the desktop process refuses, a
\* command that overtook a newer one, and a stop under way are excused.
ServesEdits ==
    \A id \in MockIds :
        ( /\ bench = id /\ changing = "no" /\ ~StopUnderWay(id)
          /\ runningMocks[id] # 0 /\ registry[id].start = runningMocks[id]
          /\ ValidRoutes(Current[id].routes) /\ ~registry[id].late )
        => \/ registry[id].routes = Current[id].routes
           \/ latestMock[id] = Current[id].routes
           \/ \E c \in mockCalls : c.kind = "update" /\ c.id = id /\ c.routes = Current[id].routes

\* A server listed as running is registered, whatever listener closed
\* meanwhile, unless a stop for it is under way or one meant for an earlier
\* instance hit it.
ListedIsRegistered ==
    \A id \in MockIds :
        (runningMocks[id] # 0 /\ changing = "no" /\ ~StopUnderWay(id) /\ id \notin crossed)
            => registry[id] # NoInstance

\* A registered server nobody can stop from the window, because it is not
\* listed, has one of two causes: its start was answered while a project change
\* was emptying the list, or the answer of an earlier stop came after it.
OrphansHaveCause ==
    \A id \in MockIds :
        (registry[id] # NoInstance /\ runningMocks[id] = 0)
            => \/ registry[id].start \in missed
               \/ \E c \in mockCalls : c.kind = "start" /\ c.n = registry[id].start

\* What the mock workbench and the registry agree on.
MocksSound == ServesEdits /\ ListedIsRegistered /\ OrphansHaveCause
=============================================================================
