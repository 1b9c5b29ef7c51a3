--------------------------- MODULE SocketIoSession ---------------------------
(***************************************************************************)
(* One Socket.IO session of src-tauri/src/streaming.rs: the task that      *)
(* connect_socket_io spawns, the unbounded command channel that the        *)
(* commands of the user feed, and the loop that keeps the session alive    *)
(* over successive Engine.IO transports (run_socket_io_session).           *)
(*                                                                         *)
(* The WebSocket and the polling transport run the same loop over a        *)
(* different wire, so one model stands for both: what differs (a polling   *)
(* response carries several packets, an emit may exceed the payload limit  *)
(* of the server) is a choice of the environment here.  An emit is its     *)
(* number; event names, arguments and the text of errors are left out.     *)
(***************************************************************************)
EXTENDS Naturals, Sequences, FiniteSets, FiniteSetTheorems, TLAPS

CONSTANTS
    Events,        \* names that listeners can be set for
    MaxListeners,  \* MAX_SOCKET_IO_LISTENERS, 500 in the code
    Jitters,       \* values of the clock's sub-second part, modulo 1001
    MaxEmits,      \* bound: emits the user requests
    MaxLosses,     \* bound: transports that fail after they were opened
    MaxFailures,   \* bound: reconnect attempts that fail
    MaxPackets     \* bound: packets the server sends

ASSUME SessionAssumptions ==
    /\ IsFiniteSet(Events) /\ MaxListeners \in Nat
    /\ Jitters \subseteq 0..1000
    /\ MaxEmits \in Nat /\ MaxLosses \in Nat
    /\ MaxFailures \in Nat /\ MaxPackets \in Nat

VARIABLES
    phase,        \* where the task is: see Phases
    registered,   \* socket_io_sessions holds the sender of this session
    queue,        \* commands sent to the task and not yet received
    listeners,    \* listeners of the task
    pendingEmits, \* SocketIoRuntimeState.pending_emits
    nextAckId,    \* SocketIoRuntimeState.next_ack_id
    pendingAcks,  \* pending_acks of this transport: ack id -> emit
    pendingBinary,\* pending_binary: attachments still missing, ack answered
    attempt,      \* attempt of the reconnect loop
    delay,        \* delay_ms of the attempt being waited for
    why,          \* why run_socket_io_session returned
    wire,         \* emits written to the transport, not yet at the server
    server,       \* what the server saw: see Server
    answered,     \* acknowledgements shown to the user
    requested, losses, failures, packets,  \* counters for the bounds
    stuck         \* the task is in a write that never ends

sessionVars == <<phase, registered, queue, listeners, pendingEmits, nextAckId,
                 pendingAcks, pendingBinary, attempt, delay, why>>
flowingVars == <<sessionVars, wire, server, answered, requested, losses, failures,
                 packets>>
vars == <<flowingVars, stuck>>

-----------------------------------------------------------------------------
Phases == {"idle", "connected", "waiting", "connecting", "ended", "closed"}

Letter == [n : 1..MaxEmits, id : Nat]   \* an emit on the wire; id 0: no acknowledgement
Server == [seen : Seq(Letter), owed : Nat, rude : BOOLEAN]
Answer == [of : 1..MaxEmits, named : 1..MaxEmits]   \* the emit answered, the emit named
Emit == [op : {"emit"}, n : 1..MaxEmits, ack : BOOLEAN]
Command == Emit \cup [op : {"listen", "unlisten"}, event : Events]
                \cup [op : {"close"}]

NoBinary == [need |-> 0, id |-> 0]

-----------------------------------------------------------------------------
(* socket_io_reconnect_delay_ms: one second doubled with each attempt up   *)
(* to five, times a jitter of 0.5 to 1.5, then clamped.                    *)
BaseDelay(a) == IF a <= 3 THEN <<1000, 2000, 4000>>[a] ELSE 5000

\* The final clamp is left out.
UnclampedDelay(a, jitter) == (BaseDelay(a) * (500 + jitter)) \div 1000

socket_io_reconnect_delay_ms(a, jitter) ==
    LET jittered == (BaseDelay(a) * (500 + jitter)) \div 1000
    IN  IF jittered < 100 THEN 100
        ELSE IF jittered > 5000 THEN 5000 ELSE jittered

-----------------------------------------------------------------------------
Init ==
    /\ phase = "idle" /\ registered = FALSE
    /\ queue = <<>> /\ listeners = {}
    /\ pendingEmits = <<>> /\ nextAckId = 1 /\ pendingAcks = <<>>
    /\ pendingBinary = NoBinary /\ attempt = 0 /\ delay = 0 /\ why = "running"
    /\ wire = <<>>
    /\ server = [seen |-> <<>>, owed |-> 0, rude |-> FALSE]
    /\ answered = <<>>
    /\ requested = 0 /\ losses = 0 /\ failures = 0 /\ packets = 0
    /\ stuck = FALSE

(* connect_socket_io: the handshake succeeds; the sender is registered and *)
(* the task is spawned with the listeners of the request.                  *)
Connect ==
    /\ phase = "idle"
    /\ \E first \in SUBSET Events :
          /\ Cardinality(first) <= MaxListeners
          /\ listeners' = first
    /\ registered' = TRUE
    /\ phase' = "connected"
    /\ UNCHANGED <<queue, pendingEmits, nextAckId, pendingAcks, pendingBinary,
                   attempt, delay, why, wire, server, answered, requested,
                   losses, failures, packets>>

-----------------------------------------------------------------------------
(* The commands of the user.  Each looks the sender up and sends; once the *)
(* task returned, the send fails and nothing changes.                      *)

CanSend == registered /\ phase \notin {"idle", "ended", "closed"}

(* send_socket_io_message                                                  *)
SendMessage(ack) ==
    /\ CanSend /\ requested < MaxEmits
    /\ requested' = requested + 1
    /\ queue' = Append(queue, [op |-> "emit", n |-> requested + 1, ack |-> ack])
    /\ UNCHANGED <<phase, registered, listeners, pendingEmits, nextAckId,
                   pendingAcks, pendingBinary, attempt, delay, why, wire,
                   server, answered, losses, failures, packets>>

(* set_socket_io_listener.  The length guard bounds the model only.        *)
SetListener(op, event) ==
    /\ CanSend /\ Len(queue) < 2
    /\ queue' = Append(queue, [op |-> op, event |-> event])
    /\ UNCHANGED <<phase, registered, listeners, pendingEmits, nextAckId,
                   pendingAcks, pendingBinary, attempt, delay, why, wire,
                   server, answered, requested, losses, failures, packets>>

(* disconnect_socket_io removes the sender and sends Close.                *)
Disconnect ==
    /\ registered /\ phase # "closed"
    /\ registered' = FALSE
    /\ queue' = IF phase = "ended" THEN queue ELSE Append(queue, [op |-> "close"])
    /\ UNCHANGED <<phase, listeners, pendingEmits, nextAckId, pendingAcks,
                   pendingBinary, attempt, delay, why, wire, server, answered,
                   requested, losses, failures, packets>>

-----------------------------------------------------------------------------
(* Steps shared by the places where a transport is given up.               *)

\* A half received binary packet survives its transport.
LoseTransportKeepsBinary ==
    /\ losses < MaxLosses
    /\ losses' = losses + 1
    /\ phase' = "waiting"
    /\ attempt' = 1
    /\ \E j \in Jitters : delay' = socket_io_reconnect_delay_ms(1, j)
    /\ pendingAcks' = <<>> /\ UNCHANGED pendingBinary
    /\ wire' = <<>>
    /\ server' = [server EXCEPT !.owed = 0]

(* run_socket_io_session takes SocketIoSessionEnd::Reconnect: the state of *)
(* the transport (acks, binary packet, what was on the wire) goes with it, *)
(* the runtime state stays, and the first attempt starts waiting.          *)
LoseTransport ==
    /\ losses < MaxLosses
    /\ losses' = losses + 1
    /\ phase' = "waiting"
    /\ attempt' = 1
    /\ \E j \in Jitters : delay' = socket_io_reconnect_delay_ms(1, j)
    /\ pendingAcks' = <<>> /\ pendingBinary' = NoBinary
    /\ wire' = <<>>
    /\ server' = [server EXCEPT !.owed = 0]

(* run_socket_io_session returns.                                          *)
End(reason) ==
    /\ phase' = "ended" /\ why' = reason
    /\ pendingAcks' = <<>> /\ pendingBinary' = NoBinary
    /\ wire' = <<>>
    /\ server' = [server EXCEPT !.owed = 0]
    /\ UNCHANGED <<attempt, delay, losses>>

(* update_socket_io_listener                                               *)
update_socket_io_listener(c) ==
    IF c.op = "unlisten" THEN listeners \ {c.event}
    ELSE IF Cardinality(listeners) >= MaxListeners THEN listeners
    ELSE listeners \cup {c.event}

(* send_socket_io_*_emit of emit c: it is written, and acknowledgement ids *)
(* are taken only for what was written.                                    *)
WriteEmit(c) ==
    /\ wire' = Append(wire, [n |-> c.n, id |-> IF c.ack THEN nextAckId ELSE 0])
    /\ pendingAcks' = IF c.ack
                      THEN [i \in DOMAIN pendingAcks \cup {nextAckId} |->
                              IF i = nextAckId THEN c.n ELSE pendingAcks[i]]
                      ELSE pendingAcks
    /\ nextAckId' = IF c.ack THEN nextAckId + 1 ELSE nextAckId
    /\ UNCHANGED <<phase, pendingBinary, attempt, delay, why, server, losses>>

(* The three outcomes of sending an emit that has left its queue: written; *)
(* refused because it is too long for this transport or namespace (the     *)
(* session goes on); or the transport failed, and the emit with it.        *)
SendEmit(c) ==
    \/ WriteEmit(c)
    \/ UNCHANGED <<phase, wire, pendingAcks, pendingBinary, nextAckId, attempt,
                   delay, why, server, losses>>
    \/ LoseTransport /\ UNCHANGED <<nextAckId, why>>

-----------------------------------------------------------------------------
(* The loop of a live transport (run_socket_io_websocket_session and       *)
(* run_socket_io_polling_session).                                         *)

\* Offline emits go out only when another command waits.
FlushWithCommand ==
    /\ phase = "connected" /\ pendingEmits # <<>> /\ queue # <<>>
    /\ pendingEmits' = Tail(pendingEmits)
    /\ SendEmit(Head(pendingEmits))
    /\ UNCHANGED <<registered, queue, listeners, answered, requested, failures,
                   packets>>

(* Emits queued while offline go out before anything else is looked at.    *)
FlushPending ==
    /\ phase = "connected" /\ pendingEmits # <<>>
    /\ pendingEmits' = Tail(pendingEmits)
    /\ SendEmit(Head(pendingEmits))
    /\ UNCHANGED <<registered, queue, listeners, answered, requested, failures,
                   packets>>

(* The loop receives a command.                                            *)
TakeCommand ==
    /\ phase = "connected" /\ pendingEmits = <<>> /\ queue # <<>>
    /\ queue' = Tail(queue)
    /\ LET c == Head(queue) IN
       \/ /\ c.op = "emit"
          /\ SendEmit(c)
          /\ UNCHANGED listeners
       \/ /\ c.op \in {"listen", "unlisten"}
          /\ listeners' = update_socket_io_listener(c)
          /\ UNCHANGED <<phase, wire, pendingAcks, pendingBinary, nextAckId,
                         attempt, delay, why, server, losses>>
       \/ /\ c.op = "close"
          /\ End("client")
          /\ UNCHANGED <<listeners, nextAckId>>
    /\ UNCHANGED <<registered, pendingEmits, answered, requested, failures,
                   packets>>

(* The transport closes, fails or ends, or the Engine.IO server closes it. *)
TransportLost ==
    /\ phase = "connected" /\ pendingEmits = <<>>
    /\ LoseTransport
    /\ UNCHANGED <<registered, queue, listeners, pendingEmits, nextAckId, why,
                   answered, requested, failures, packets>>

-----------------------------------------------------------------------------
(* handle_socket_io_packet and handle_socket_io_binary_attachment.  The    *)
(* server chooses what it sends; "owed" are the attachments it announced   *)
(* and did not send yet, and it is "rude" once it breaks that order.       *)

Receiving ==
    /\ phase = "connected" /\ pendingEmits = <<>> /\ packets < MaxPackets
    /\ packets' = packets + 1
    /\ UNCHANGED <<registered, queue, listeners, pendingEmits, nextAckId,
                   requested, failures>>

\* The emits the server may acknowledge, early, late or twice.
Answerable == {e \in {server.seen[i] : i \in DOMAIN server.seen} : e.id # 0}

(* An acknowledgement with this id: shown when the id is pending here.     *)
Acknowledge(id, n) ==
    IF id \in DOMAIN pendingAcks
    THEN /\ pendingAcks' = [i \in DOMAIN pendingAcks \ {id} |-> pendingAcks[i]]
         /\ answered' = Append(answered, [of |-> n, named |-> pendingAcks[id]])
    ELSE UNCHANGED <<pendingAcks, answered>>

(* The heartbeat is answered; when that fails the transport is lost.       *)
ReceivePing ==
    /\ Receiving
    /\ \/ UNCHANGED <<phase, pendingAcks, pendingBinary, attempt, delay, wire,
                      server, losses>>
       \/ LoseTransport
    /\ UNCHANGED <<why, answered>>

(* An event or an acknowledgement as text: fatal between attachments.      *)
ReceiveText ==
    /\ Receiving
    /\ LET said == [server EXCEPT !.rude = @ \/ server.owed > 0] IN
       IF pendingBinary.need > 0
       THEN /\ phase' = "ended" /\ why' = "framing"
            /\ pendingAcks' = <<>> /\ pendingBinary' = NoBinary /\ wire' = <<>>
            /\ server' = [said EXCEPT !.owed = 0]
            /\ UNCHANGED answered
       ELSE /\ \/ \E p \in Answerable : Acknowledge(p.id, p.n)
               \/ UNCHANGED <<pendingAcks, answered>>
            /\ server' = said
            /\ UNCHANGED <<phase, why, pendingBinary, wire>>
    /\ UNCHANGED <<attempt, delay, losses>>

(* The text part of a binary packet that announces k attachments.          *)
ReceiveBinaryHeader(k, id) ==
    /\ Receiving
    /\ server.owed = 0
    /\ IF pendingBinary.need > 0
       THEN End("framing")
       ELSE /\ pendingBinary' = [need |-> k, id |-> id]
            /\ server' = [server EXCEPT !.owed = k]
            /\ UNCHANGED <<phase, why, pendingAcks, wire, attempt, delay, losses>>
    /\ UNCHANGED answered

(* An attachment; the last one completes the packet and delivers it.       *)
ReceiveAttachment ==
    /\ Receiving
    /\ LET said == [server EXCEPT !.rude = @ \/ server.owed = 0,
                                  !.owed = IF @ > 0 THEN @ - 1 ELSE 0] IN
       IF pendingBinary.need = 0
       THEN /\ phase' = "ended" /\ why' = "framing"
            /\ pendingAcks' = <<>> /\ wire' = <<>>
            /\ server' = [said EXCEPT !.owed = 0]
            /\ UNCHANGED <<pendingBinary, answered>>
       ELSE /\ pendingBinary' = IF pendingBinary.need = 1 THEN NoBinary
                                ELSE [pendingBinary EXCEPT !.need = @ - 1]
            /\ IF pendingBinary.need = 1 /\ pendingBinary.id > 0
               THEN \E p \in Answerable : /\ p.id = pendingBinary.id
                                          /\ Acknowledge(p.id, p.n)
               ELSE UNCHANGED <<pendingAcks, answered>>
            /\ server' = said
            /\ UNCHANGED <<phase, why, wire>>
    /\ UNCHANGED <<attempt, delay, losses>>

(* Malformed or oversized data, a connect error, or the namespace is       *)
(* disconnected: the session is over.                                      *)
ReceiveFatal ==
    /\ Receiving
    /\ End("server")
    /\ UNCHANGED answered

(* A write of the loop, which has no deadline, never ends, because the peer*)
(* does not read: of an emit, of the disconnect packet, or of the answer to*)
(* a ping.  The loop sees neither commands nor packets any more.  (The     *)
(* command stays in the model's queue, where nothing looks at it.)         *)
WriteStalls ==
    /\ phase = "connected" /\ ~stuck
    /\ \/ pendingEmits # <<>>
       \/ queue # <<>> /\ Head(queue).op \in {"emit", "close"}
       \/ packets < MaxPackets
    /\ stuck' = TRUE
    /\ UNCHANGED flowingVars

(* The server reads the next emit from the wire (external).                *)
ServerReads ==
    /\ phase = "connected" /\ wire # <<>>
    /\ wire' = Tail(wire)
    /\ server' = [server EXCEPT !.seen = Append(@, Head(wire))]
    /\ UNCHANGED <<sessionVars, answered, requested, losses, failures, packets>>

-----------------------------------------------------------------------------
(* The reconnect loop of run_socket_io_session.                            *)

\* A Close that arrives offline is consumed and forgotten.
OfflineForgetsClose ==
    /\ phase \in {"waiting", "connecting"} /\ queue # <<>>
    /\ queue' = Tail(queue)
    /\ LET c == Head(queue) IN
       /\ pendingEmits' = IF c.op = "emit" THEN Append(pendingEmits, c)
                          ELSE pendingEmits
       /\ listeners' = IF c.op \in {"listen", "unlisten"}
                       THEN update_socket_io_listener(c) ELSE listeners
    /\ UNCHANGED <<phase, why, pendingAcks, pendingBinary, wire, server, attempt,
                   delay, losses, registered, nextAckId, answered, requested,
                   failures, packets>>

\* Offline emits are pushed to the front.
OfflinePushesFront ==
    /\ phase \in {"waiting", "connecting"} /\ queue # <<>>
    /\ queue' = Tail(queue)
    /\ LET c == Head(queue) IN
       /\ pendingEmits' = IF c.op = "emit" THEN <<c>> \o pendingEmits
                          ELSE pendingEmits
       /\ listeners' = IF c.op \in {"listen", "unlisten"}
                       THEN update_socket_io_listener(c) ELSE listeners
       /\ IF c.op = "close"
          THEN End("client")
          ELSE UNCHANGED <<phase, why, pendingAcks, pendingBinary, wire, server,
                           attempt, delay, losses>>
    /\ UNCHANGED <<registered, nextAckId, answered, requested, failures, packets>>

(* queue_socket_io_offline_command, during the delay or the handshake.     *)
OfflineCommand ==
    /\ phase \in {"waiting", "connecting"} /\ queue # <<>>
    /\ queue' = Tail(queue)
    /\ LET c == Head(queue) IN
       /\ pendingEmits' = IF c.op = "emit" THEN Append(pendingEmits, c)
                          ELSE pendingEmits
       /\ listeners' = IF c.op \in {"listen", "unlisten"}
                       THEN update_socket_io_listener(c) ELSE listeners
       /\ IF c.op = "close"
          THEN End("client")
          ELSE UNCHANGED <<phase, why, pendingAcks, pendingBinary, wire, server,
                           attempt, delay, losses>>
    /\ UNCHANGED <<registered, nextAckId, answered, requested, failures, packets>>

(* wait_for_socket_io_reconnect: the delay is over.                        *)
DelayOver ==
    /\ phase = "waiting"
    /\ phase' = "connecting"
    /\ delay' = 0
    /\ UNCHANGED <<registered, queue, listeners, pendingEmits, nextAckId,
                   pendingAcks, pendingBinary, attempt, why, wire, server,
                   answered, requested, losses, failures, packets>>

\* Acknowledgement ids restart with each transport.
ReconnectRestartsAcks ==
    /\ phase = "connecting"
    /\ phase' = "connected"
    /\ attempt' = 0
    /\ nextAckId' = 1
    /\ UNCHANGED <<registered, queue, listeners, pendingEmits,
                   pendingAcks, pendingBinary, delay, why, wire, server,
                   answered, requested, losses, failures, packets>>

(* reconnect_socket_io_transport returns a new transport.                  *)
ReconnectOk ==
    /\ phase = "connecting"
    /\ phase' = "connected"
    /\ attempt' = 0
    /\ UNCHANGED <<registered, queue, listeners, pendingEmits, nextAckId,
                   pendingAcks, pendingBinary, delay, why, wire, server,
                   answered, requested, losses, failures, packets>>

(* reconnect_socket_io_transport fails or times out: the next attempt.     *)
ReconnectFails ==
    /\ phase = "connecting" /\ failures < MaxFailures
    /\ failures' = failures + 1
    /\ phase' = "waiting"
    /\ attempt' = attempt + 1
    /\ \E j \in Jitters : delay' = socket_io_reconnect_delay_ms(attempt + 1, j)
    /\ UNCHANGED <<registered, queue, listeners, pendingEmits, nextAckId,
                   pendingAcks, pendingBinary, why, wire, server, answered,
                   requested, losses, packets>>

(* The spawned task removes the sender, whatever the map holds by then,    *)
(* and reports "closed".                                                   *)
Unregister ==
    /\ phase = "ended"
    /\ phase' = "closed" /\ registered' = FALSE
    /\ queue' = <<>> /\ pendingEmits' = <<>>
    /\ UNCHANGED <<listeners, nextAckId, pendingAcks, pendingBinary, attempt,
                   delay, why, wire, server, answered, requested, losses,
                   failures, packets>>

-----------------------------------------------------------------------------
UserStep ==
    \/ \E ack \in BOOLEAN : SendMessage(ack)
    \/ \E op \in {"listen", "unlisten"}, e \in Events : SetListener(op, e)
    \/ Disconnect

Receive ==
    \/ ReceivePing \/ ReceiveText \/ ReceiveAttachment \/ ReceiveFatal
    \/ \E k \in 1..2, id \in {0} \cup {p.id : p \in Answerable} :
          ReceiveBinaryHeader(k, id)

TaskStep == FlushPending \/ TakeCommand \/ OfflineCommand \/ DelayOver
            \/ Unregister

Handshake == ReconnectOk \/ ReconnectFails

(* A task that is in a write does nothing else.                            *)
Free(action) == ~stuck /\ UNCHANGED stuck /\ action

Next ==
    \/ UNCHANGED stuck /\ (Connect \/ UserStep \/ ServerReads)
    \/ Free(TransportLost \/ Receive \/ TaskStep \/ Handshake)
    \/ WriteStalls

(* The runtime schedules the task; select! picks among the branches that   *)
(* are ready at random, so a timer that fired and a command that arrived   *)
(* are each taken in the end.  Nothing is assumed of the peer: neither that*)
(* a write ends nor that a handshake does, which has no timeout when that  *)
(* of the request is 0.                                                    *)
Fairness ==
    /\ WF_vars(Free(FlushPending)) /\ WF_vars(Free(TakeCommand)) /\ WF_vars(Free(OfflineCommand))
    /\ WF_vars(Free(DelayOver)) /\ WF_vars(Free(Unregister))

Spec == Init /\ [][Next]_vars /\ Fairness

-----------------------------------------------------------------------------
(* Every variable stays within its type, no listener is kept beyond        *)
(* MAX_SOCKET_IO_LISTENERS, only numbers that were given out await an      *)
(* acknowledgement, and the jittered delay of an attempt is 0.5 to 1.5     *)
(* seconds at first and never above five.                                  *)
TypeOK ==
    /\ phase \in Phases /\ registered \in BOOLEAN
    /\ queue \in Seq(Command) /\ pendingEmits \in Seq(Emit)
    /\ listeners \subseteq Events /\ Cardinality(listeners) <= MaxListeners
    /\ nextAckId \in Nat \ {0}
    /\ DOMAIN pendingAcks \subseteq 1..(nextAckId - 1)
    /\ \A id \in DOMAIN pendingAcks : pendingAcks[id] \in 1..MaxEmits
    /\ requested \in 0..MaxEmits
    /\ pendingBinary \in [need : Nat, id : Nat]
    /\ attempt \in Nat /\ delay \in Nat
    /\ phase = "waiting" => delay >= 500 /\ delay <= IF attempt = 1 THEN 1500 ELSE 5000
    /\ why \in {"running", "client", "server", "framing"}
    /\ wire \in Seq(Letter)
    /\ server \in Server
    /\ answered \in Seq(Answer)

Increasing(s, I) == \A i, j \in I : i < j => s[i].n < s[j].n
Before(s, t, J) == \A i \in DOMAIN s, j \in J : s[i].n < t[j].n

(* Emits reach the server in the order they were requested and at most     *)
(* once, over any number of transports: what the server saw, what is on    *)
(* the wire, what waits in pending_emits and what waits in the channel     *)
(* form one strictly increasing sequence.  (Nothing is replayed, and       *)
(* offline emits do not overtake each other or later ones.)                *)
InOrderOnce ==
    LET wired == DOMAIN wire
        offline == DOMAIN pendingEmits
        queued == {i \in DOMAIN queue : queue[i].op = "emit"}
    IN  /\ Increasing(server.seen, DOMAIN server.seen) /\ Increasing(wire, wired)
        /\ Increasing(pendingEmits, offline) /\ Increasing(queue, queued)
        /\ Before(server.seen, wire, wired) /\ Before(server.seen, pendingEmits, offline)
        /\ Before(server.seen, queue, queued) /\ Before(wire, pendingEmits, offline)
        /\ Before(wire, queue, queued) /\ Before(pendingEmits, queue, queued)

(* An acknowledgement is shown for the emit that the server answered, and  *)
(* once, although a new transport starts with no pending acknowledgement   *)
(* and a server may answer late.                                           *)
AckNamesItsEmit ==
    \A i \in 1..Len(answered) :
        /\ answered[i].of = answered[i].named
        /\ \A j \in 1..Len(answered) : answered[i].of = answered[j].of => i = j

(* A server that sends the attachments it announced, and only those, never *)
(* has its session ended for a framing error, even when a transport was    *)
(* lost between two attachments.                                           *)
FramedServerKeepsSession == why = "framing" => server.rude

(* A disconnect ends the session wherever the task is, in a transport, in  *)
(* the delay or in a handshake, unless it is in a write that never ends.   *)
DisconnectEnds == (phase # "idle" /\ ~registered) ~> (phase = "closed" \/ stuck)

(* An emit does not stay queued: it is written, refused or lost with its   *)
(* transport, unless no handshake ends any more or a write never ends.     *)
Held(n) == \E i \in 1..Len(pendingEmits) : pendingEmits[i].n = n
EmitsLeave ==
    []<>(phase # "connecting") => \A n \in 1..MaxEmits : []<>(~Held(n) \/ stuck)

(* What a session does with emits, as one invariant (streaming.rs, the     *)
(* Socket.IO task).                                                        *)
EmitsExact == TypeOK /\ InOrderOnce /\ AckNamesItsEmit /\ FramedServerKeepsSession

(* What it must get done, whatever the transports do (streaming.rs, the    *)
(* reconnect loop of the Socket.IO task).                                  *)
SessionSettles == DisconnectEnds /\ EmitsLeave

-----------------------------------------------------------------------------
(* Proof of EmitsExact, for any events, jitters and bounds.                *)

\* No emit on its way has a number that was not given out yet.
NumbersGiven ==
    /\ \A i \in DOMAIN server.seen : server.seen[i].n <= requested
    /\ \A i \in DOMAIN wire : wire[i].n <= requested
    /\ \A i \in DOMAIN pendingEmits : pendingEmits[i].n <= requested
    /\ \A i \in DOMAIN queue : queue[i].op = "emit" => queue[i].n <= requested

\* An acknowledgement id stands for one emit, over all transports.
IdsUnique ==
    LET seen == server.seen
    IN  /\ \A i \in DOMAIN seen : seen[i].id < nextAckId
        /\ \A i \in DOMAIN wire : wire[i].id < nextAckId
        /\ \A i, j \in DOMAIN seen : seen[i].id = seen[j].id /\ seen[i].id # 0 => i = j
        /\ \A i, j \in DOMAIN wire : wire[i].id = wire[j].id /\ wire[i].id # 0 => i = j
        /\ \A i \in DOMAIN seen, j \in DOMAIN wire : seen[i].id = wire[j].id => seen[i].id = 0

\* What awaits an acknowledgement was read by the server or is on the wire.
AcksTraced ==
    \A id \in DOMAIN pendingAcks :
        \/ \E i \in DOMAIN server.seen : server.seen[i] = [id |-> id, n |-> pendingAcks[id]]
        \/ \E i \in DOMAIN wire : wire[i] = [id |-> id, n |-> pendingAcks[id]]

\* What was shown as acknowledged no longer awaits it.
AnsweredOnce ==
    \A i \in DOMAIN answered :
        \E e \in Answerable : e.n = answered[i].of /\ e.id \notin DOMAIN pendingAcks

\* The task misses as many attachments as a well-behaved server owes.
FramesAgree == ~server.rude => pendingBinary.need = server.owed

OrderInv == InOrderOnce /\ NumbersGiven
AcksInv == IdsUnique /\ AcksTraced /\ AnsweredOnce /\ AckNamesItsEmit
FramesInv == FramesAgree /\ FramedServerKeepsSession

SessionInv == TypeOK /\ OrderInv /\ AcksInv /\ FramesInv

LEMMA TailFits ==
  ASSUME NEW S, NEW s \in Seq(S), s # <<>>
  PROVE  /\ Tail(s) \in Seq(S) /\ Head(s) \in S /\ Head(s) = s[1] /\ 1 \in DOMAIN s
         /\ \A i \in DOMAIN Tail(s) : i + 1 \in DOMAIN s /\ i \in Nat /\ Tail(s)[i] = s[i + 1]
  OBVIOUS

LEMMA AppendFits ==
  ASSUME NEW S, NEW s \in Seq(S), NEW x \in S
  PROVE  /\ Append(s, x) \in Seq(S) /\ DOMAIN Append(s, x) = DOMAIN s \cup {Len(s) + 1}
         /\ Append(s, x)[Len(s) + 1] = x
         /\ \A i \in DOMAIN s : Append(s, x)[i] = s[i] /\ i \in Nat /\ i < Len(s) + 1
  OBVIOUS

\* socket_io_reconnect_delay_ms: half a second to five, the first time to 1.5.
LEMMA FirstDelayFits ==
  ASSUME NEW j \in Jitters
  PROVE  LET d == socket_io_reconnect_delay_ms(1, j) IN d \in Nat /\ d >= 500 /\ d <= 1500
  BY SessionAssumptions DEF socket_io_reconnect_delay_ms, BaseDelay

LEMMA LossDelays ==
  ASSUME LoseTransport
  PROVE  delay' \in Nat /\ delay' >= 500 /\ delay' <= 1500
  <1>1. PICK j \in Jitters : delay' = socket_io_reconnect_delay_ms(1, j)
    BY DEF LoseTransport
  <1>2. QED
    BY <1>1, FirstDelayFits

LEMMA DelayFits ==
  ASSUME NEW a \in Nat, NEW j \in Jitters, a > 0
  PROVE  LET d == socket_io_reconnect_delay_ms(a, j) IN d \in Nat /\ d >= 500 /\ d <= 5000
  <1>1. j \in 0..1000
    BY SessionAssumptions
  <1>2. a \in {1, 2, 3} \/ a > 3
    OBVIOUS
  <1>3. BaseDelay(a) \in {1000, 2000, 4000, 5000}
    BY <1>2 DEF BaseDelay
  <1>4. \A base \in {1000, 2000, 4000, 5000} : (base * (500 + j)) \div 1000 \in Nat
                                            /\ (base * (500 + j)) \div 1000 >= 500
    BY <1>1
  <1> DEFINE jittered == (BaseDelay(a) * (500 + j)) \div 1000
  <1>5. jittered \in Nat /\ jittered >= 500
    BY <1>3, <1>4
  <1>6. socket_io_reconnect_delay_ms(a, j) =
          IF jittered < 100 THEN 100 ELSE IF jittered > 5000 THEN 5000 ELSE jittered
    BY DEF socket_io_reconnect_delay_ms
  <1> HIDE DEF jittered
  <1>7. QED
    BY <1>5, <1>6

LEMMA RetryDelays ==
  ASSUME NEW a \in Nat, NEW j \in Jitters, a > 0, delay' = socket_io_reconnect_delay_ms(a, j), attempt' = a
  PROVE  delay' \in Nat /\ delay' >= 500 /\ delay' <= IF attempt' = 1 THEN 1500 ELSE 5000
  <1>1. CASE a = 1
    BY <1>1, FirstDelayFits
  <1>2. CASE a # 1
    <2>1. delay' \in Nat /\ delay' >= 500 /\ delay' <= 5000
      BY DelayFits
    <2>2. QED
      BY <1>2, <2>1
  <1>3. QED
    BY <1>1, <1>2

LEMMA Typed ==
  ASSUME TypeOK
  PROVE  /\ queue \in Seq(Command) /\ pendingEmits \in Seq(Emit) /\ wire \in Seq(Letter)
         /\ server.seen \in Seq(Letter) /\ server.owed \in Nat /\ server.rude \in BOOLEAN
         /\ answered \in Seq(Answer) /\ requested \in Nat
         /\ nextAckId \in Nat /\ nextAckId # 0 /\ DOMAIN pendingAcks \subseteq 1..(nextAckId - 1)
  BY DEF TypeOK, Server

LEMMA NumbersTyped ==
  ASSUME TypeOK
  PROVE  /\ \A i \in DOMAIN server.seen : i \in Nat /\ server.seen[i].n \in Nat /\ server.seen[i].id \in Nat
         /\ \A i \in DOMAIN wire : i \in Nat /\ wire[i].n \in Nat /\ wire[i].id \in Nat
         /\ \A i \in DOMAIN pendingEmits : i \in Nat /\ pendingEmits[i].n \in Nat
         /\ \A i \in DOMAIN queue : i \in Nat /\ (queue[i].op = "emit" => queue[i].n \in Nat)
  <1>1. \A c \in Letter : c.n \in Nat /\ c.id \in Nat
    BY DEF Letter
  <1>2. \A c \in Emit : c.n \in Nat
    BY DEF Emit
  <1>3. \A c \in Command : c.op = "emit" => c.n \in Nat
    BY <1>2 DEF Command
  <1>4. ASSUME NEW S, NEW s \in Seq(S), NEW i \in DOMAIN s PROVE i \in Nat /\ s[i] \in S
    OBVIOUS
  <1>5. \A i \in DOMAIN server.seen : i \in Nat /\ server.seen[i] \in Letter
    BY <1>4, Typed
  <1>6. \A i \in DOMAIN wire : i \in Nat /\ wire[i] \in Letter
    BY <1>4, Typed
  <1>7. \A i \in DOMAIN pendingEmits : i \in Nat /\ pendingEmits[i] \in Emit
    BY <1>4, Typed
  <1>8. \A i \in DOMAIN queue : i \in Nat /\ queue[i] \in Command
    BY <1>4, Typed
  <1>9. QED
    BY <1>1, <1>2, <1>3, <1>5, <1>6, <1>7, <1>8

\* Emits that leave the wire, pending_emits or the channel disturb no order.
LEMMA OrderOfFewer ==
  ASSUME TypeOK, OrderInv, server'.seen = server.seen, requested' = requested, wire' \in {wire, <<>>},
         \/ pendingEmits' \in {pendingEmits, <<>>}
         \/ pendingEmits # <<>> /\ pendingEmits' = Tail(pendingEmits),
         \/ queue' \in {queue, <<>>}
         \/ queue # <<>> /\ queue' = Tail(queue)
  PROVE  OrderInv'
  <1>1. \E k \in {0, 1} : \A i \in DOMAIN pendingEmits' :
           i \in Nat /\ i + k \in DOMAIN pendingEmits /\ pendingEmits'[i] = pendingEmits[i + k]
    <2>1. CASE pendingEmits' \in {pendingEmits, <<>>}
      BY <2>1 DEF TypeOK
    <2>2. CASE pendingEmits # <<>> /\ pendingEmits' = Tail(pendingEmits)
      BY <2>2, TailFits DEF TypeOK
    <2>3. QED
      BY <2>1, <2>2
  <1>2. \E k \in {0, 1} : \A i \in DOMAIN queue' :
           i \in Nat /\ i + k \in DOMAIN queue /\ queue'[i] = queue[i + k]
    <2>1. CASE queue' \in {queue, <<>>}
      BY <2>1 DEF TypeOK
    <2>2. CASE queue # <<>> /\ queue' = Tail(queue)
      BY <2>2, TailFits DEF TypeOK
    <2>3. QED
      BY <2>1, <2>2
  <1>3. \A i \in DOMAIN wire' : i \in DOMAIN wire /\ wire'[i] = wire[i]
    OBVIOUS
  <1>4. PICK k \in {0, 1} : \A i \in DOMAIN pendingEmits' :
           i \in Nat /\ i + k \in DOMAIN pendingEmits /\ pendingEmits'[i] = pendingEmits[i + k]
    BY <1>1
  <1>5. PICK l \in {0, 1} : \A i \in DOMAIN queue' :
           i \in Nat /\ i + l \in DOMAIN queue /\ queue'[i] = queue[i + l]
    BY <1>2
  <1>6. NumbersGiven'
    BY <1>3, <1>4, <1>5 DEF OrderInv, NumbersGiven
  <1>7. Increasing(pendingEmits, DOMAIN pendingEmits)'
    BY <1>4 DEF OrderInv, InOrderOnce, Increasing
  <1>8. Increasing(queue, {i \in DOMAIN queue : queue[i].op = "emit"})'
    BY <1>5 DEF OrderInv, InOrderOnce, Increasing
  <1>9. Before(pendingEmits, queue, {i \in DOMAIN queue : queue[i].op = "emit"})'
    BY <1>4, <1>5 DEF OrderInv, InOrderOnce, Before
  <1>10. (/\ Before(wire, pendingEmits, DOMAIN pendingEmits)
          /\ Before(wire, queue, {i \in DOMAIN queue : queue[i].op = "emit"}))'
    BY <1>3, <1>4, <1>5 DEF OrderInv, InOrderOnce, Before
  <1>11. (/\ Before(server.seen, pendingEmits, DOMAIN pendingEmits)
          /\ Before(server.seen, queue, {i \in DOMAIN queue : queue[i].op = "emit"}))'
    BY <1>4, <1>5 DEF OrderInv, InOrderOnce, Before
  <1>12. (/\ Increasing(server.seen, DOMAIN server.seen) /\ Increasing(wire, DOMAIN wire)
          /\ Before(server.seen, wire, DOMAIN wire))'
    BY <1>3 DEF OrderInv, InOrderOnce, Increasing, Before
  <1>13. QED
    BY <1>6, <1>7, <1>8, <1>9, <1>10, <1>11, <1>12 DEF OrderInv, InOrderOnce

\* send_socket_io_message: the next number, at the end of the channel.
LEMMA OrderOfRequest ==
  ASSUME TypeOK, OrderInv, NEW c \in Emit, c.n = requested + 1, queue' = Append(queue, c), requested' = requested + 1,
         UNCHANGED <<server, wire, pendingEmits>>
  PROVE  OrderInv'
  <1>1. c \in Command /\ c.op = "emit"
    BY DEF Command, Emit
  <1>2. /\ DOMAIN queue' = DOMAIN queue \cup {Len(queue) + 1} /\ queue'[Len(queue) + 1] = c
        /\ \A i \in DOMAIN queue : queue'[i] = queue[i] /\ i \in Nat /\ i < Len(queue) + 1
    BY <1>1, AppendFits DEF TypeOK
  <1>3. Len(queue) + 1 \in Nat /\ requested \in Nat
    BY DEF TypeOK
  <1>4. QED
    BY <1>1, <1>2, <1>3, NumbersTyped DEF OrderInv, InOrderOnce, NumbersGiven, Increasing, Before

\* Any other command at the end of the channel.
LEMMA OrderOfCommand ==
  ASSUME TypeOK, OrderInv, NEW c \in Command, c.op # "emit", queue' = Append(queue, c),
         UNCHANGED <<server, wire, pendingEmits, requested>>
  PROVE  OrderInv'
  <1>1. /\ DOMAIN queue' = DOMAIN queue \cup {Len(queue) + 1} /\ queue'[Len(queue) + 1] = c
        /\ \A i \in DOMAIN queue : queue'[i] = queue[i]
    BY AppendFits DEF TypeOK
  <1>2. QED
    BY <1>1 DEF OrderInv, InOrderOnce, NumbersGiven, Increasing, Before

\* queue_socket_io_offline_command: from the channel to the end of pending_emits.
LEMMA OrderOfOffline ==
  ASSUME TypeOK, OrderInv, queue # <<>>, Head(queue).op = "emit", queue' = Tail(queue),
         pendingEmits' = Append(pendingEmits, Head(queue)), UNCHANGED <<server, wire, requested>>
  PROVE  OrderInv'
  <1> DEFINE c == Head(queue)
  <1>1. c = queue[1] /\ 1 \in DOMAIN queue /\ c \in Emit
    <2>1. queue \in Seq(Command)
      BY DEF TypeOK
    <2>2. Head(queue) \in Command /\ c = queue[1] /\ 1 \in DOMAIN queue
      BY <2>1, TailFits
    <2>3. QED
      BY <2>2 DEF Command
  <1>2. \A i \in DOMAIN queue' : i + 1 \in DOMAIN queue /\ i \in Nat /\ i > 0 /\ queue'[i] = queue[i + 1]
    BY TailFits DEF TypeOK
  <1>3. /\ DOMAIN pendingEmits' = DOMAIN pendingEmits \cup {Len(pendingEmits) + 1}
        /\ pendingEmits'[Len(pendingEmits) + 1] = c
        /\ \A i \in DOMAIN pendingEmits : pendingEmits'[i] = pendingEmits[i] /\ i \in Nat /\ i < Len(pendingEmits) + 1
        /\ Len(pendingEmits) + 1 \in Nat
    BY <1>1, AppendFits DEF TypeOK
  <1> HIDE DEF c
  <1>4. QED
    BY <1>1, <1>2, <1>3 DEF OrderInv, InOrderOnce, NumbersGiven, Increasing, Before

\* An emit is written: the first one of pending_emits, or the first command
\* of the channel while nothing waits in pending_emits.
LEMMA OrderOfWrite ==
  ASSUME TypeOK, OrderInv, NEW c \in Emit, NEW id \in Nat, wire' = Append(wire, [n |-> c.n, id |-> id]),
         \/ pendingEmits # <<>> /\ c = Head(pendingEmits) /\ pendingEmits' = Tail(pendingEmits) /\ queue' = queue
         \/ pendingEmits = <<>> /\ pendingEmits' = pendingEmits
            /\ queue # <<>> /\ c = Head(queue) /\ queue' = Tail(queue),
         server' = server, requested' = requested
  PROVE  OrderInv'
  <1>1. /\ DOMAIN wire' = DOMAIN wire \cup {Len(wire) + 1} /\ wire'[Len(wire) + 1].n = c.n
        /\ \A i \in DOMAIN wire : wire'[i] = wire[i] /\ i \in Nat /\ i < Len(wire) + 1
        /\ Len(wire) + 1 \in Nat
    <2>1. [n |-> c.n, id |-> id] \in Letter /\ wire \in Seq(Letter)
      BY DEF Emit, Letter, TypeOK
    <2>2. QED
      BY <2>1, AppendFits
  <1>2. CASE pendingEmits # <<>> /\ c = Head(pendingEmits) /\ pendingEmits' = Tail(pendingEmits) /\ queue' = queue
    <2>1. c = pendingEmits[1] /\ 1 \in DOMAIN pendingEmits
      BY <1>2, TailFits DEF TypeOK
    <2>2. \A i \in DOMAIN pendingEmits' :
             i + 1 \in DOMAIN pendingEmits /\ i \in Nat /\ i > 0 /\ pendingEmits'[i] = pendingEmits[i + 1]
      BY <1>2, TailFits DEF TypeOK
    <2>3. QED
      BY <1>1, <1>2, <2>1, <2>2 DEF OrderInv, InOrderOnce, NumbersGiven, Increasing, Before
  <1>3. CASE pendingEmits = <<>> /\ pendingEmits' = pendingEmits
             /\ queue # <<>> /\ c = Head(queue) /\ queue' = Tail(queue)
    <2>1. c = queue[1] /\ 1 \in DOMAIN queue /\ c.op = "emit"
      BY <1>3, TailFits DEF TypeOK, Emit
    <2>2. \A i \in DOMAIN queue' : i + 1 \in DOMAIN queue /\ i \in Nat /\ i > 0 /\ queue'[i] = queue[i + 1]
      BY <1>3, TailFits DEF TypeOK
    <2>3. DOMAIN pendingEmits' = {}
      BY <1>3
    <2>4. QED
      BY <1>1, <1>3, <2>1, <2>2, <2>3 DEF OrderInv, InOrderOnce, NumbersGiven, Increasing, Before
  <1>4. QED
    BY <1>2, <1>3

\* The server reads: from the wire to the end of what it saw.
LEMMA OrderOfRead ==
  ASSUME TypeOK, OrderInv, wire # <<>>, wire' = Tail(wire), server'.seen = Append(server.seen, Head(wire)),
         UNCHANGED <<pendingEmits, queue, requested>>
  PROVE  OrderInv'
  <1>0. wire \in Seq(Letter)
    BY DEF TypeOK
  <1>1. Head(wire) \in Letter /\ Head(wire) = wire[1] /\ 1 \in DOMAIN wire
    BY <1>0, TailFits
  <1>2. \A i \in DOMAIN wire' : i + 1 \in DOMAIN wire /\ i \in Nat /\ i > 0 /\ wire'[i] = wire[i + 1]
    BY <1>0, TailFits
  <1>3. /\ DOMAIN server'.seen = DOMAIN server.seen \cup {Len(server.seen) + 1}
        /\ server'.seen[Len(server.seen) + 1] = wire[1]
        /\ \A i \in DOMAIN server.seen : server'.seen[i] = server.seen[i] /\ i \in Nat /\ i < Len(server.seen) + 1
        /\ Len(server.seen) + 1 \in Nat
    BY <1>1, Typed, AppendFits
  <1>4. QED
    BY <1>1, <1>2, <1>3 DEF OrderInv, InOrderOnce, NumbersGiven, Increasing, Before

\* A transport is given up, or the session ends.
LEMMA AcksOfLoss ==
  ASSUME TypeOK, AcksInv, pendingAcks' = <<>>, wire' = <<>>, server'.seen = server.seen, UNCHANGED <<nextAckId, answered>>
  PROVE  AcksInv'
  BY DEF AcksInv, IdsUnique, AcksTraced, AnsweredOnce, AckNamesItsEmit, Answerable

\* An emit is written, with the next acknowledgement id or without one.
LEMMA AcksOfWrite ==
  ASSUME TypeOK, AcksInv, NEW c \in Emit, WriteEmit(c), answered' = answered
  PROVE  AcksInv'
  <1> DEFINE letter == [n |-> c.n, id |-> IF c.ack THEN nextAckId ELSE 0]
  <1>1. letter \in Letter /\ wire \in Seq(Letter) /\ nextAckId \in Nat /\ nextAckId # 0
    BY DEF Emit, Letter, TypeOK
  <1>2. /\ DOMAIN wire' = DOMAIN wire \cup {Len(wire) + 1} /\ wire'[Len(wire) + 1] = letter
        /\ \A i \in DOMAIN wire : wire'[i] = wire[i]
    BY <1>1, AppendFits DEF WriteEmit
  <1>3. UNCHANGED server /\ nextAckId' = IF c.ack THEN nextAckId + 1 ELSE nextAckId
    BY DEF WriteEmit
  <1>4. IdsUnique'
    <2>1. letter.id \in {0, nextAckId} /\ letter.id < nextAckId' /\ nextAckId <= nextAckId' /\ nextAckId' \in Nat
      BY <1>1, <1>3
    <2>2. /\ \A i \in DOMAIN server.seen : server.seen[i].id \in Nat /\ server.seen[i].id < nextAckId
          /\ \A i \in DOMAIN wire : wire[i].id \in Nat /\ wire[i].id < nextAckId
      BY NumbersTyped DEF AcksInv, IdsUnique
    <2> HIDE DEF letter
    <2>3. QED
      BY <1>1, <1>2, <1>3, <2>1, <2>2 DEF AcksInv, IdsUnique
  <1>5. /\ DOMAIN pendingAcks' = DOMAIN pendingAcks \cup (IF c.ack THEN {nextAckId} ELSE {})
        /\ c.ack => pendingAcks'[nextAckId] = c.n /\ letter = [id |-> nextAckId, n |-> c.n]
        /\ \A id \in DOMAIN pendingAcks \ {nextAckId} : pendingAcks'[id] = pendingAcks[id]
        /\ nextAckId \notin DOMAIN pendingAcks
    BY <1>1 DEF WriteEmit, TypeOK
  <1>6. AcksTraced'
    BY <1>2, <1>3, <1>5 DEF AcksInv, AcksTraced
  <1>7. \A e \in Answerable : e.id # nextAckId
    BY <1>1 DEF AcksInv, IdsUnique, Answerable
  <1>8. AnsweredOnce' /\ AckNamesItsEmit'
    BY <1>3, <1>5, <1>7 DEF AcksInv, AnsweredOnce, AckNamesItsEmit, Answerable
  <1>9. QED
    BY <1>4, <1>6, <1>8 DEF AcksInv

\* The server reads an emit: its id moves from the wire to what it saw.
LEMMA AcksOfRead ==
  ASSUME TypeOK, AcksInv, wire # <<>>, wire' = Tail(wire), server'.seen = Append(server.seen, Head(wire)),
         UNCHANGED <<pendingAcks, nextAckId, answered>>
  PROVE  AcksInv'
  <1>0. wire \in Seq(Letter)
    BY DEF TypeOK
  <1>1. Head(wire) \in Letter /\ Head(wire) = wire[1] /\ 1 \in DOMAIN wire
    BY <1>0, TailFits
  <1>2. /\ \A i \in DOMAIN wire' : i + 1 \in DOMAIN wire /\ i \in Nat /\ i > 0 /\ wire'[i] = wire[i + 1]
    BY <1>0, TailFits
  <1>3. /\ DOMAIN server'.seen = DOMAIN server.seen \cup {Len(server.seen) + 1}
        /\ server'.seen[Len(server.seen) + 1] = wire[1]
        /\ \A i \in DOMAIN server.seen : server'.seen[i] = server.seen[i] /\ i # Len(server.seen) + 1
    BY <1>1, Typed, AppendFits
  <1>4. IdsUnique'
    BY <1>1, <1>2, <1>3 DEF AcksInv, IdsUnique
  <1>5. AcksTraced'
    <2>1. ASSUME NEW i \in DOMAIN wire, i # 1 PROVE \E j \in DOMAIN wire' : wire'[j] = wire[i]
      <3>1. i \in 1..Len(wire) /\ DOMAIN wire' = 1..(Len(wire) - 1)
        BY <1>0
      <3>2. i - 1 \in DOMAIN wire' /\ wire'[i - 1] = wire[(i - 1) + 1]
        BY <1>2, <2>1, <3>1
      <3>3. QED
        BY <3>1, <3>2
    <2>2. \A i \in DOMAIN wire : \/ \E j \in DOMAIN server'.seen : server'.seen[j] = wire[i]
                                 \/ \E j \in DOMAIN wire' : wire'[j] = wire[i]
      BY <1>3, <2>1
    <2>3. \A i \in DOMAIN server.seen : \E j \in DOMAIN server'.seen : server'.seen[j] = server.seen[i]
      BY <1>3
    <2>4. \A e : (\E i \in DOMAIN server.seen : server.seen[i] = e) \/ (\E i \in DOMAIN wire : wire[i] = e)
                 => (\E j \in DOMAIN server'.seen : server'.seen[j] = e) \/ (\E j \in DOMAIN wire' : wire'[j] = e)
      BY <2>2, <2>3
    <2>5. QED
      BY <2>4 DEF AcksInv, AcksTraced
  <1>6. Answerable \subseteq Answerable'
    BY <1>3 DEF Answerable
  <1>7. AnsweredOnce' /\ AckNamesItsEmit'
    BY <1>6 DEF AcksInv, AnsweredOnce, AckNamesItsEmit
  <1>8. QED
    BY <1>4, <1>5, <1>7 DEF AcksInv

\* The server answers an emit it read.
LEMMA AcksOfAnswer ==
  ASSUME TypeOK, OrderInv, AcksInv, NEW e \in Answerable, Acknowledge(e.id, e.n),
         server'.seen = server.seen, UNCHANGED <<wire, nextAckId>>
  PROVE  AcksInv'
  <1>1. CASE e.id \notin DOMAIN pendingAcks
    BY <1>1 DEF Acknowledge, AcksInv, IdsUnique, AcksTraced, AnsweredOnce, AckNamesItsEmit, Answerable
  <1>2. CASE e.id \in DOMAIN pendingAcks
    <2>1. /\ DOMAIN pendingAcks' = DOMAIN pendingAcks \ {e.id}
          /\ \A id \in DOMAIN pendingAcks' : pendingAcks'[id] = pendingAcks[id]
          /\ answered' = Append(answered, [of |-> e.n, named |-> pendingAcks[e.id]])
      BY <1>2 DEF Acknowledge
    <2>2. PICK i \in DOMAIN server.seen : server.seen[i] = e /\ e.id # 0 /\ e \in Letter
      BY Typed DEF Answerable
    <2>3. pendingAcks[e.id] = e.n
      <3>1. CASE \E j \in DOMAIN server.seen : server.seen[j] = [id |-> e.id, n |-> pendingAcks[e.id]]
        BY <2>2, <3>1 DEF AcksInv, IdsUnique
      <3>2. CASE \E j \in DOMAIN wire : wire[j] = [id |-> e.id, n |-> pendingAcks[e.id]]
        BY <2>2, <3>2 DEF AcksInv, IdsUnique
      <3>3. QED
        BY <1>2, <3>1, <3>2 DEF AcksInv, AcksTraced
    <2>4. \A f \in Answerable : f.n = e.n => f = e
      <3>1. DOMAIN server.seen \subseteq Nat /\ \A j \in DOMAIN server.seen : server.seen[j].n \in Nat
        BY NumbersTyped
      <3>2. \A j \in DOMAIN server.seen : server.seen[j].n = e.n => j = i
        BY <2>2, <3>1 DEF OrderInv, InOrderOnce, Increasing
      <3>3. QED
        BY <2>2, <3>2 DEF Answerable
    <2>5. /\ DOMAIN answered' = DOMAIN answered \cup {Len(answered) + 1}
          /\ answered'[Len(answered) + 1] = [of |-> e.n, named |-> e.n]
          /\ \A k \in DOMAIN answered : answered'[k] = answered[k]
      <3>1. [of |-> e.n, named |-> e.n] \in Answer
        BY <2>2 DEF Letter, Answer
      <3>2. QED
        BY <2>1, <2>3, <3>1, Typed, AppendFits
    <2>6. \A k \in DOMAIN answered : answered[k].of # e.n
      BY <1>2, <2>4 DEF AcksInv, AnsweredOnce
    <2>7. AckNamesItsEmit'
      <3>1. DOMAIN answered = 1..Len(answered) /\ DOMAIN answered' = 1..Len(answered')
        BY <2>1, Typed
      <3>2. \A k \in DOMAIN answered : /\ answered[k].of = answered[k].named
                                      /\ \A l \in DOMAIN answered : answered[k].of = answered[l].of => k = l
        BY <3>1 DEF AcksInv, AckNamesItsEmit
      <3>3. \A k \in DOMAIN answered' : /\ answered'[k].of = answered'[k].named
                                       /\ \A l \in DOMAIN answered' : answered'[k].of = answered'[l].of => k = l
        BY <2>5, <2>6, <3>2
      <3>4. QED
        BY <3>1, <3>3 DEF AckNamesItsEmit
    <2>8. Answerable' = Answerable
      BY DEF Answerable
    <2>9. AnsweredOnce'
      BY <2>1, <2>5, <2>8 DEF AcksInv, AnsweredOnce
    <2>10. IdsUnique' /\ AcksTraced'
      BY <2>1 DEF AcksInv, IdsUnique, AcksTraced
    <2>11. QED
      BY <2>7, <2>9, <2>10 DEF AcksInv
  <1>3. QED
    BY <1>1, <1>2

\* Nothing of it changes.
LEMMA AcksKept ==
  ASSUME AcksInv, server'.seen = server.seen, UNCHANGED <<wire, nextAckId, pendingAcks, answered>>
  PROVE  AcksInv'
  BY DEF AcksInv, IdsUnique, AcksTraced, AnsweredOnce, AckNamesItsEmit, Answerable

\* update_socket_io_listener keeps the limit.
LEMMA ListenersFit ==
  ASSUME TypeOK, NEW c \in Command, c.op \in {"listen", "unlisten"}
  PROVE  update_socket_io_listener(c) \subseteq Events /\ Cardinality(update_socket_io_listener(c)) <= MaxListeners
  <1>1. c.event \in Events /\ MaxListeners \in Nat
    BY SessionAssumptions DEF Command, Emit
  <1>2. IsFiniteSet(listeners) /\ Cardinality(listeners) \in Nat /\ Cardinality(listeners) <= MaxListeners
        /\ listeners \subseteq Events
    BY SessionAssumptions, FS_Subset, FS_CardinalityType DEF TypeOK
  <1>3. Cardinality(listeners \ {c.event}) \in Nat /\ Cardinality(listeners \ {c.event}) <= Cardinality(listeners)
    BY <1>2, FS_Subset, FS_CardinalityType
  <1>4. Cardinality(listeners \cup {c.event}) \in {Cardinality(listeners), Cardinality(listeners) + 1}
    BY <1>2, FS_AddElement
  <1>5. QED
    BY <1>1, <1>2, <1>3, <1>4 DEF update_socket_io_listener

\* What is left of the two queues when something may have left them.
LEMMA QueuesTyped ==
  ASSUME TypeOK,
         \/ pendingEmits' \in {pendingEmits, <<>>}
         \/ pendingEmits # <<>> /\ pendingEmits' = Tail(pendingEmits),
         \/ queue' \in {queue, <<>>}
         \/ queue # <<>> /\ queue' = Tail(queue)
  PROVE  queue' \in Seq(Command) /\ pendingEmits' \in Seq(Emit)
  <1>1. queue \in Seq(Command) /\ pendingEmits \in Seq(Emit)
    BY Typed
  <1>2. \A S : <<>> \in Seq(S)
    OBVIOUS
  <1>3. queue # <<>> => Tail(queue) \in Seq(Command)
    BY <1>1, TailFits
  <1>4. pendingEmits # <<>> => Tail(pendingEmits) \in Seq(Emit)
    BY <1>1, TailFits
  <1>5. QED
    BY <1>1, <1>2, <1>3, <1>4

\* The server is told nothing more on a transport that is gone.
LEMMA ServerOfLoss ==
  ASSUME TypeOK, server' = [server EXCEPT !.owed = 0]
  PROVE  server' \in Server /\ server'.seen = server.seen /\ server'.owed = 0 /\ server'.rude = server.rude
  <1>1. server \in Server
    BY DEF TypeOK
  <1>2. QED
    BY <1>1 DEF Server

\* The transport is gone, to be opened again or for good.
LEMMA GoneKeeps ==
  ASSUME SessionInv, pendingAcks' = <<>>, pendingBinary' = NoBinary, wire' = <<>>,
         server' \in Server, server'.seen = server.seen, server'.owed = 0, server.rude => server'.rude,
         phase' \in Phases, attempt' \in Nat, delay' \in Nat,
         phase' = "waiting" => delay' >= 500 /\ delay' <= IF attempt' = 1 THEN 1500 ELSE 5000,
         \/ why' = why
         \/ why' \in {"client", "server"}
         \/ why' = "framing" /\ server'.rude,
         listeners' \subseteq Events, Cardinality(listeners') <= MaxListeners,
         \/ pendingEmits' \in {pendingEmits, <<>>}
         \/ pendingEmits # <<>> /\ pendingEmits' = Tail(pendingEmits),
         \/ queue' \in {queue, <<>>}
         \/ queue # <<>> /\ queue' = Tail(queue),
         UNCHANGED <<registered, nextAckId, answered, requested>>
  PROVE  SessionInv'
  <1>1. queue' \in Seq(Command) /\ pendingEmits' \in Seq(Emit)
    BY QueuesTyped DEF SessionInv
  <1>2. TypeOK'
    BY <1>1 DEF SessionInv, TypeOK, NoBinary
  <1>3. OrderInv'
    BY OrderOfFewer DEF SessionInv
  <1>4. AcksInv'
    BY AcksOfLoss DEF SessionInv
  <1>5. FramesInv'
    BY DEF SessionInv, FramesInv, FramesAgree, FramedServerKeepsSession, NoBinary
  <1>6. QED
    BY <1>2, <1>3, <1>4, <1>5 DEF SessionInv

\* Nothing that the emits, their acknowledgements or the framing are about
\* changes, apart from what leaves a queue.
LEMMA QuietKeeps ==
  ASSUME SessionInv, TypeOK',
         \/ pendingEmits' \in {pendingEmits, <<>>}
         \/ pendingEmits # <<>> /\ pendingEmits' = Tail(pendingEmits),
         \/ queue' \in {queue, <<>>}
         \/ queue # <<>> /\ queue' = Tail(queue),
         UNCHANGED <<nextAckId, pendingAcks, pendingBinary, wire, server, answered, requested, why>>
  PROVE  SessionInv'
  <1>1. OrderInv'
    BY OrderOfFewer DEF SessionInv
  <1>2. AcksInv' /\ FramesInv'
    BY AcksKept DEF SessionInv, FramesInv, FramesAgree, FramedServerKeepsSession
  <1>3. QED
    BY <1>1, <1>2 DEF SessionInv

LEMMA LoseKeeps ==
  ASSUME SessionInv, LoseTransport,
         \/ pendingEmits' = pendingEmits
         \/ pendingEmits # <<>> /\ pendingEmits' = Tail(pendingEmits),
         \/ queue' = queue
         \/ queue # <<>> /\ queue' = Tail(queue),
         UNCHANGED <<registered, listeners, nextAckId, why, answered, requested>>
  PROVE  SessionInv'
  <1>2. delay' \in Nat /\ delay' >= 500 /\ delay' <= 1500
    BY LossDelays
  <1>3. server' \in Server /\ server'.seen = server.seen /\ server'.owed = 0 /\ server'.rude = server.rude
    BY ServerOfLoss DEF LoseTransport, SessionInv
  <1>4. /\ pendingAcks' = <<>> /\ pendingBinary' = NoBinary /\ wire' = <<>>
        /\ phase' = "waiting" /\ attempt' = 1
    BY DEF LoseTransport
  <1>5. listeners' \subseteq Events /\ Cardinality(listeners') <= MaxListeners
    BY DEF SessionInv, TypeOK
  <1>6. delay' \in Nat
    BY <1>2
  <1>7. QED
    BY <1>2, <1>3, <1>4, <1>5, <1>6, GoneKeeps DEF Phases

LEMMA EndKeeps ==
  ASSUME SessionInv, NEW reason \in {"client", "server", "framing"}, End(reason), reason = "framing" => server.rude,
         \/ queue' = queue
         \/ queue # <<>> /\ queue' = Tail(queue),
         UNCHANGED <<registered, listeners, pendingEmits, nextAckId, answered, requested>>
  PROVE  SessionInv'
  <1>1. server' \in Server /\ server'.seen = server.seen /\ server'.owed = 0 /\ server'.rude = server.rude
    BY ServerOfLoss DEF End, SessionInv
  <1>2. /\ pendingAcks' = <<>> /\ pendingBinary' = NoBinary /\ wire' = <<>>
        /\ phase' = "ended" /\ why' = reason /\ UNCHANGED <<attempt, delay>>
    BY DEF End
  <1>3. /\ listeners' \subseteq Events /\ Cardinality(listeners') <= MaxListeners
        /\ attempt' \in Nat /\ delay' \in Nat
    BY <1>2 DEF SessionInv, TypeOK
  <1>4. QED
    BY <1>1, <1>2, <1>3, GoneKeeps DEF Phases

\* An emit has left its queue: it is written, refused or lost.
LEMMA SendKeeps ==
  ASSUME SessionInv, NEW c \in Emit, SendEmit(c),
         \/ pendingEmits # <<>> /\ c = Head(pendingEmits) /\ pendingEmits' = Tail(pendingEmits) /\ queue' = queue
         \/ pendingEmits = <<>> /\ pendingEmits' = pendingEmits
            /\ queue # <<>> /\ c = Head(queue) /\ queue' = Tail(queue),
         UNCHANGED <<registered, listeners, answered, requested>>
  PROVE  SessionInv'
  <1>1. queue' \in Seq(Command) /\ pendingEmits' \in Seq(Emit)
    BY QueuesTyped DEF SessionInv
  <1>2. CASE WriteEmit(c)
    <2> DEFINE letter == [n |-> c.n, id |-> IF c.ack THEN nextAckId ELSE 0]
    <2>1. letter \in Letter /\ letter.id \in Nat /\ wire' = Append(wire, letter) /\ wire' \in Seq(Letter)
      BY <1>2, Typed, AppendFits DEF WriteEmit, SessionInv, Letter, Emit
    <2>2. nextAckId' \in Nat \ {0} /\ DOMAIN pendingAcks' \subseteq 1..(nextAckId' - 1)
          /\ \A id \in DOMAIN pendingAcks' : pendingAcks'[id] \in 1..MaxEmits
      <3>1. c.n \in 1..MaxEmits /\ nextAckId \in Nat \ {0} /\ DOMAIN pendingAcks \subseteq 1..(nextAckId - 1)
            /\ \A id \in DOMAIN pendingAcks : pendingAcks[id] \in 1..MaxEmits
        BY DEF SessionInv, TypeOK, Emit
      <3>2. CASE c.ack
        BY <1>2, <3>1, <3>2 DEF WriteEmit
      <3>3. CASE ~c.ack
        BY <1>2, <3>1, <3>3 DEF WriteEmit
      <3>4. QED
        BY <3>2, <3>3
    <2>3. TypeOK'
      <3>1. UNCHANGED <<phase, pendingBinary, attempt, delay, why, server>>
        BY <1>2 DEF WriteEmit
      <3>2. QED
        BY <1>1, <2>1, <2>2, <3>1 DEF SessionInv, TypeOK
    <2>4. OrderInv'
      BY <1>2, <2>1, OrderOfWrite DEF WriteEmit, SessionInv
    <2>5. AcksInv'
      BY <1>2, AcksOfWrite DEF SessionInv
    <2>6. FramesInv'
      BY <1>2 DEF WriteEmit, SessionInv, FramesInv, FramesAgree, FramedServerKeepsSession
    <2>7. QED
      BY <2>3, <2>4, <2>5, <2>6 DEF SessionInv
  <1>3. CASE UNCHANGED <<phase, wire, pendingAcks, pendingBinary, nextAckId, attempt, delay, why, server, losses>>
    <2>1. TypeOK'
      BY <1>1, <1>3 DEF SessionInv, TypeOK
    <2>2. QED
      BY <1>3, <2>1, QuietKeeps
  <1>4. CASE LoseTransport /\ UNCHANGED <<nextAckId, why>>
    BY <1>4, LoseKeeps
  <1>5. QED
    BY <1>2, <1>3, <1>4 DEF SendEmit

LEMMA ConnectKeeps ==
  ASSUME SessionInv, Connect
  PROVE  SessionInv'
  <1>1. TypeOK'
    BY DEF SessionInv, TypeOK, Connect, Phases
  <1>2. QED
    BY <1>1, QuietKeeps DEF Connect

LEMMA UserStepKeeps ==
  ASSUME SessionInv, UserStep
  PROVE  SessionInv'
  <1>1. ASSUME NEW ack \in BOOLEAN, SendMessage(ack) PROVE SessionInv'
    <2> DEFINE c == [op |-> "emit", n |-> requested + 1, ack |-> ack]
    <2>1. c \in Emit /\ c \in Command /\ requested' \in 0..MaxEmits
      BY <1>1, SessionAssumptions DEF SendMessage, Emit, Command, SessionInv, TypeOK
    <2>2. queue' = Append(queue, c) /\ queue' \in Seq(Command)
      BY <1>1, <2>1, Typed, AppendFits DEF SendMessage, SessionInv
    <2>3. TypeOK'
      BY <1>1, <2>1, <2>2 DEF SendMessage, SessionInv, TypeOK
    <2>4. OrderInv'
      BY <1>1, <2>1, <2>2, OrderOfRequest DEF SendMessage, SessionInv
    <2>5. AcksInv' /\ FramesInv'
      BY <1>1, AcksKept DEF SendMessage, SessionInv, FramesInv, FramesAgree, FramedServerKeepsSession
    <2>6. QED
      BY <2>3, <2>4, <2>5 DEF SessionInv
  <1>2. ASSUME NEW c \in Command, c.op # "emit", queue' = Append(queue, c), registered' \in BOOLEAN,
               UNCHANGED <<phase, listeners, pendingEmits, nextAckId, pendingAcks, pendingBinary, attempt, delay, why,
                           wire, server, answered, requested>>
        PROVE  SessionInv'
    <2>1. queue' \in Seq(Command)
      BY <1>2, Typed, AppendFits DEF SessionInv
    <2>2. TypeOK'
      BY <1>2, <2>1 DEF SessionInv, TypeOK
    <2>3. OrderInv'
      BY <1>2, OrderOfCommand DEF SessionInv
    <2>4. AcksInv' /\ FramesInv'
      BY <1>2, AcksKept DEF SessionInv, FramesInv, FramesAgree, FramedServerKeepsSession
    <2>5. QED
      BY <2>2, <2>3, <2>4 DEF SessionInv
  <1>3. ASSUME NEW op \in {"listen", "unlisten"}, NEW e \in Events, SetListener(op, e) PROVE SessionInv'
    <2>1. [op |-> op, event |-> e] \in Command /\ [op |-> op, event |-> e].op # "emit" /\ registered \in BOOLEAN
      BY DEF Command, SessionInv, TypeOK
    <2>2. QED
      BY <1>2, <1>3, <2>1 DEF SetListener
  <1>4. CASE Disconnect
    <2>1. [op |-> "close"] \in Command /\ [op |-> "close"].op # "emit"
      BY DEF Command
    <2>2. CASE phase = "ended"
      <3>1. UNCHANGED queue /\ registered' = FALSE
        BY <1>4, <2>2 DEF Disconnect
      <3>2. registered' \in BOOLEAN
            /\ UNCHANGED <<phase, listeners, pendingEmits, nextAckId, pendingAcks, pendingBinary, attempt, delay, why,
                           wire, server, answered, requested>>
        BY <1>4, <3>1 DEF Disconnect
      <3>3. TypeOK'
        BY <3>1, <3>2 DEF SessionInv, TypeOK
      <3>4. QED
        BY <3>1, <3>2, <3>3, QuietKeeps
    <2>3. CASE phase # "ended"
      BY <1>2, <1>4, <2>1, <2>3 DEF Disconnect
    <2>4. QED
      BY <2>2, <2>3
  <1>5. QED
    BY <1>1, <1>3, <1>4 DEF UserStep

LEMMA FlushPendingKeeps ==
  ASSUME SessionInv, FlushPending
  PROVE  SessionInv'
  <1>1. Head(pendingEmits) \in Emit
    BY Typed, TailFits DEF FlushPending, SessionInv
  <1>2. QED
    BY <1>1, SendKeeps DEF FlushPending

LEMMA TakeCommandKeeps ==
  ASSUME SessionInv, TakeCommand
  PROVE  SessionInv'
  <1> DEFINE c == Head(queue)
  <1>1. c \in Command /\ queue # <<>> /\ queue' = Tail(queue)
        /\ UNCHANGED <<registered, pendingEmits, answered, requested, failures, packets>> /\ pendingEmits = <<>>
    BY Typed, TailFits DEF TakeCommand, SessionInv
  <1>2. \/ c.op = "emit" /\ SendEmit(c) /\ UNCHANGED listeners
        \/ /\ c.op \in {"listen", "unlisten"} /\ listeners' = update_socket_io_listener(c)
           /\ UNCHANGED <<phase, wire, pendingAcks, pendingBinary, nextAckId, attempt, delay, why, server, losses>>
        \/ c.op = "close" /\ End("client") /\ UNCHANGED <<listeners, nextAckId>>
    BY DEF TakeCommand
  <1> HIDE DEF c
  <1>3. CASE c.op = "emit" /\ SendEmit(c) /\ UNCHANGED listeners
    <2>1. c \in Emit
      BY <1>1, <1>3 DEF Command
    <2>2. QED
      BY <1>1, <1>3, <2>1, SendKeeps DEF c
  <1>4. CASE /\ c.op \in {"listen", "unlisten"} /\ listeners' = update_socket_io_listener(c)
             /\ UNCHANGED <<phase, wire, pendingAcks, pendingBinary, nextAckId, attempt, delay, why, server, losses>>
    <2>1. listeners' \subseteq Events /\ Cardinality(listeners') <= MaxListeners
      BY <1>1, <1>4, ListenersFit DEF SessionInv
    <2>2. queue' \in Seq(Command)
      BY <1>1, Typed, TailFits DEF SessionInv
    <2>3. TypeOK'
      BY <1>1, <1>4, <2>1, <2>2 DEF SessionInv, TypeOK
    <2>4. QED
      BY <1>1, <1>4, <2>3, QuietKeeps
  <1>5. CASE c.op = "close" /\ End("client") /\ UNCHANGED <<listeners, nextAckId>>
    <2>1. End("client") /\ "client" \in {"client", "server", "framing"}
      BY <1>5
    <2>2. QED
      BY <1>1, <1>5, <2>1, EndKeeps
  <1>6. QED
    BY <1>2, <1>3, <1>4, <1>5

LEMMA OfflineCommandKeeps ==
  ASSUME SessionInv, OfflineCommand
  PROVE  SessionInv'
  <1> DEFINE c == Head(queue)
  <1> DEFINE quiet == UNCHANGED <<phase, why, pendingAcks, pendingBinary, wire, server, attempt, delay, losses>>
  <1>1. c \in Command /\ queue # <<>> /\ queue' = Tail(queue) /\ queue' \in Seq(Command)
    BY Typed, TailFits DEF OfflineCommand, SessionInv
  <1>2. /\ pendingEmits' = IF c.op = "emit" THEN Append(pendingEmits, c) ELSE pendingEmits
        /\ listeners' = IF c.op \in {"listen", "unlisten"} THEN update_socket_io_listener(c) ELSE listeners
        /\ IF c.op = "close" THEN End("client") ELSE quiet
        /\ UNCHANGED <<registered, nextAckId, answered, requested>>
    BY DEF OfflineCommand
  <1>3. CASE c.op = "emit"
    <2>1. c \in Emit
      BY <1>1, <1>3 DEF Command
    <2>2. pendingEmits' = Append(pendingEmits, c) /\ pendingEmits' \in Seq(Emit) /\ UNCHANGED listeners /\ quiet
      BY <1>2, <1>3, <2>1, Typed, AppendFits DEF SessionInv
    <2>3. TypeOK'
      BY <1>1, <1>2, <2>2 DEF SessionInv, TypeOK
    <2>4. OrderInv'
      BY <1>1, <1>2, <1>3, <2>2, OrderOfOffline DEF SessionInv
    <2>5. AcksInv' /\ FramesInv'
      BY <1>2, <2>2, AcksKept DEF SessionInv, FramesInv, FramesAgree, FramedServerKeepsSession
    <2>6. QED
      BY <2>3, <2>4, <2>5 DEF SessionInv
  <1>4. CASE c.op \in {"listen", "unlisten"}
    <2>1. listeners' = update_socket_io_listener(c) /\ UNCHANGED pendingEmits /\ quiet
      BY <1>2, <1>4
    <2>2. listeners' \subseteq Events /\ Cardinality(listeners') <= MaxListeners
      BY <1>1, <1>4, <2>1, ListenersFit DEF SessionInv
    <2>3. TypeOK'
      BY <1>1, <1>2, <2>1, <2>2 DEF SessionInv, TypeOK
    <2>4. QED
      BY <1>1, <1>2, <2>1, <2>3, QuietKeeps
  <1>5. CASE c.op = "close"
    <2>1. End("client") /\ UNCHANGED <<pendingEmits, listeners>> /\ "client" \in {"client", "server", "framing"}
      BY <1>2, <1>5
    <2>2. QED
      BY <1>1, <1>2, <2>1, EndKeeps
  <1>6. c.op \in {"emit", "listen", "unlisten", "close"}
    BY <1>1 DEF Command, Emit
  <1>7. QED
    BY <1>3, <1>4, <1>5, <1>6

LEMMA ServerReadsKeeps ==
  ASSUME SessionInv, ServerReads
  PROVE  SessionInv'
  <1>1. wire # <<>> /\ wire' = Tail(wire) /\ Head(wire) \in Letter /\ wire' \in Seq(Letter)
    BY Typed, TailFits DEF ServerReads, SessionInv
  <1>2. /\ server'.seen = Append(server.seen, Head(wire)) /\ server' \in Server
        /\ server'.owed = server.owed /\ server'.rude = server.rude
    <2>1. server \in Server /\ server' = [server EXCEPT !.seen = Append(@, Head(wire))]
      BY DEF ServerReads, SessionInv, TypeOK
    <2>2. Append(server.seen, Head(wire)) \in Seq(Letter)
      BY <1>1, Typed, AppendFits DEF SessionInv
    <2>3. QED
      BY <2>1, <2>2 DEF Server
  <1>3. UNCHANGED <<sessionVars, answered, requested>>
    BY DEF ServerReads
  <1>4. TypeOK'
    BY <1>1, <1>2, <1>3 DEF SessionInv, TypeOK, sessionVars
  <1>5. OrderInv'
    BY <1>1, <1>2, <1>3, OrderOfRead DEF SessionInv, sessionVars
  <1>6. AcksInv'
    BY <1>1, <1>2, <1>3, AcksOfRead DEF SessionInv, sessionVars
  <1>7. FramesInv'
    BY <1>2, <1>3 DEF SessionInv, FramesInv, FramesAgree, FramedServerKeepsSession, sessionVars
  <1>8. QED
    BY <1>4, <1>5, <1>6, <1>7 DEF SessionInv

\* An acknowledgement changes what it must, and keeps the types.
LEMMA AnswerTyped ==
  ASSUME TypeOK, NEW e \in Answerable, Acknowledge(e.id, e.n)
  PROVE  /\ answered' \in Seq(Answer) /\ DOMAIN pendingAcks' \subseteq DOMAIN pendingAcks
         /\ \A id \in DOMAIN pendingAcks' : pendingAcks'[id] = pendingAcks[id]
  <1>1. CASE e.id \notin DOMAIN pendingAcks
    BY <1>1, Typed DEF Acknowledge
  <1>2. CASE e.id \in DOMAIN pendingAcks
    <2>1. e \in Letter
      BY Typed DEF Answerable
    <2> DEFINE shown == [of |-> e.n, named |-> pendingAcks[e.id]]
    <2>2. shown \in Answer /\ answered' = Append(answered, shown)
      BY <1>2, <2>1 DEF Letter, Answer, TypeOK, Acknowledge
    <2> HIDE DEF shown
    <2>3. answered' \in Seq(Answer)
      BY <2>2, Typed, AppendFits
    <2>4. QED
      BY <1>2, <2>3 DEF Acknowledge
  <1>3. QED
    BY <1>1, <1>2

\* A packet that leaves the transport as it is, and may carry an answer.
LEMMA AnswerKeeps ==
  ASSUME SessionInv, server' \in Server, server'.seen = server.seen, server.rude => server'.rude,
         (\E p \in Answerable : Acknowledge(p.id, p.n)) \/ UNCHANGED <<pendingAcks, answered>>,
         pendingBinary' \in [need : Nat, id : Nat], FramesAgree',
         UNCHANGED <<phase, why, wire, registered, queue, listeners, pendingEmits, nextAckId, requested, attempt, delay>>
  PROVE  SessionInv'
  <1>1. /\ answered' \in Seq(Answer) /\ DOMAIN pendingAcks' \subseteq DOMAIN pendingAcks
        /\ \A id \in DOMAIN pendingAcks' : pendingAcks'[id] = pendingAcks[id]
    BY Typed, AnswerTyped DEF SessionInv
  <1>2. TypeOK'
    BY <1>1 DEF SessionInv, TypeOK
  <1>3. AcksInv'
    BY AcksOfAnswer, AcksKept DEF SessionInv
  <1>4. OrderInv'
    BY DEF SessionInv, OrderInv, InOrderOnce, NumbersGiven, Increasing, Before
  <1>5. FramesInv'
    BY DEF SessionInv, FramesInv, FramedServerKeepsSession
  <1>6. QED
    BY <1>2, <1>3, <1>4, <1>5 DEF SessionInv

LEMMA ReceiveTextKeeps ==
  ASSUME SessionInv, ReceiveText
  PROVE  SessionInv'
  <1>1. UNCHANGED <<registered, queue, listeners, pendingEmits, nextAckId, requested, attempt, delay>>
    BY DEF ReceiveText, Receiving
  <1>2. server \in Server /\ server.owed \in Nat
    BY Typed DEF SessionInv, TypeOK
  <1>3. CASE pendingBinary.need > 0
    <2>1. /\ phase' = "ended" /\ why' = "framing" /\ pendingAcks' = <<>> /\ pendingBinary' = NoBinary
          /\ wire' = <<>> /\ UNCHANGED answered
          /\ server' = [[server EXCEPT !.rude = @ \/ server.owed > 0] EXCEPT !.owed = 0]
      BY <1>3 DEF ReceiveText
    <2>2. server.owed > 0 \/ server.rude
      BY <1>2, <1>3 DEF SessionInv, FramesInv, FramesAgree
    <2>3. server' \in Server /\ server'.seen = server.seen /\ server'.owed = 0 /\ server'.rude
      BY <1>2, <2>1, <2>2 DEF Server
    <2>4. /\ listeners' \subseteq Events /\ Cardinality(listeners') <= MaxListeners
          /\ attempt' \in Nat /\ delay' \in Nat
      BY <1>1 DEF SessionInv, TypeOK
    <2>5. QED
      BY <1>1, <2>1, <2>3, <2>4, GoneKeeps DEF Phases
  <1>4. CASE ~(pendingBinary.need > 0)
    <2>1. /\ (\E p \in Answerable : Acknowledge(p.id, p.n)) \/ UNCHANGED <<pendingAcks, answered>>
          /\ server' = [server EXCEPT !.rude = @ \/ server.owed > 0]
          /\ UNCHANGED <<phase, why, pendingBinary, wire>>
      BY <1>4 DEF ReceiveText
    <2>2. server' \in Server /\ server'.seen = server.seen /\ server'.owed = server.owed
          /\ server'.rude = (server.rude \/ server.owed > 0)
      BY <1>2, <2>1 DEF Server
    <2>3. FramesAgree' /\ pendingBinary' \in [need : Nat, id : Nat]
      <3>1. pendingBinary \in [need : Nat, id : Nat] /\ pendingBinary' = pendingBinary
        BY <2>1 DEF SessionInv, TypeOK
      <3>2. ~server'.rude => ~server.rude
        BY <2>2
      <3>3. QED
        BY <2>2, <3>1, <3>2 DEF SessionInv, FramesInv, FramesAgree
    <2>4. QED
      BY <1>1, <2>1, <2>2, <2>3, AnswerKeeps
  <1>5. QED
    BY <1>3, <1>4

LEMMA ReceiveBinaryHeaderKeeps ==
  ASSUME SessionInv, NEW k \in 1..2, NEW id \in Nat, ReceiveBinaryHeader(k, id)
  PROVE  SessionInv'
  <1>1. /\ UNCHANGED <<registered, queue, listeners, pendingEmits, nextAckId, requested, answered>>
        /\ server.owed = 0 /\ server \in Server
    BY DEF ReceiveBinaryHeader, Receiving, SessionInv, TypeOK
  <1>2. CASE pendingBinary.need > 0
    <2>1. End("framing") /\ "framing" \in {"client", "server", "framing"}
      BY <1>2 DEF ReceiveBinaryHeader
    <2>2. server.rude
      BY <1>1, <1>2 DEF SessionInv, FramesInv, FramesAgree
    <2>3. QED
      BY <1>1, <2>1, <2>2, EndKeeps
  <1>3. CASE ~(pendingBinary.need > 0)
    <2>1. /\ pendingBinary' = [need |-> k, id |-> id] /\ server' = [server EXCEPT !.owed = k]
          /\ UNCHANGED <<phase, why, pendingAcks, wire, attempt, delay>>
      BY <1>3 DEF ReceiveBinaryHeader
    <2>2. server' \in Server /\ server'.seen = server.seen /\ server'.rude = server.rude /\ server'.owed = k
      BY <1>1, <2>1 DEF Server
    <2>3. FramesAgree' /\ pendingBinary' \in [need : Nat, id : Nat]
      BY <2>1, <2>2 DEF FramesAgree
    <2>4. QED
      BY <1>1, <2>1, <2>2, <2>3, AnswerKeeps
  <1>4. QED
    BY <1>2, <1>3

LEMMA ReceiveAttachmentKeeps ==
  ASSUME SessionInv, ReceiveAttachment
  PROVE  SessionInv'
  <1> DEFINE said == [server EXCEPT !.rude = @ \/ server.owed = 0, !.owed = IF @ > 0 THEN @ - 1 ELSE 0]
  <1>1. UNCHANGED <<registered, queue, listeners, pendingEmits, nextAckId, requested, attempt, delay>>
    BY DEF ReceiveAttachment, Receiving
  <1>2. server \in Server /\ server.owed \in Nat /\ pendingBinary \in [need : Nat, id : Nat]
    BY Typed DEF SessionInv, TypeOK
  <1>3. /\ said \in Server /\ said.seen = server.seen /\ said.rude = (server.rude \/ server.owed = 0)
        /\ said.owed = IF server.owed > 0 THEN server.owed - 1 ELSE 0
    <2>1. said = [[server EXCEPT !.rude = server.rude \/ server.owed = 0]
                          EXCEPT !.owed = IF server.owed > 0 THEN server.owed - 1 ELSE 0]
      BY <1>2 DEF Server
    <2>2. (server.rude \/ server.owed = 0) \in BOOLEAN /\ (IF server.owed > 0 THEN server.owed - 1 ELSE 0) \in Nat
      BY <1>2
    <2>3. QED
      BY <1>2, <2>1, <2>2 DEF Server
  <1>4. CASE pendingBinary.need = 0
    <2>1. /\ phase' = "ended" /\ why' = "framing" /\ pendingAcks' = <<>> /\ wire' = <<>>
          /\ server' = [said EXCEPT !.owed = 0] /\ UNCHANGED <<pendingBinary, answered>>
      BY <1>4 DEF ReceiveAttachment
    <2>2. said.rude
      BY <1>3, <1>4 DEF SessionInv, FramesInv, FramesAgree
    <2> HIDE DEF said
    <2>3. server' \in Server /\ server'.seen = server.seen /\ server'.owed = 0 /\ server'.rude
      BY <1>3, <2>1, <2>2 DEF Server
    <2>4. TypeOK'
      BY <1>1, <2>1, <2>3 DEF SessionInv, TypeOK, Phases
    <2>5. OrderInv'
      BY <1>1, <2>1, <2>3, OrderOfFewer DEF SessionInv
    <2>6. AcksInv'
      BY <1>1, <2>1, <2>3, AcksOfLoss DEF SessionInv
    <2>7. FramesInv'
      BY <2>3 DEF FramesInv, FramesAgree, FramedServerKeepsSession
    <2>8. QED
      BY <2>4, <2>5, <2>6, <2>7 DEF SessionInv
  <1>5. CASE pendingBinary.need # 0
    <2>1. /\ pendingBinary' = IF pendingBinary.need = 1 THEN NoBinary
                              ELSE [pendingBinary EXCEPT !.need = @ - 1]
          /\ (\E p \in Answerable : Acknowledge(p.id, p.n)) \/ UNCHANGED <<pendingAcks, answered>>
          /\ server' = said /\ UNCHANGED <<phase, why, wire>>
      BY <1>5 DEF ReceiveAttachment
    <2> HIDE DEF said
    <2>2. pendingBinary' \in [need : Nat, id : Nat] /\ pendingBinary'.need = pendingBinary.need - 1
      BY <1>2, <1>5, <2>1 DEF NoBinary
    <2>3. FramesAgree'
      <3>1. ~server'.rude => ~server.rude /\ server.owed # 0
        BY <1>3, <2>1
      <3>2. server.owed # 0 => server'.owed = server.owed - 1
        BY <1>2, <1>3, <2>1
      <3>3. QED
        BY <2>2, <3>1, <3>2 DEF SessionInv, FramesInv, FramesAgree
    <2>4. QED
      BY <1>1, <1>3, <2>1, <2>2, <2>3, AnswerKeeps
  <1>6. QED
    BY <1>2, <1>4, <1>5

LEMMA ReceiveKeeps ==
  ASSUME SessionInv, Receive
  PROVE  SessionInv'
  <1>1. CASE ReceivePing
    <2>1. UNCHANGED <<registered, queue, listeners, pendingEmits, nextAckId, requested, why, answered>>
      BY <1>1 DEF ReceivePing, Receiving
    <2>2. CASE UNCHANGED <<phase, pendingAcks, pendingBinary, attempt, delay, wire, server, losses>>
      <3>1. TypeOK'
        BY <2>1, <2>2 DEF SessionInv, TypeOK
      <3>2. QED
        BY <2>1, <2>2, <3>1, QuietKeeps
    <2>3. CASE LoseTransport
      BY <2>1, <2>3, LoseKeeps
    <2>4. QED
      BY <1>1, <2>2, <2>3 DEF ReceivePing
  <1>2. CASE ReceiveFatal
    <2>1. /\ End("server") /\ "server" \in {"client", "server", "framing"}
          /\ UNCHANGED <<registered, queue, listeners, pendingEmits, nextAckId, requested, answered>>
      BY <1>2 DEF ReceiveFatal, Receiving
    <2>2. QED
      BY <2>1, EndKeeps
  <1>3. ASSUME NEW k \in 1..2, NEW id \in {0} \cup {p.id : p \in Answerable}, ReceiveBinaryHeader(k, id)
        PROVE  SessionInv'
    <2>1. \A p \in Answerable : p.id \in Nat
      BY NumbersTyped DEF Answerable, SessionInv
    <2>2. id \in Nat
      BY <2>1
    <2>3. QED
      BY <1>3, <2>2, ReceiveBinaryHeaderKeeps
  <1>4. QED
    BY <1>1, <1>2, <1>3, ReceiveTextKeeps, ReceiveAttachmentKeeps DEF Receive

\* The remaining steps of the task.
LEMMA HandshakeKeeps ==
  ASSUME SessionInv, DelayOver \/ Handshake \/ Unregister
  PROVE  SessionInv'
  <1>1. CASE DelayOver
    <2>1. TypeOK'
      BY <1>1 DEF DelayOver, SessionInv, TypeOK, Phases
    <2>2. QED
      BY <1>1, <2>1, QuietKeeps DEF DelayOver
  <1>2. CASE ReconnectOk
    <2>1. TypeOK'
      BY <1>2 DEF ReconnectOk, SessionInv, TypeOK, Phases
    <2>2. QED
      BY <1>2, <2>1, QuietKeeps DEF ReconnectOk
  <1>3. CASE ReconnectFails
    <2>1. /\ phase' = "waiting" /\ attempt' = attempt + 1 /\ attempt \in Nat
          /\ UNCHANGED <<registered, queue, listeners, pendingEmits, nextAckId, pendingAcks, pendingBinary, why, wire,
                         server, answered, requested>>
      BY <1>3 DEF ReconnectFails, SessionInv, TypeOK
    <2>2. delay' \in Nat /\ delay' >= 500 /\ delay' <= IF attempt' = 1 THEN 1500 ELSE 5000
      <3> DEFINE a == attempt + 1
      <3>1. PICK j \in Jitters : delay' = socket_io_reconnect_delay_ms(a, j)
        BY <1>3 DEF ReconnectFails
      <3>2. a \in Nat /\ a > 0 /\ attempt' = a
        BY <2>1
      <3> HIDE DEF a
      <3>3. QED
        BY <3>1, <3>2, RetryDelays
    <2>3. TypeOK'
      BY <2>1, <2>2 DEF SessionInv, TypeOK, Phases
    <2>4. QED
      BY <2>1, <2>3, QuietKeeps
  <1>4. CASE Unregister
    <2>1. TypeOK'
      <3>1. queue' \in Seq(Command) /\ pendingEmits' \in Seq(Emit)
        BY <1>4 DEF Unregister
      <3>2. UNCHANGED <<listeners, nextAckId, pendingAcks, pendingBinary, attempt, delay, why, wire, server, answered,
                        requested>>
            /\ phase' \in Phases /\ phase' # "waiting" /\ registered' \in BOOLEAN
        BY <1>4 DEF Unregister, Phases
      <3>3. QED
        BY <3>1, <3>2 DEF SessionInv, TypeOK
    <2>2. QED
      BY <1>4, <2>1, QuietKeeps DEF Unregister
  <1>5. QED
    BY <1>1, <1>2, <1>3, <1>4 DEF Handshake

LEMMA SessionInvStep ==
  ASSUME SessionInv, [Next]_vars
  PROVE  SessionInv'
  <1>1. CASE UNCHANGED vars
    <2>1. TypeOK'
      BY <1>1 DEF vars, flowingVars, sessionVars, SessionInv, TypeOK
    <2>2. QED
      BY <1>1, <2>1, QuietKeeps DEF vars, flowingVars, sessionVars
  <1>2. CASE TransportLost
    BY <1>2, LoseKeeps DEF TransportLost
  <1>3. CASE WriteStalls
    <2>1. UNCHANGED flowingVars
      BY <1>3 DEF WriteStalls
    <2>2. TypeOK'
      BY <2>1 DEF flowingVars, sessionVars, SessionInv, TypeOK
    <2>3. QED
      BY <2>1, <2>2, QuietKeeps DEF flowingVars, sessionVars
  <1>4. QED
    BY <1>1, <1>2, <1>3, ConnectKeeps, UserStepKeeps, ReceiveKeeps, ServerReadsKeeps, FlushPendingKeeps,
       TakeCommandKeeps, OfflineCommandKeeps, HandshakeKeeps DEF Next, Free, TaskStep

LEMMA SessionInvInit == Init => SessionInv
  <1> SUFFICES ASSUME Init PROVE SessionInv
    OBVIOUS
  <1>1. \A S : <<>> \in Seq(S)
    OBVIOUS
  <1>2. Cardinality({}) = 0
    BY FS_EmptySet
  <1>3. TypeOK
    <2>1. [seen |-> <<>>, owed |-> 0, rude |-> FALSE] \in Server
      BY <1>1 DEF Server
    <2>2. queue \in Seq(Command) /\ pendingEmits \in Seq(Emit) /\ wire \in Seq(Letter) /\ answered \in Seq(Answer)
      BY <1>1 DEF Init
    <2>3. /\ listeners \subseteq Events /\ Cardinality(listeners) <= MaxListeners
          /\ DOMAIN pendingAcks = {} /\ requested \in 0..MaxEmits
      BY <1>2, SessionAssumptions DEF Init
    <2>4. /\ phase \in Phases /\ phase # "waiting" /\ registered \in BOOLEAN
          /\ why \in {"running", "client", "server", "framing"}
          /\ nextAckId \in Nat \ {0} /\ attempt \in Nat /\ delay \in Nat
      <3>1. phase \in Phases /\ phase # "waiting" /\ why \in {"running", "client", "server", "framing"}
        BY DEF Init, Phases
      <3>2. registered \in BOOLEAN
        BY DEF Init
      <3>3. nextAckId = 1 /\ attempt = 0 /\ delay = 0
        BY DEF Init
      <3>4. QED
        BY <3>1, <3>2, <3>3
    <2>5. pendingBinary \in [need : Nat, id : Nat] /\ server \in Server
      BY <2>1 DEF Init, NoBinary
    <2>6. QED
      BY <2>2, <2>3, <2>4, <2>5 DEF TypeOK
  <1>4. OrderInv
    BY DEF Init, OrderInv, InOrderOnce, NumbersGiven, Increasing, Before
  <1>5. AcksInv
    BY DEF Init, AcksInv, IdsUnique, AcksTraced, AnsweredOnce, AckNamesItsEmit
  <1>6. FramesInv
    BY DEF Init, FramesInv, FramesAgree, FramedServerKeepsSession, NoBinary
  <1>7. QED
    BY <1>3, <1>4, <1>5, <1>6 DEF SessionInv

\* The Socket.IO task, for any number of emits, packets, transports and
\* listeners and any jitter: emits arrive in order and at most once, an
\* acknowledgement is shown for its own emit and once, and only a server
\* that breaks the framing has its session ended for it.
THEOREM EmitsStayExact == Spec => []EmitsExact
  <1>1. SessionInv => EmitsExact
    BY DEF SessionInv, EmitsExact, OrderInv, AcksInv, FramesInv
  <1>2. QED
    BY SessionInvInit, SessionInvStep, <1>1, PTL DEF Spec
=============================================================================
