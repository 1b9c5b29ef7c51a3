------------------------------ MODULE SseSession ------------------------------
(***************************************************************************)
(* One Server-Sent Events session of src-tauri/src/streaming.rs: the task  *)
(* that connect_sse spawns, which reads a response, reconnects within the  *)
(* limits of the request and resumes with Last-Event-ID.                   *)
(*                                                                         *)
(* The server (external) makes numbered events; a response carries them    *)
(* from some position on, each in two chunks, so that a response can break *)
(* off inside an event.  Event names and data are left out.                *)
(***************************************************************************)
EXTENDS Integers, Sequences

CONSTANTS
    Limits,      \* values of max_reconnects tried; 0 is "no limit"
    Delays,      \* values of reconnect_delay_ms and of retry: fields tried
    MaxEvents,   \* bound: events the server makes
    MaxBreaks    \* bound: responses that end and reconnects that fail

ASSUME SseAssumptions ==
    /\ Limits \subseteq Nat /\ Delays \subseteq Nat
    /\ MaxEvents \in Nat /\ MaxBreaks \in Nat

VARIABLES
    config,      \* SseConfig of the request, and whether the server uses ids
    phase,       \* where the task is
    registered,  \* sse_sessions holds the sender of this session
    cancels,     \* messages in the cancel channel
    reconnects,  \* reconnects
    delay,       \* reconnect_delay_ms of the task
    lastId,      \* last_event_id, 0 when empty
    half,        \* the parser holds the beginning of an event
    shown,       \* events reported to the user, in order
    opened,      \* requests the task made
    made,        \* events the server has made
    next,        \* the next event of the open response
    breaks       \* counter for MaxBreaks

sseVars == <<config, phase, registered, cancels, reconnects, delay, lastId,
             half, shown, opened>>
sseStateVars == <<sseVars, made, next, breaks>>

Configs == [auto : BOOLEAN, max : Limits, respectRetry : BOOLEAN,
            resume : BOOLEAN, ids : BOOLEAN]

(* clamp(100, 60_000)                                                      *)
Clamp(ms) == IF ms < 100 THEN 100 ELSE IF ms > 60000 THEN 60000 ELSE ms

SseInit ==
    /\ config \in Configs
    /\ phase = "idle" /\ registered = FALSE /\ cancels = 0
    /\ reconnects = 0 /\ delay = 100 /\ lastId = 0 /\ half = FALSE
    /\ shown = <<>> /\ opened = 0
    /\ made = 0 /\ next = 1 /\ breaks = 0

-----------------------------------------------------------------------------
(* connect_sse: the first response is open and the task is spawned.        *)
Connect(ms) ==
    /\ phase = "idle"
    /\ phase' = "reading" /\ registered' = TRUE
    /\ delay' = Clamp(ms)
    /\ opened' = 1 /\ next' = made + 1
    /\ UNCHANGED <<config, cancels, reconnects, lastId, half, shown, made, breaks>>

(* disconnect_sse                                                          *)
Disconnect ==
    /\ registered
    /\ registered' = FALSE
    /\ cancels' = IF phase = "closed" THEN cancels ELSE cancels + 1
    /\ UNCHANGED <<config, phase, reconnects, delay, lastId, half, shown, opened,
                   made, next, breaks>>

-----------------------------------------------------------------------------
\* The limit is off by one.
OneMore(n) == config.auto /\ (config.max = 0 \/ n <= config.max)

(* should_reconnect                                                        *)
should_reconnect(n) == config.auto /\ (config.max = 0 \/ n < config.max)

(* The top of the session loop when there is no response to read.          *)
Decide ==
    IF should_reconnect(reconnects)
    THEN phase' = "waiting" /\ reconnects' = reconnects + 1
    ELSE phase' = "ended" /\ UNCHANGED reconnects

\* The read of a response does not watch the channel.
CancelBetweenResponses ==
    /\ phase \in {"waiting", "opening"} /\ cancels > 0
    /\ cancels' = cancels - 1
    /\ phase' = "ended"
    /\ UNCHANGED <<config, registered, reconnects, delay, lastId, half, shown,
                   opened, made, next, breaks>>

(* The task sees the cancel message while it reads, waits or reopens.      *)
Cancel ==
    /\ phase \in {"reading", "waiting", "opening"} /\ cancels > 0
    /\ cancels' = cancels - 1
    /\ phase' = "ended"
    /\ UNCHANGED <<config, registered, reconnects, delay, lastId, half, shown,
                   opened, made, next, breaks>>

(* A chunk that ends inside an event: SseParser keeps it.                  *)
ReadHalf ==
    /\ phase = "reading" /\ ~half /\ next <= made
    /\ half' = TRUE
    /\ UNCHANGED <<config, phase, registered, cancels, reconnects, delay, lastId,
                   shown, opened, made, next, breaks>>

\* The hint of the server is not clamped.
RawHint(hint) == delay' = IF config.respectRetry THEN hint ELSE delay

(* retry_ms of an event, when the request respects it.                     *)
ApplyRetry(hint) == delay' = IF config.respectRetry THEN Clamp(hint) ELSE delay

(* The chunk that completes an event: its id is kept, its retry field      *)
(* applied, and it is shown.                                               *)
ReadEvent ==
    /\ phase = "reading" /\ half
    /\ half' = FALSE /\ next' = next + 1
    /\ lastId' = IF config.ids THEN next ELSE lastId
    /\ shown' = Append(shown, next)
    /\ \/ UNCHANGED delay
       \/ \E hint \in Delays : ApplyRetry(hint)
    /\ UNCHANGED <<config, phase, registered, cancels, reconnects, opened, made,
                   breaks>>

(* The response ends or fails.                                             *)
ResponseEnds ==
    /\ phase = "reading" /\ breaks < MaxBreaks
    /\ breaks' = breaks + 1
    /\ Decide
    /\ UNCHANGED <<config, registered, cancels, delay, lastId, half, shown,
                   opened, made, next>>

\* Waits for an event id before it reconnects.
DelayOverWithId ==
    /\ phase = "waiting" /\ lastId > 0
    /\ phase' = "opening" /\ opened' = opened + 1
    /\ UNCHANGED <<config, registered, cancels, reconnects, delay, lastId, half,
                   shown, made, next, breaks>>

(* The delay before a reconnect is over: the request is made.              *)
DelayOver ==
    /\ phase = "waiting"
    /\ phase' = "opening" /\ opened' = opened + 1
    /\ UNCHANGED <<config, registered, cancels, reconnects, delay, lastId, half,
                   shown, made, next, breaks>>

\* Last-Event-ID is never sent.
ReopenWithoutId ==
    /\ phase = "opening"
    /\ phase' = "reading" /\ half' = FALSE
    /\ next' = made + 1
    /\ UNCHANGED <<config, registered, cancels, reconnects, delay, lastId, shown,
                   opened, made, breaks>>

(* open_sse succeeds.  The server resumes after Last-Event-ID when it is   *)
(* sent and starts at its newest event otherwise; the parser is new.       *)
Reopen ==
    /\ phase = "opening"
    /\ phase' = "reading" /\ half' = FALSE
    /\ next' = IF config.resume /\ lastId > 0 THEN lastId + 1 ELSE made + 1
    /\ UNCHANGED <<config, registered, cancels, reconnects, delay, lastId, shown,
                   opened, made, breaks>>

(* open_sse fails or runs into its timeout.                                *)
ReopenFails ==
    /\ phase = "opening" /\ breaks < MaxBreaks
    /\ breaks' = breaks + 1
    /\ Decide
    /\ UNCHANGED <<config, registered, cancels, delay, lastId, half, shown,
                   opened, made, next>>

(* The task removes its sender and reports "closed".                       *)
Finish ==
    /\ phase = "ended"
    /\ phase' = "closed" /\ registered' = FALSE
    /\ UNCHANGED <<config, cancels, reconnects, delay, lastId, half, shown,
                   opened, made, next, breaks>>

(* The server makes an event (external).                                   *)
MakeEvent ==
    /\ made < MaxEvents
    /\ made' = made + 1
    /\ UNCHANGED <<sseVars, next, breaks>>

SseNext ==
    \/ \E ms \in Delays : Connect(ms)
    \/ Disconnect \/ Cancel \/ ReadHalf \/ ReadEvent \/ ResponseEnds
    \/ DelayOver \/ Reopen \/ ReopenFails \/ Finish \/ MakeEvent

(* The runtime runs the task: a sleep ends, and a cancel message that is   *)
(* ready is seen.  Nothing makes a handshake end, whose timeout is that of *)
(* the request and may be 0.                                               *)
SseFairness ==
    WF_sseStateVars(Cancel) /\ WF_sseStateVars(DelayOver) /\ WF_sseStateVars(Finish)

SseSpec == SseInit /\ [][SseNext]_sseStateVars /\ SseFairness

-----------------------------------------------------------------------------
(* Every variable stays within its type; a session that was not started or *)
(* is over is not registered; neither the request nor a server's retry:    *)
(* field moves the delay out of 100 ms to one minute.                      *)
TypeOK ==
    /\ config \in Configs
    /\ phase \in {"idle", "reading", "waiting", "opening", "ended", "closed"}
    /\ registered \in BOOLEAN /\ cancels \in 0..1
    /\ delay \in 100..60000 /\ reconnects \in Nat /\ lastId \in 0..MaxEvents /\ half \in BOOLEAN
    /\ shown \in Seq(1..MaxEvents) /\ opened \in Nat
    /\ made \in 0..MaxEvents /\ next \in 1..(MaxEvents + 1) /\ breaks \in Nat
    /\ registered => phase \notin {"idle", "closed"}

(* With event ids and resume, the user sees every event from the first one *)
(* shown on, once and in order, however often the response broke off,      *)
(* inside or between events.                                               *)
ResumeExact ==
    config.resume /\ config.ids =>
        \A i \in 1..(Len(shown) - 1) : shown[i + 1] = shown[i] + 1

(* A session that ends by itself has made exactly the attempts its request *)
(* allows; with no limit it does not end by itself.                        *)
LimitExact ==
    (phase = "ended" /\ registered) =>
        IF config.auto THEN config.max > 0 /\ opened = config.max + 1
                       ELSE opened = 1

(* A disconnect ends the session from a read, a delay or a reconnect.      *)
DisconnectEnds == (phase # "idle" /\ ~registered) ~> (phase = "closed")

(* An interrupted session is reading again, or over, once the server does  *)
(* not fail any more (MaxBreaks), unless one of its handshakes never ends. *)
ReadsAgain == []<>(phase # "opening") => ((phase = "waiting") ~> (phase \in {"reading", "closed"}))

(* A session resumes exactly, keeps its limits, and ends or reads again    *)
(* (streaming.rs, the Server-Sent Events task).                            *)
SseSound == []TypeOK /\ []ResumeExact /\ []LimitExact /\ DisconnectEnds /\ ReadsAgain
=============================================================================
