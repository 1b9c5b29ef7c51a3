---------------------------- MODULE StreamSample ----------------------------
(***************************************************************************)
(* runStreamSample of src/lib/protocol.ts: the collection runner opens a   *)
(* stream, sends the start-up message, waits for the first incoming event  *)
(* or the end of its window, and disconnects; the runner may abort it at   *)
(* any time.  Sessions of the backend are reduced to opening, open and     *)
(* closed (StreamConsole has more).                                        *)
(***************************************************************************)
EXTENDS Naturals

CONSTANT MaxSamples  \* bound: samples a run takes one after the other

VARIABLES
    sampleStage,     \* idle, rendering, connecting, startup, window, closing
    sampleSignal,    \* the abort signal of the item
    sampleSession,   \* the session in the backend: none, opening, open, closed
    pendingDisconnects,   \* disconnect commands on their way
    gaveUp,    \* the sample was aborted while its connect was under way
    taken      \* samples taken so far

sampleVars == <<sampleStage, sampleSignal, sampleSession, pendingDisconnects, gaveUp, taken>>

SampleInit ==
    /\ sampleStage = "idle" /\ sampleSignal = FALSE /\ sampleSession = "none"
    /\ pendingDisconnects = 0 /\ gaveUp = FALSE /\ taken = 0

Sampling == sampleStage \in {"rendering", "connecting", "startup", "window"}
Listening == sampleStage \in {"connecting", "startup", "window"}

(* The runner starts a sample with a signal that is not aborted.  What is  *)
(* left of the previous session is out of its reach: it has another id.    *)
SampleStart ==
    /\ sampleStage = "idle" /\ taken < MaxSamples
    /\ sampleStage' = "rendering" /\ sampleSignal' = FALSE /\ sampleSession' = "none"
    /\ pendingDisconnects' = 0 /\ gaveUp' = FALSE /\ taken' = taken + 1

(* The request is rendered; an abort or an error on the way ends it.       *)
RenderSample ==
    /\ sampleStage = "rendering"
    /\ \/ /\ ~sampleSignal /\ sampleStage' = "connecting" /\ sampleSession' = "opening"
       \/ sampleStage' = "idle" /\ UNCHANGED sampleSession
    /\ UNCHANGED <<sampleSignal, pendingDisconnects, gaveUp, taken>>

(* The runner aborts: from the connect on, onAbort sends a disconnect.     *)
SampleAbort ==
    /\ Sampling /\ ~sampleSignal
    /\ sampleSignal' = TRUE
    /\ pendingDisconnects' = IF Listening THEN pendingDisconnects + 1 ELSE pendingDisconnects
    /\ gaveUp' = (sampleStage = "connecting")
    /\ UNCHANGED <<sampleStage, sampleSession, taken>>

(* The connect command answers: the session is open, or it failed.         *)
ConnectAnswers ==
    /\ sampleStage = "connecting" /\ ~sampleSignal /\ sampleSession \in {"open", "closed"}
    /\ sampleStage' = IF sampleSession = "open" THEN "startup" ELSE "closing"
    /\ UNCHANGED <<sampleSignal, sampleSession, pendingDisconnects, gaveUp, taken>>

(* The start-up message was sent, or could not be.  An abort does not      *)
(* shorten this.                                                           *)
StartupSent ==
    /\ sampleStage = "startup"
    /\ \E s \in {"window", "closing"} : sampleStage' = s
    /\ UNCHANGED <<sampleSignal, sampleSession, pendingDisconnects, gaveUp, taken>>

(* The first event or the timer; or the abort, which also wins over a      *)
(* connect that is still under way.                                        *)
WindowEnds ==
    /\ sampleStage = "window" \/ (sampleStage = "connecting" /\ sampleSignal)
    /\ sampleStage' = "closing"
    /\ UNCHANGED <<sampleSignal, sampleSession, pendingDisconnects, gaveUp, taken>>

\* The session is disconnected only when the sample was aborted.
CloseSampleAborted ==
    /\ sampleStage = "closing"
    /\ sampleStage' = "idle"
    /\ pendingDisconnects' = IF sampleSignal THEN pendingDisconnects + 1 ELSE pendingDisconnects
    /\ UNCHANGED <<sampleSignal, sampleSession, gaveUp, taken>>

(* finally: another disconnect, whatever happened.                         *)
CloseSample ==
    /\ sampleStage = "closing"
    /\ sampleStage' = "idle" /\ pendingDisconnects' = pendingDisconnects + 1
    /\ UNCHANGED <<sampleSignal, sampleSession, gaveUp, taken>>

(* The backend: a connect succeeds or fails; a disconnect closes what is   *)
(* open and does nothing before that.                                      *)
BackendOpens ==
    /\ sampleSession = "opening"
    /\ \E s \in {"open", "closed"} : sampleSession' = s
    /\ UNCHANGED <<sampleStage, sampleSignal, pendingDisconnects, gaveUp, taken>>

BackendDisconnects ==
    /\ pendingDisconnects > 0
    /\ pendingDisconnects' = pendingDisconnects - 1
    /\ sampleSession' = IF sampleSession = "open" THEN "closed" ELSE sampleSession
    /\ UNCHANGED <<sampleStage, sampleSignal, gaveUp, taken>>

SampleNext ==
    \/ SampleStart \/ RenderSample \/ SampleAbort \/ ConnectAnswers \/ StartupSent \/ WindowEnds
    \/ CloseSample \/ BackendOpens \/ BackendDisconnects

SampleSpec == SampleInit /\ [][SampleNext]_sampleVars

(* A sample leaves no open session behind, except when it was aborted      *)
(* while its connect was under way: both disconnects may then come before  *)
(* the session is there, and nothing closes it.                            *)
SampleCloses ==
    sampleStage = "idle" /\ pendingDisconnects = 0 /\ sampleSession = "open" => gaveUp
=============================================================================
