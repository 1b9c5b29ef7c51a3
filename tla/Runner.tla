------------------------------- MODULE Runner -------------------------------
(***************************************************************************)
(* runCollection of src/lib/runner.ts together with the runner workbench   *)
(* of AutomationWorkbench.tsx that starts, skips and cancels.              *)
(*                                                                         *)
(* The renderer is single threaded, so the user acts only where the run    *)
(* awaits something: the delay, a script or the transport.  The code       *)
(* between two awaits is done in steps that the user cannot interrupt.     *)
(* Environment scopes, snapshots and messages are left out; what a script  *)
(* may do to the flow (fail, skip its request, name the next request) is   *)
(* kept; of the results only whether one failed.  The stored responses of  *)
(* one request are followed, newest first, by where they come from: before *)
(* the run, the run, or a send made elsewhere meanwhile.                   *)
(***************************************************************************)
EXTENDS Naturals, Sequences, FiniteSets

CONSTANTS
    Requests,       \* requests of the collection
    NameOf,         \* the name of each request; names need not be unique
    MissingTarget,  \* a name no request has
    MaxItems,       \* bound: requests of a plan times iterations
    Retries,        \* retries of an item
    ExtraSteps,     \* items an iteration may visit beyond the length of the plan
    Watched,        \* the request whose stored responses are followed
    HistoryLimit    \* maxHistoryResponses

ASSUME RunnerAssumptions ==
    /\ MaxItems \in Nat \ {0} /\ Retries \in Nat
    /\ ExtraSteps \in Nat /\ HistoryLimit \in Nat /\ Watched \in Requests

VARIABLES
    run,        \* the locals of runCollection and where it waits
    live,       \* liveItems: the status of each item, by <<iteration, index>>
    cancel,     \* cancelled.current of the workbench
    skipKeys,   \* skippedKeys.current
    aborted,    \* the signal of the active item
    runResponses,  \* workspace.responses: of the watched request, newest first
    mine        \* runnerResponses: the copy the run works on

runnerVars == <<run, live, cancel, skipKeys, aborted, runResponses, mine>>

NoTarget == "none"
Targets == Requests \cup {NameOf[r] : r \in Requests} \cup {NoTarget, MissingTarget}
Awaits == {"delay", "pre", "request", "tests"}
Finished == {"completed", "failed", "canceled", "skipped"}

IdleRun == [pc |-> "idle", ids |-> <<>>, bail |-> FALSE, iterations |-> 1, iter |-> 1, idx |-> 1,
         steps |-> 0, seek |-> NoTarget, attempt |-> 0, next |-> NoTarget, ok |-> TRUE, failed |-> FALSE,
         cancelled |-> FALSE, bailed |-> FALSE, flowError |-> FALSE]

RunnerInit ==
    /\ run = IdleRun /\ live = <<>>
    /\ cancel = FALSE /\ skipKeys = {} /\ aborted = FALSE
    /\ runResponses \in UNION {[1..n -> {"old"}] : n \in 0..HistoryLimit} /\ mine = runResponses

-----------------------------------------------------------------------------
(* Helpers of runCollection.                                               *)

ItemKey == <<run.iter, run.idx>>
CurrentRequest == run.ids[run.idx]

(* A finished item keeps its status.                                       *)
UpdateLiveItem(key, status) ==
    [live EXCEPT ![key] = IF @ \in Finished THEN @ ELSE status]

FinishUnfinished(items, status) ==
    [key \in DOMAIN items |-> IF items[key] \in Finished THEN items[key] ELSE status]

(* An id matches itself; a name only the last item of the plan that has it.*)
MatchesNextRequest(i, target) ==
    \/ run.ids[i] = target
    \/ /\ NameOf[run.ids[i]] = target
       /\ \A j \in (i + 1)..Len(run.ids) : NameOf[run.ids[j]] # target

(* Skip is looked at before cancel.                                        *)
Interruption ==
    CASE ItemKey \in skipKeys -> "skipped"
      [] ItemKey \notin skipKeys /\ (cancel \/ aborted) -> "canceled"
      [] OTHER -> "none"

(* retainResponseHistory for one request: the newest HistoryLimit stay.    *)
RetainResponseHistory(stored, response) ==
    LET all == <<response>> \o stored
    IN SubSeq(all, 1, IF Len(all) < HistoryLimit THEN Len(all) ELSE HistoryLimit)

-----------------------------------------------------------------------------
(* The workbench.                                                          *)

(* start: a plan without duplicates, at least one request of it; the flags *)
(* of an earlier run are cleared and the stored responses copied.          *)
StartRun ==
    /\ run.pc = "idle"
    /\ \E ids \in UNION {[1..n -> Requests] : n \in 1..MaxItems}, iterations \in 1..MaxItems, bail \in BOOLEAN :
         /\ Len(ids) * iterations <= MaxItems
         /\ \A i, j \in DOMAIN ids : ids[i] = ids[j] => i = j
         /\ run' = [IdleRun EXCEPT !.pc = "item", !.ids = ids, !.bail = bail, !.iterations = iterations]
         /\ live' = [key \in (1..iterations) \X DOMAIN ids |-> "pending"]
    /\ cancel' = FALSE /\ skipKeys' = {} /\ aborted' = FALSE
    /\ runResponses' = [i \in DOMAIN runResponses |-> "old"]
    /\ mine' = runResponses'

(* skipItem: the active item is aborted as well.                           *)
SkipItem(key) ==
    /\ run.pc \in Awaits
    /\ key \notin skipKeys /\ live[key] \notin Finished
    /\ skipKeys' = skipKeys \cup {key}
    /\ aborted' = (aborted \/ key = ItemKey)
    /\ UNCHANGED <<run, live, cancel, runResponses, mine>>

(* cancelRun                                                               *)
CancelRun ==
    /\ run.pc \in Awaits /\ ~cancel
    /\ cancel' = TRUE /\ aborted' = TRUE
    /\ UNCHANGED <<run, live, skipKeys, runResponses, mine>>

(* The watched request is sent from another tab while the run goes on, and *)
(* its response stored in the workspace, of which the run has its own      *)
(* copy.                                                                   *)
SendElsewhere ==
    /\ run.pc \in Awaits
    /\ \A i \in DOMAIN runResponses : runResponses[i] # "else"
    /\ runResponses' = RetainResponseHistory(runResponses, "else")
    /\ UNCHANGED <<run, live, cancel, skipKeys, aborted, mine>>

-----------------------------------------------------------------------------
(* The flow of an iteration.                                               *)

GotoStage(pc) == run' = [run EXCEPT !.pc = pc]

(* The last item of an iteration was passed.                               *)
IterationEnds ==
    /\ run.pc = "item" /\ run.idx > Len(run.ids)
    /\ run' = IF run.iter = run.iterations THEN [run EXCEPT !.pc = "report"]
              ELSE [run EXCEPT !.iter = @ + 1, !.idx = 1, !.steps = 0, !.seek = NoTarget]
    /\ UNCHANGED <<live, cancel, skipKeys, aborted, runResponses, mine>>

(* An iteration may visit as many items as the plan has, and some more.    *)
FlowStepLimit == Len(run.ids) + ExtraSteps

\* No limit: a script that names its own request runs for ever.
FlowUnlimited ==
    /\ run.pc = "item" /\ run.idx <= Len(run.ids) /\ run.steps >= FlowStepLimit
    /\ run' = [run EXCEPT !.steps = 0]
    /\ UNCHANGED <<live, cancel, skipKeys, aborted, runResponses, mine>>

(* One item more than the limit: the run fails here.                       *)
FlowLimit ==
    /\ run.pc = "item" /\ run.idx <= Len(run.ids) /\ run.steps >= FlowStepLimit
    /\ run' = [run EXCEPT !.pc = "report", !.flowError = TRUE, !.failed = TRUE, !.steps = @ + 1]
    /\ live' = FinishUnfinished(UpdateLiveItem(ItemKey, "failed"), "skipped")
    /\ UNCHANGED <<cancel, skipKeys, aborted, runResponses, mine>>

Visiting == run.pc = "item" /\ run.idx <= Len(run.ids) /\ run.steps < FlowStepLimit
Reached == run.seek = NoTarget \/ MatchesNextRequest(run.idx, run.seek)

(* Items before the request that a script named are skipped.               *)
SeekOn ==
    /\ Visiting /\ ~Reached
    /\ run' = [run EXCEPT !.steps = @ + 1, !.idx = @ + 1]
    /\ live' = UpdateLiveItem(ItemKey, "skipped")
    /\ UNCHANGED <<cancel, skipKeys, aborted, runResponses, mine>>

\* The items that were not reached keep their status.
CancelHereBare ==
    /\ Visiting /\ Reached /\ cancel
    /\ run' = [run EXCEPT !.pc = "report", !.steps = @ + 1, !.cancelled = TRUE]
    /\ UNCHANGED <<live, cancel, skipKeys, aborted, runResponses, mine>>

CancelHere ==
    /\ Visiting /\ Reached /\ cancel
    /\ run' = [run EXCEPT !.pc = "report", !.steps = @ + 1, !.cancelled = TRUE]
    /\ live' = FinishUnfinished(live, "canceled")
    /\ UNCHANGED <<cancel, skipKeys, aborted, runResponses, mine>>

SkipHere ==
    /\ Visiting /\ Reached /\ ~cancel /\ ItemKey \in skipKeys
    /\ run' = [run EXCEPT !.steps = @ + 1, !.seek = NoTarget, !.idx = @ + 1]
    /\ live' = UpdateLiveItem(ItemKey, "skipped")
    /\ UNCHANGED <<cancel, skipKeys, aborted, runResponses, mine>>

(* A new abort controller, the first attempt, and the delay if there is    *)
(* one.  (Nothing can interrupt between here and the check before the      *)
(* attempt.)                                                               *)
BeginItem ==
    /\ Visiting /\ Reached /\ ~cancel /\ ItemKey \notin skipKeys
    /\ \E pc \in {"delay", "pre"} :
         run' = [run EXCEPT !.pc = pc, !.steps = @ + 1, !.seek = NoTarget, !.attempt = 1, !.next = NoTarget]
    /\ aborted' = FALSE
    /\ live' = UpdateLiveItem(ItemKey, "running")
    /\ UNCHANGED <<cancel, skipKeys, runResponses, mine>>

-----------------------------------------------------------------------------
(* An attempt.                                                             *)

(* After the item, whose own variables are gone: stay on it when the script*)
(* named it, or go on.                                                     *)
Advanced(r) ==
    [r EXCEPT !.pc = "item", !.seek = r.next, !.next = NoTarget, !.attempt = 0, !.ok = TRUE,
              !.idx = IF r.next # NoTarget /\ MatchesNextRequest(@, r.next) THEN @ ELSE @ + 1]

(* The attempt was interrupted: a skip goes on with the flow, where the    *)
(* jump of an earlier script still counts; a cancel ends the run.          *)
ItemInterrupted(r, control) ==
    IF control = "skipped"
    THEN run' = Advanced(r) /\ live' = UpdateLiveItem(ItemKey, "skipped")
    ELSE /\ run' = [r EXCEPT !.pc = "report", !.cancelled = TRUE]
         /\ live' = FinishUnfinished(live, "canceled")

(* The attempt has a result; it is retried, or finishes the item, or bails.*)
FinishAttempt(before, passed, error) ==
    LET r == [before EXCEPT !.failed = @ \/ ~passed]
        exhausted == passed \/ r.attempt > Retries
        bails == exhausted /\ ~passed /\ r.bail
        finished == UpdateLiveItem(ItemKey, IF error THEN "failed" ELSE "completed")
    IN /\ live' = CASE bails -> FinishUnfinished(finished, "skipped")
                    [] exhausted /\ ~bails -> finished
                    [] OTHER -> live
       /\ \/ bails /\ run' = [r EXCEPT !.pc = "report", !.bailed = TRUE]
          \/ exhausted /\ ~bails /\ run' = Advanced(r)
          \/ ~exhausted /\ \E pc \in {"delay", "pre"} : run' = [r EXCEPT !.pc = pc, !.attempt = @ + 1]

(* The timer of the delay, or its abort.                                   *)
DelayEnds ==
    /\ run.pc = "delay"
    /\ IF aborted THEN ItemInterrupted(run, Interruption) ELSE GotoStage("pre") /\ UNCHANGED live
    /\ UNCHANGED <<cancel, skipKeys, aborted, runResponses, mine>>

\* The pre-request script is not followed by a look at skip and cancel.
PreRequestReturnsLate ==
    /\ run.pc = "pre"
    /\ \E next \in Targets, skip, failing \in BOOLEAN :
         LET r == [run EXCEPT !.next = next, !.ok = ~failing]
         IN IF skip THEN run' = Advanced(r) /\ live' = UpdateLiveItem(ItemKey, "skipped")
            ELSE run' = [r EXCEPT !.pc = "request"] /\ UNCHANGED live
    /\ UNCHANGED <<cancel, skipKeys, aborted, runResponses, mine>>

(* The pre-request script returned; it may skip its request, name the next *)
(* one and have failing tests.                                             *)
PreRequestReturns ==
    /\ run.pc = "pre"
    /\ IF Interruption # "none" THEN ItemInterrupted(run, Interruption)
       ELSE \E next \in Targets, skip, failing \in BOOLEAN :
              LET r == [run EXCEPT !.next = next, !.ok = ~failing]
              IN IF skip THEN run' = Advanced(r) /\ live' = UpdateLiveItem(ItemKey, "skipped")
                 ELSE run' = [r EXCEPT !.pc = "request"] /\ UNCHANGED live
    /\ UNCHANGED <<cancel, skipKeys, aborted, runResponses, mine>>

(* The transport answered, well or with an error status; the workbench     *)
(* stores the response in the run's copy before anything is checked.       *)
RequestReturns ==
    /\ run.pc = "request"
    /\ mine' = IF CurrentRequest = Watched THEN RetainResponseHistory(mine, "run") ELSE mine
    /\ IF Interruption # "none" THEN ItemInterrupted(run, Interruption)
       ELSE \E good \in BOOLEAN :
              run' = [run EXCEPT !.pc = "tests", !.ok = @ /\ good] /\ UNCHANGED live
    /\ UNCHANGED <<cancel, skipKeys, aborted, runResponses>>

(* The after-response script returned; some tests may have failed.  It     *)
(* keeps the earlier choice of the next request unless it makes one.       *)
TestsReturn ==
    /\ run.pc = "tests"
    /\ IF Interruption # "none" THEN ItemInterrupted(run, Interruption)
       ELSE \E next \in Targets, failing \in BOOLEAN :
              FinishAttempt([run EXCEPT !.next = IF next = NoTarget THEN @ ELSE next], run.ok /\ ~failing, FALSE)
    /\ UNCHANGED <<cancel, skipKeys, aborted, runResponses, mine>>

(* A script or the transport threw; no request is named next.              *)
AttemptThrows ==
    /\ run.pc \in {"pre", "request", "tests"}
    /\ IF Interruption # "none" THEN ItemInterrupted(run, Interruption)
       ELSE FinishAttempt([run EXCEPT !.next = NoTarget], FALSE, TRUE)
    /\ UNCHANGED <<cancel, skipKeys, aborted, runResponses, mine>>

\* The run works on an empty copy of the stored responses.
CommitRunOnlyMine ==
    /\ run.pc = "report"
    /\ run' = IdleRun
    /\ runResponses' = SelectSeq(mine, LAMBDA x : x = "run")
    /\ mine' = runResponses' /\ live' = <<>>
    /\ cancel' = FALSE /\ skipKeys' = {} /\ aborted' = FALSE

(* The report goes to the workspace, whose responses become the run's      *)
(* copy.  (The items and results that stay on the screen are forgotten.)   *)
CommitRun ==
    /\ run.pc = "report"
    /\ run' = IdleRun
    /\ runResponses' = mine
    /\ UNCHANGED mine /\ live' = <<>>
    /\ cancel' = FALSE /\ skipKeys' = {} /\ aborted' = FALSE

-----------------------------------------------------------------------------
RunSteps ==
    \/ IterationEnds \/ FlowLimit \/ SeekOn \/ CancelHere \/ SkipHere \/ BeginItem
    \/ DelayEnds \/ PreRequestReturns \/ RequestReturns \/ TestsReturn \/ AttemptThrows
    \/ CommitRun

RunnerNext ==
    \/ StartRun \/ CancelRun \/ SendElsewhere \/ RunSteps
    \/ \E key \in DOMAIN live : SkipItem(key)

(* Timers fire and scripts have a timeout.  Nothing makes a request end: it*)
(* may wait for the user or, without a timeout, for the server.            *)
RunnerFairness == WF_runnerVars(run.pc # "request" /\ RunSteps)
RunnerSpec == RunnerInit /\ [][RunnerNext]_runnerVars /\ RunnerFairness

-----------------------------------------------------------------------------
(* A report accounts for the whole plan: every item is finished, whatever  *)
(* ended the run; an item is canceled only in a cancelled run and failed   *)
(* only in one with a failed attempt; a bail follows a failure; and a run  *)
(* is never both cancelled and bailed.                                     *)
ReportAccounts ==
    run.pc = "report" =>
      /\ \A key \in DOMAIN live : live[key] \in Finished
      /\ \A key \in DOMAIN live : /\ live[key] = "canceled" => run.cancelled
                                  /\ live[key] = "failed" => run.failed
      /\ run.bailed => run.bail /\ run.failed
      /\ ~(run.cancelled /\ run.bailed)

(* A request goes out only while the run is wanted: never after "Cancel    *)
(* all", never for an item the user skipped, whatever the scripts and the  *)
(* delay were doing at that moment; and a skipped item never turns into a  *)
(* completed or failed one.                                                *)
SendsOnlyWanted ==
    [][/\ run'.pc = "request" /\ run.pc # "request" => ~cancel /\ ItemKey \notin skipKeys
       /\ \A key \in skipKeys : (key \in DOMAIN live /\ key \in DOMAIN live' /\ live[key] \notin Finished)
                                  => live'[key] \notin {"completed", "failed"} \/ run'.flowError]_runnerVars

(* A run costs no stored response from before it, except the ones its own  *)
(* responses push over the limit.  (The responses that were stored while   *)
(* it ran are lost: it writes back the copy it made at the start.)         *)
OldOnes(stored) == Cardinality({i \in DOMAIN stored : stored[i] = "old"})
RunKeepsOldResponses ==
    [][OldOnes(runResponses') < OldOnes(runResponses) => Len(runResponses') = HistoryLimit]_runnerVars

(* Every run ends, even one whose scripts always name their own request,   *)
(* unless one of its requests never ends.                                  *)
RunEnds == []<>(run.pc # "request") => []<>(run.pc = "idle")

(* What a run reports, sends and leaves behind, and that it ends           *)
(* (runner.ts; AutomationWorkbench.tsx, the run and its commit).           *)
RunSound == []ReportAccounts /\ SendsOnlyWanted /\ RunKeepsOldResponses /\ RunEnds
=============================================================================
