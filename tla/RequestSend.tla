---------------------------- MODULE RequestSend ----------------------------
(***************************************************************************)
(* Sending from the request editor of App.tsx: executeRequest, the         *)
(* schedules (a delayed send, repeated sends) and the guard that keeps the *)
(* project open while something is sent.                                   *)
(*                                                                         *)
(* Both are closures of one rendering: a schedule calls the executeRequest *)
(* of the rendering in which it was started again and again, with the      *)
(* workspace and the isSending flag of that moment.  The stored responses  *)
(* are the numbers of the sends they belong to (with the limit -1, which   *)
(* keeps all); the cookie jar and the plugin data are copied at the start  *)
(* of a send and written back at its end in the same way.                  *)
(***************************************************************************)
EXTENDS Naturals, FiniteSets

CONSTANTS
    Schedules,   \* schedules that may be started
    MaxSends,    \* bound: sends
    RepeatLimit, \* repeats of one schedule (1,000)
    MaxProjects  \* bound: projects opened one after the other

ASSUME SendAssumptions ==
    /\ Schedules \subseteq Nat \ {0} /\ MaxSends \in Nat
    /\ RepeatLimit \in Nat \ {0} /\ MaxProjects \in Nat \ {0}

VARIABLES
    sends,              \* the locals of each executeRequest under way or done
    schedules,          \* the loop of each startScheduledSends
    scheduledCancelled, \* the ref of that name
    scheduledResolve,   \* whose wait the refs of timer and resolve hold; 0: none
    isSending, scheduledSendLabel,  \* rendered state; the label only empty or not
    switching,          \* where a change of the project is
    openProject,        \* the project the workspace belongs to
    stored,             \* workspace.responses
    entangled           \* history: a schedule was started beside another, or a send or
                        \* schedule in the middle of a change of the project

sendVars == <<sends, schedules, scheduledCancelled, scheduledResolve, isSending, scheduledSendLabel,
              switching, openProject, stored, entangled>>

Button == 0         \* the Send button, where a schedule is not the sender
Stages == {"oauth", "pre", "request", "tests"}
Waits == {"delay", "interval"}

(* woken: the timer fired, or a cancel resolved the wait.                  *)
NoSchedule == [pc |-> "none", repeat |-> FALSE, runs |-> 0, woken |-> FALSE, copy |-> {}, project |-> 0]

SendInit ==
    /\ sends = [i \in {} |-> 0]
    /\ schedules = [s \in Schedules |-> NoSchedule]
    /\ scheduledCancelled = FALSE /\ scheduledResolve = 0
    /\ isSending = FALSE /\ scheduledSendLabel = FALSE
    /\ switching = "no" /\ openProject = 1 /\ stored = {} /\ entangled = FALSE

Active(s) == schedules[s].pc \notin {"none", "ended"}
InFlight(i) == sends[i].pc \in Stages
Sent == DOMAIN sends

(* A promise that was resolved continues before any other event.           *)
Settled == \A s \in Schedules : ~(schedules[s].pc \in Waits /\ schedules[s].woken)

-----------------------------------------------------------------------------
(* executeRequest                                                          *)

(* It starts with copies of the responses, cookies and plugin data.        *)
BeginSend(by, copy, project) ==
    /\ Cardinality(Sent) < MaxSends
    /\ LET id == Cardinality(Sent) + 1
       IN sends' = [i \in Sent \cup {id} |->
                      IF i = id THEN [pc |-> "oauth", by |-> by, copy |-> copy, project |-> project] ELSE sends[i]]
    /\ isSending' = TRUE

(* The button: disabled while something is sent, and a stop button while a *)
(* schedule is shown.                                                      *)
SendNow ==
    /\ Settled /\ ~isSending /\ ~scheduledSendLabel
    /\ BeginSend(Button, stored, openProject)
    /\ entangled' = (entangled \/ switching # "no")
    /\ UNCHANGED <<schedules, scheduledCancelled, scheduledResolve, scheduledSendLabel, switching, openProject, stored>>

SendAwaits(i, from, to) ==
    /\ Settled /\ sends[i].pc = from
    /\ sends' = [sends EXCEPT ![i].pc = to]
    /\ UNCHANGED <<schedules, scheduledCancelled, scheduledResolve, isSending, scheduledSendLabel, switching, openProject, stored, entangled>>

(* The loop that sent goes on: it stops after one send, when it was        *)
(* cancelled, and waits for the interval otherwise.                        *)
AfterSend(by) ==
    IF by = Button THEN UNCHANGED <<schedules, scheduledResolve, scheduledSendLabel>>
    ELSE IF ~schedules[by].repeat \/ scheduledCancelled
         THEN /\ schedules' = [schedules EXCEPT ![by].pc = "ended"]
              /\ scheduledResolve' = 0 /\ scheduledSendLabel' = FALSE
         ELSE /\ schedules' = [schedules EXCEPT ![by].pc = "interval", ![by].woken = FALSE]
              /\ scheduledResolve' = by /\ scheduledSendLabel' = TRUE

(* What executeRequest writes at its end: its copy and, unless the script  *)
(* skipped the request or something other than the transport failed, the   *)
(* new response.                                                           *)
EndSend(i, kept) ==
    /\ Settled
    /\ sends' = [sends EXCEPT ![i].pc = "done"]
    /\ stored' = sends[i].copy \cup kept
    /\ isSending' = FALSE
    /\ AfterSend(sends[i].by)
    /\ UNCHANGED <<scheduledCancelled, switching, openProject, entangled>>

SendSkipped(i) == sends[i].pc = "pre" /\ EndSend(i, {})
SendAnswered(i) == sends[i].pc = "tests" /\ EndSend(i, {i})
TransportFails(i) == sends[i].pc = "request" /\ EndSend(i, {i})
RequestThrows(i) == sends[i].pc \in Stages /\ EndSend(i, {})

(* A descriptor that could not be loaded ends a gRPC call without a word.  *)
NoGrpcSchema(i) ==
    /\ Settled /\ sends[i].pc = "request"
    /\ sends' = [sends EXCEPT ![i].pc = "done"]
    /\ isSending' = FALSE
    /\ AfterSend(sends[i].by)
    /\ UNCHANGED <<scheduledCancelled, switching, openProject, stored, entangled>>

-----------------------------------------------------------------------------
(* Schedules                                                               *)

(* A wait whose timer and resolve are in the refs is woken; one that was   *)
(* replaced there only has its timer.                                      *)
Woken(loops) ==
    IF scheduledResolve = 0 THEN loops ELSE [loops EXCEPT ![scheduledResolve].woken = TRUE]

(* cancelScheduledSends                                                    *)
Cancelled ==
    /\ scheduledCancelled' = TRUE
    /\ schedules' = Woken(schedules)
    /\ scheduledResolve' = 0 /\ scheduledSendLabel' = FALSE

\* The timer is cleared and the promise that waits for it not resolved.
CancelledWithoutResolve ==
    /\ scheduledCancelled' = TRUE
    /\ schedules' = IF scheduledResolve = 0 THEN schedules
                    ELSE [schedules EXCEPT ![scheduledResolve].pc = "stuck"]
    /\ scheduledResolve' = 0 /\ scheduledSendLabel' = FALSE

(* The stop button.                                                        *)
CancelScheduledSends ==
    /\ Settled /\ scheduledSendLabel
    /\ Cancelled
    /\ UNCHANGED <<sends, isSending, switching, openProject, stored, entangled>>

(* startScheduledSends: cancels what waits, clears the flag again and      *)
(* begins with the delay, or at once.  The buttons of the dialog are       *)
(* disabled while something is sent, the dialog opens at any time.         *)
StartScheduledSends(s, repeat, delayed) ==
    /\ schedules[s].pc = "none" /\ \A t \in Schedules : t < s => schedules[t].pc # "none"
    /\ Settled /\ ~isSending
    /\ scheduledCancelled' = FALSE
    /\ scheduledSendLabel' = TRUE
    /\ entangled' = (entangled \/ switching # "no" \/ \E t \in Schedules : Active(t))
    /\ LET begun == [NoSchedule EXCEPT !.pc = IF delayed THEN "delay" ELSE "sending", !.repeat = repeat,
                                       !.runs = IF delayed THEN 0 ELSE 1, !.copy = stored, !.project = openProject]
       IN schedules' = [Woken(schedules) EXCEPT ![s] = begun]
    /\ IF delayed THEN scheduledResolve' = s /\ UNCHANGED <<sends, isSending>>
       ELSE scheduledResolve' = 0 /\ BeginSend(s, stored, openProject)
    /\ UNCHANGED <<switching, openProject, stored>>

(* The timer of a wait clears the refs, whoever is in them.                *)
TimerFires(s) ==
    /\ Settled /\ schedules[s].pc \in Waits
    /\ schedules' = [schedules EXCEPT ![s].woken = TRUE]
    /\ scheduledResolve' = 0
    /\ UNCHANGED <<sends, scheduledCancelled, isSending, scheduledSendLabel, switching, openProject, stored, entangled>>

(* The wait is over: the loop looks at the flag and at the limit.          *)
LoopSends(s) ==
    /\ schedules[s].pc \in Waits /\ schedules[s].woken
    /\ ~scheduledCancelled /\ schedules[s].runs < RepeatLimit
    /\ schedules' = [schedules EXCEPT ![s].pc = "sending", ![s].runs = @ + 1]
    /\ scheduledSendLabel' = TRUE
    /\ BeginSend(s, schedules[s].copy, schedules[s].project)
    /\ UNCHANGED <<scheduledCancelled, scheduledResolve, switching, openProject, stored, entangled>>

LoopEnds(s) ==
    /\ schedules[s].pc \in Waits /\ schedules[s].woken
    /\ scheduledCancelled \/ schedules[s].runs >= RepeatLimit
    /\ schedules' = [schedules EXCEPT ![s].pc = "ended"]
    /\ scheduledResolve' = 0 /\ scheduledSendLabel' = FALSE
    /\ UNCHANGED <<sends, scheduledCancelled, isSending, switching, openProject, stored, entangled>>

-----------------------------------------------------------------------------
(* runWorkspaceOperation: refused while something is sent or scheduled.    *)
(* The open project is saved, stopWorkspaceRuntime cancels the schedules,  *)
(* and the snapshot of the other project is adopted.                       *)
MaySwitchWhileSending == switching = "no"
MaySwitch == ~isSending /\ ~scheduledSendLabel /\ switching = "no"

BeginSwitch ==
    /\ Settled /\ MaySwitch /\ openProject < MaxProjects
    /\ switching' = "saving"
    /\ UNCHANGED <<sends, schedules, scheduledCancelled, scheduledResolve, isSending, scheduledSendLabel, openProject, stored, entangled>>

StopSends ==
    /\ Settled /\ switching = "saving"
    /\ switching' = "opening"
    /\ Cancelled
    /\ UNCHANGED <<sends, isSending, openProject, stored, entangled>>

FinishSwitch ==
    /\ Settled /\ switching = "opening"
    /\ switching' = "no"
    /\ openProject' = openProject + 1 /\ stored' = {}
    /\ UNCHANGED <<sends, schedules, scheduledCancelled, scheduledResolve, isSending, scheduledSendLabel, entangled>>

SwitchFails ==
    /\ Settled /\ switching # "no"
    /\ switching' = "no"
    /\ UNCHANGED <<sends, schedules, scheduledCancelled, scheduledResolve, isSending, scheduledSendLabel, openProject, stored, entangled>>

SendStep(i) ==
    \/ SendAwaits(i, "oauth", "pre") \/ SendAwaits(i, "pre", "request") \/ SendAwaits(i, "request", "tests")
    \/ SendSkipped(i) \/ SendAnswered(i) \/ TransportFails(i) \/ RequestThrows(i) \/ NoGrpcSchema(i)
LoopStep == \E s \in Schedules : LoopSends(s) \/ LoopEnds(s)

SendNext ==
    \/ SendNow \/ CancelScheduledSends \/ LoopStep \/ \E i \in Sent : SendStep(i)
    \/ BeginSwitch \/ StopSends \/ FinishSwitch \/ SwitchFails
    \/ \E s \in Schedules : \/ TimerFires(s)
                            \/ \E repeat, delayed \in BOOLEAN : StartScheduledSends(s, repeat, delayed)

(* Nothing makes a send leave the stages in which it may wait for the user *)
(* (an OAuth window, a template prompt) or, without a timeout, for the     *)
(* server.                                                                 *)
MayWaitForOthers(i) == sends[i].pc \in {"oauth", "request"}

(* Scripts have timeouts, timers fire and resolved promises continue.      *)
SendFairness ==
    /\ WF_sendVars(\E i \in Sent : ~MayWaitForOthers(i) /\ SendStep(i))
    /\ WF_sendVars(LoopStep) /\ \A s \in Schedules : WF_sendVars(TimerFires(s))

SendSpec == SendInit /\ [][SendNext]_sendVars /\ SendFairness

-----------------------------------------------------------------------------
(* Stop ends every schedule there is, also one whose timer another took    *)
(* out of the refs: none stays waiting for ever.  It does not reach into a *)
(* send that is under way: a schedule whose send waits for the user or the *)
(* server for ever stays with it.                                          *)
Held(s) == \E i \in Sent : sends[i].by = s /\ MayWaitForOthers(i)
StopEnds ==
    \A s \in Schedules : []<>~Held(s) => []<>(~scheduledCancelled \/ ~Active(s))

(* A send that ends writes its responses, cookies and plugin data into the *)
(* project it was started in, as long as no schedule was started beside    *)
(* another one and nothing was sent in the middle of a change of project.  *)
ResponsesStayInProject ==
    [][\A i \in Sent : InFlight(i) /\ sends'[i].pc = "done"
                        => sends[i].project = openProject \/ entangled]_sendVars

(* "One schedule is active at a time": starting one ends the one before.   *)
OneSchedule == \A s, t \in Schedules : schedules[s].pc = "sending" /\ schedules[t].pc = "sending" => s = t

(* "-1 retains all saved responses": a response that was stored stays      *)
(* stored while its project is open.                                       *)
AllResponsesKept == [][openProject' = openProject => stored \subseteq stored']_sendVars

(* Stopping works, and responses stay in their project (App.tsx,           *)
(* executeRequest, the scheduled sends and the project change).            *)
SendSound == ResponsesStayInProject /\ StopEnds
=============================================================================
