---------------------------- MODULE ScriptSandbox ----------------------------
(***************************************************************************)
(* One script run: the worker that executes the script and the host that   *)
(* serves its secondary requests, src/lib/scriptSandbox.ts; cli/           *)
(* scriptRuntime.ts is the same protocol over a Node worker.               *)
(*                                                                         *)
(* Both sides are asynchronous.  A script registers tests that may go on   *)
(* after its body returned, posts secondary requests, and ends by posting  *)
(* its result; the host arms a timer, prepares each secondary request      *)
(* (reading the files it names against a budget), sends it and answers.    *)
(***************************************************************************)
EXTENDS Naturals, FiniteSets

CONSTANTS
    ScriptTests,     \* tests the script may register
    Subrequests,     \* secondary requests it may try
    MaxSubrequests,  \* permissions.maxSubrequests
    FileSizes,       \* sizes of what a secondary request or the result attaches
    FileLimit        \* the aggregate limit of attached bytes

ASSUME SandboxAssumptions ==
    /\ MaxSubrequests \in Nat \ {0} /\ FileLimit \in Nat /\ FileSizes \subseteq Nat

VARIABLES
    body,      \* the worker: running, waiting for tests, posted, failing, gone
    verdict,   \* per test: none, running, passed, failed
    nested,    \* tests registered after the body returned
    awaited,   \* pendingTests when the body returned
    reported,  \* the verdicts in the posted result
    calls,     \* per secondary request: none, posted, reading, sending, answered
    attach,    \* per secondary request, the size of its files
    postedCount,    \* subrequestCount
    spent,     \* fileBudget.bytes
    outcome,   \* the run: open, hydrating, returned, failed
    delivered  \* bytes attached to requests that were let through

sandboxVars == <<body, verdict, nested, awaited, reported, calls, attach, postedCount, spent, outcome, delivered>>

SandboxInit ==
    /\ body = "running" /\ verdict = [t \in ScriptTests |-> "none"] /\ nested = {}
    /\ awaited = {} /\ reported = [t \in ScriptTests |-> "none"]
    /\ calls = [c \in Subrequests |-> "none"] /\ attach \in [Subrequests -> FileSizes]
    /\ postedCount = 0 /\ spent = 0 /\ outcome = "open" /\ delivered = 0

WorkerAlive == body \in {"running", "waiting"}
TestsRunning == \E t \in ScriptTests : verdict[t] = "running"

-----------------------------------------------------------------------------
(* The worker.                                                             *)

(* test(name, callback): recorded as passed at once; an asynchronous one   *)
(* goes on.  After the body returned only a callback that is still running *)
(* can register more.                                                      *)
RegisterTest(t) ==
    /\ verdict[t] = "none"
    /\ body = "running" \/ (body = "waiting" /\ TestsRunning)
    /\ \E v \in {"running", "passed", "failed"} : verdict' = [verdict EXCEPT ![t] = v]
    /\ nested' = IF body = "running" THEN nested ELSE nested \cup {t}
    /\ UNCHANGED <<body, awaited, reported, calls, attach, postedCount, spent, outcome, delivered>>

TestSettles(t) ==
    /\ WorkerAlive /\ verdict[t] = "running"
    /\ \E v \in {"passed", "failed"} : verdict' = [verdict EXCEPT ![t] = v]
    /\ UNCHANGED <<body, nested, awaited, reported, calls, attach, postedCount, spent, outcome, delivered>>

\* The count is looked at after the request was posted.
SendRequestUncounted(c) ==
    /\ body = "running" \/ (body = "waiting" /\ TestsRunning)
    /\ calls[c] = "none" /\ postedCount <= MaxSubrequests
    /\ postedCount' = postedCount + 1
    /\ calls' = [calls EXCEPT ![c] = "posted"]
    /\ UNCHANGED <<body, verdict, nested, awaited, reported, attach, spent, outcome, delivered>>

(* sendRequest and send: one more than allowed throws in the script.       *)
ScriptSendRequest(c) ==
    /\ body = "running" \/ (body = "waiting" /\ TestsRunning)
    /\ calls[c] = "none" /\ postedCount < MaxSubrequests
    /\ postedCount' = postedCount + 1
    /\ calls' = [calls EXCEPT ![c] = "posted"]
    /\ UNCHANGED <<body, verdict, nested, awaited, reported, attach, spent, outcome, delivered>>

(* The body returned: the tests pending now are waited for.                *)
BodyReturns ==
    /\ body = "running"
    /\ body' = "waiting"
    /\ awaited' = {t \in ScriptTests : verdict[t] = "running"}
    /\ UNCHANGED <<verdict, nested, reported, calls, attach, postedCount, spent, outcome, delivered>>

\* The result is posted when the body returns.
PostResultEarly ==
    /\ body = "waiting"
    /\ body' = "posted"
    /\ reported' = [t \in ScriptTests |-> IF verdict[t] = "running" THEN "passed" ELSE verdict[t]]
    /\ UNCHANGED <<verdict, nested, awaited, calls, attach, postedCount, spent, outcome, delivered>>

(* A test that is still running is reported as it was recorded: passed.    *)
PostResult ==
    /\ body = "waiting" /\ \A t \in awaited : verdict[t] # "running"
    /\ body' = "posted"
    /\ reported' = [t \in ScriptTests |-> IF verdict[t] = "running" THEN "passed" ELSE verdict[t]]
    /\ UNCHANGED <<verdict, nested, awaited, calls, attach, postedCount, spent, outcome, delivered>>

(* The body threw: a result that is not ok.                                *)
BodyThrows ==
    /\ body = "running"
    /\ body' = "failing"
    /\ UNCHANGED <<verdict, nested, awaited, reported, calls, attach, postedCount, spent, outcome, delivered>>

-----------------------------------------------------------------------------
(* The host.                                                               *)

(* The result arrives; the files it names are read before the run returns. *)
ReceiveResult ==
    /\ outcome = "open" /\ body \in {"posted", "failing"}
    /\ outcome' = IF body = "posted" THEN "hydrating" ELSE "failed"
    /\ body' = IF body = "posted" THEN body ELSE "gone"
    /\ UNCHANGED <<verdict, nested, awaited, reported, calls, attach, postedCount, spent, delivered>>

(* The timer, or an error of the worker: the worker is terminated.  What   *)
(* it posted before stays with the host.                                   *)
ScriptTimesOut ==
    /\ outcome = "open"
    /\ outcome' = "failed" /\ body' = "gone"
    /\ UNCHANGED <<verdict, nested, awaited, reported, calls, attach, postedCount, spent, delivered>>

\* The budget is looked at before the file is read and charged after it.
ReadFilesLate(c) ==
    /\ calls[c] = "reading"
    /\ spent' = spent + attach[c]
    /\ calls' = [calls EXCEPT ![c] = IF spent <= FileLimit THEN "sending" ELSE "answered"]
    /\ delivered' = IF spent <= FileLimit THEN delivered + attach[c] ELSE delivered
    /\ UNCHANGED <<body, verdict, nested, awaited, reported, attach, postedCount, outcome>>

(* prepareScriptSubrequest: the input is refused, or its files are read.   *)
PrepareSubrequest(c) ==
    /\ calls[c] = "posted"
    /\ \E s \in {"reading", "answered"} : calls' = [calls EXCEPT ![c] = s]
    /\ UNCHANGED <<body, verdict, nested, awaited, reported, attach, postedCount, spent, outcome, delivered>>

(* hydrateScriptFileReferences: the bytes are charged once they are read,  *)
(* and charged bytes stay charged when they are too many.                  *)
ReadFiles(c) ==
    /\ calls[c] = "reading"
    /\ spent' = spent + attach[c]
    /\ calls' = [calls EXCEPT ![c] = IF spent' > FileLimit THEN "answered" ELSE "sending"]
    /\ delivered' = IF spent' > FileLimit THEN delivered ELSE delivered + attach[c]
    /\ UNCHANGED <<body, verdict, nested, awaited, reported, attach, postedCount, outcome>>

(* The request is sent and answered, also for a script that is over; the   *)
(* caller stores the response and its cookies.                             *)
AnswerSubrequest(c) ==
    /\ calls[c] = "sending"
    /\ calls' = [calls EXCEPT ![c] = "answered"]
    /\ UNCHANGED <<body, verdict, nested, awaited, reported, attach, postedCount, spent, outcome, delivered>>

(* The files of the result; the run returns or fails and the worker is     *)
(* terminated.                                                             *)
HydrateResult ==
    /\ outcome = "hydrating"
    /\ \E bytes \in FileSizes :
         /\ spent' = spent + bytes
         /\ outcome' = IF spent' > FileLimit THEN "failed" ELSE "returned"
         /\ delivered' = IF spent' > FileLimit THEN delivered ELSE delivered + bytes
    /\ body' = "gone"
    /\ UNCHANGED <<verdict, nested, awaited, reported, calls, attach, postedCount>>

-----------------------------------------------------------------------------
HostSteps ==
    \/ ReceiveResult \/ ScriptTimesOut \/ HydrateResult
    \/ \E c \in Subrequests : PrepareSubrequest(c) \/ ReadFiles(c) \/ AnswerSubrequest(c)

SandboxNext ==
    \/ \E t \in ScriptTests : RegisterTest(t) \/ TestSettles(t)
    \/ \E c \in Subrequests : ScriptSendRequest(c)
    \/ BodyReturns \/ BodyThrows \/ PostResult \/ HostSteps

SandboxSpec == SandboxInit /\ [][SandboxNext]_sandboxVars

-----------------------------------------------------------------------------
(* The verdicts a run returns are final: a test registered before the body *)
(* returned is reported as it ended.  (A test that another test registers  *)
(* later is not waited for and is reported as passed while it still runs.) *)
VerdictsFinal ==
    outcome = "returned" => \A t \in ScriptTests \ nested : reported[t] = verdict[t]

(* The limits hold however the secondary requests overlap: no more of them *)
(* than allowed, and no more bytes of files let through than the budget.   *)
SandboxBounded ==
    /\ Cardinality({c \in Subrequests : calls[c] # "none"}) <= MaxSubrequests
    /\ delivered <= FileLimit

(* Verdicts and limits of a script run (scriptSandbox.ts).                 *)
SandboxSound == VerdictsFinal /\ SandboxBounded
=============================================================================
