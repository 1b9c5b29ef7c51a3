--------------------------- MODULE TemplateRender ---------------------------
(***************************************************************************)
(* The two kinds of template tags that act while a request is rendered     *)
(* (templates.ts, requestRender.ts, App.tsx): a prompt asks the user, and  *)
(* a response tag may send the request it refers to first, which is        *)
(* rendered in turn.                                                       *)
(*                                                                         *)
(* A request has at most one tag of each kind.  A job is a send (of the    *)
(* editor, the runner, a script ...) with the stack of the requests it is  *)
(* rendering; the values of other tags and the text are left out.          *)
(***************************************************************************)
EXTENDS Naturals, Sequences, FiniteSets, SequencesExt

CONSTANTS
    TagRequests,  \* the requests
    Jobs,         \* sends that are rendered side by side; each runs once
    SharedKey     \* the storage key several prompt tags may give

NoKey == "no-key"
ASSUME TemplateAssumptions == NoKey \notin TagRequests \cup {SharedKey}

VARIABLES
    promptTag,      \* of each request: no prompt, its own key, or the shared key
    responseTag,    \* of each request: the request referred to and its resend behaviour
    job,            \* of each job: the stack of frames, and the responses it works with
    promptValues,   \* storage keys that have a value other than the empty one
    pendingPrompts, \* storage keys whose prompt is under way
    activePrompt,   \* activeTemplatePrompt: the key the dialog asks for
    promptQueue,    \* templatePromptQueue
    saved           \* workspace.responses: the requests that have one

templateVars == <<promptTag, responseTag, job, promptValues, pendingPrompts, activePrompt, promptQueue, saved>>

NoTag == [target |-> "none", behavior |-> "never"]
Behaviors == {"never", "no-history", "when-expired", "always"}
NoJob == [pc |-> "idle", frames |-> <<>>, chain |-> {}, responses |-> {}]

TemplateInit ==
    /\ promptTag \in [TagRequests -> {NoKey, "own", SharedKey}]
    /\ responseTag \in [TagRequests -> {NoTag} \cup [target : TagRequests, behavior : Behaviors]]
    /\ job = [j \in Jobs |-> NoJob]
    /\ promptValues = {} /\ pendingPrompts = {} /\ activePrompt = NoKey /\ promptQueue = <<>>
    /\ saved \in SUBSET TagRequests

-----------------------------------------------------------------------------
TopFrame(j) == Last(job[j].frames)
PromptKey(r) == IF promptTag[r] = "own" THEN r ELSE promptTag[r]   \* the request's id and the title

ToStage(j, stage) == job' = [job EXCEPT ![j].frames[Len(job[j].frames)].stage = stage]
AtStage(j, stage) == job[j].pc = "running" /\ TopFrame(j).stage = stage
NewFrame(r) == [request |-> r, stage |-> "prompt"]

StartJob(j, r) ==
    /\ job[j].pc = "idle"
    /\ job' = [job EXCEPT ![j] = [pc |-> "running", frames |-> <<NewFrame(r)>>, chain |-> {}, responses |-> saved]]
    /\ UNCHANGED <<promptTag, responseTag, promptValues, pendingPrompts, activePrompt, promptQueue, saved>>

-----------------------------------------------------------------------------
(* promptValue: a shared key that has a value is not asked for again, and  *)
(* a prompt for the same key that is under way is shared.                  *)
Answered(r) == promptTag[r] = NoKey \/ (promptTag[r] = SharedKey /\ SharedKey \in promptValues)

NoPrompt(j) ==
    /\ AtStage(j, "prompt") /\ Answered(TopFrame(j).request)
    /\ ToStage(j, "response")
    /\ UNCHANGED <<promptTag, responseTag, promptValues, pendingPrompts, activePrompt, promptQueue, saved>>

JoinPrompt(j) ==
    /\ AtStage(j, "prompt") /\ ~Answered(TopFrame(j).request) /\ PromptKey(TopFrame(j).request) \in pendingPrompts
    /\ ToStage(j, "waiting")
    /\ UNCHANGED <<promptTag, responseTag, promptValues, pendingPrompts, activePrompt, promptQueue, saved>>

(* requestTemplatePrompt: one dialog at a time, the others queue.          *)
AskPrompt(j) ==
    LET key == PromptKey(TopFrame(j).request)
    IN /\ AtStage(j, "prompt") /\ ~Answered(TopFrame(j).request) /\ key \notin pendingPrompts
       /\ pendingPrompts' = pendingPrompts \cup {key}
       /\ IF activePrompt = NoKey THEN activePrompt' = key /\ UNCHANGED promptQueue
          ELSE promptQueue' = Append(promptQueue, key) /\ UNCHANGED activePrompt
       /\ ToStage(j, "waiting")
       /\ UNCHANGED <<promptTag, responseTag, promptValues, saved>>

(* The promises of the keys resolve, with a value or an empty one; what    *)
(* waits for them goes on.                                                 *)
ResolveKeys(keys, answered) ==
    /\ promptValues' = IF answered THEN promptValues \cup keys ELSE promptValues \ keys
    /\ pendingPrompts' = pendingPrompts \ keys
    /\ job' = [j \in Jobs |-> IF AtStage(j, "waiting") /\ PromptKey(TopFrame(j).request) \in keys
                              THEN [job[j] EXCEPT !.frames[Len(job[j].frames)].stage = "response"] ELSE job[j]]

(* resolveTemplatePrompt: an answer, or the dialog was closed; the next    *)
(* prompt is shown.                                                        *)
ResolveTemplatePrompt ==
    /\ activePrompt # NoKey
    /\ \E answered \in BOOLEAN : ResolveKeys({activePrompt}, answered)
    /\ activePrompt' = IF promptQueue = <<>> THEN NoKey ELSE Head(promptQueue)
    /\ promptQueue' = IF promptQueue = <<>> THEN <<>> ELSE Tail(promptQueue)
    /\ UNCHANGED <<promptTag, responseTag, saved>>

\* The dialog closes and the queue stays as it is.
ResolveWithoutNext ==
    /\ activePrompt # NoKey
    /\ \E answered \in BOOLEAN : ResolveKeys({activePrompt}, answered)
    /\ activePrompt' = NoKey
    /\ UNCHANGED <<promptTag, responseTag, promptQueue, saved>>

(* stopWorkspaceRuntime: every prompt is resolved with no value.           *)
DropPrompts ==
    /\ activePrompt # NoKey
    /\ ResolveKeys({activePrompt} \cup ToSet(promptQueue), FALSE)
    /\ activePrompt' = NoKey /\ promptQueue' = <<>>
    /\ UNCHANGED <<promptTag, responseTag, saved>>

-----------------------------------------------------------------------------
(* responseValue                                                           *)

ShouldResend(tag, present, expired) ==
    \/ tag.behavior = "always"
    \/ tag.behavior = "no-history" /\ ~present
    \/ tag.behavior = "when-expired" /\ (~present \/ expired)

\* A request is resent wherever its tag appears, up to a depth.
MayAlwaysResend(j, target) == Len(job[j].frames) <= Cardinality(TagRequests) + 1

(* A request that is being resent already is not resent again.             *)
MayResend(j, target) == target \notin job[j].chain

FailJob(j) == job' = [job EXCEPT ![j] = [NoJob EXCEPT !.pc = "failed"]]

(* The stored response is used, the request sent first, or the tag fails.  *)
ResponseTag(j) ==
    /\ AtStage(j, "response")
    /\ LET tag == responseTag[TopFrame(j).request]
           present == tag.target \in job[j].responses
       IN IF tag = NoTag THEN ToStage(j, "sending")
          ELSE \E expired \in BOOLEAN :
                 IF ShouldResend(tag, present, expired) /\ MayResend(j, tag.target)
                 THEN job' = [job EXCEPT ![j].frames = Append(@, NewFrame(tag.target)), ![j].chain = @ \cup {tag.target}]
                 ELSE IF present THEN ToStage(j, "sending") ELSE FailJob(j)
    /\ UNCHANGED <<promptTag, responseTag, promptValues, pendingPrompts, activePrompt, promptQueue, saved>>

(* The answer of a request that was sent for a tag is stored in the job's  *)
(* responses, which become the workspace's; the tag takes it, and fails    *)
(* when it has no status.  Its own prompt values are forgotten.            *)
TagAnswered(j) ==
    LET frames == job[j].frames
        r == TopFrame(j).request
        rest == Front(frames)
        responses == job[j].responses \cup {r}
    IN /\ AtStage(j, "sending")
       /\ promptValues' = promptValues \ {r}
       /\ saved' = responses
       /\ job' = IF rest = <<>> THEN [job EXCEPT ![j] = [NoJob EXCEPT !.pc = "done"]]
                 ELSE [job EXCEPT ![j].frames = [rest EXCEPT ![Len(rest)].stage = "sending"], ![j].responses = responses]
       /\ UNCHANGED <<promptTag, responseTag, pendingPrompts, activePrompt, promptQueue>>

(* A request of the stack fails: so do the ones that wait for it.          *)
SendFails(j) ==
    /\ AtStage(j, "sending")
    /\ FailJob(j)
    /\ UNCHANGED <<promptTag, responseTag, promptValues, pendingPrompts, activePrompt, promptQueue, saved>>

TemplateNext ==
    \/ ResolveTemplatePrompt \/ DropPrompts
    \/ \E j \in Jobs : \/ \E r \in TagRequests : StartJob(j, r)
                       \/ NoPrompt(j) \/ JoinPrompt(j) \/ AskPrompt(j)
                       \/ ResponseTag(j) \/ TagAnswered(j) \/ SendFails(j)

TemplateSpec == TemplateInit /\ [][TemplateNext]_templateVars

-----------------------------------------------------------------------------
(* However the response tags refer to each other, a chain of resends ends: *)
(* below the request that is sent, no request is on the stack twice.       *)
ResendsEnd ==
    \A j \in Jobs : \A m, n \in 2..Len(job[j].frames) :
        job[j].frames[m].request = job[j].frames[n].request => m = n

(* Nobody waits for a prompt in vain: what is waited for is under way, and *)
(* what is under way is in the dialog or in the queue, once.               *)
PromptsServed ==
    /\ \A j \in Jobs : AtStage(j, "waiting") => PromptKey(TopFrame(j).request) \in pendingPrompts
    /\ pendingPrompts = ({activePrompt} \cup ToSet(promptQueue)) \ {NoKey}
    /\ IsInjective(promptQueue) /\ activePrompt \notin ToSet(promptQueue)
    /\ activePrompt = NoKey => promptQueue = <<>>

(* Rendering neither resends for ever nor waits in vain (templates.ts;     *)
(* App.tsx, the template prompts and the response resolver).               *)
TemplateSound == ResendsEnd /\ PromptsServed
=============================================================================
