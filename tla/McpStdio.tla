------------------------------- MODULE McpStdio -------------------------------
(***************************************************************************)
(* The persistent MCP STDIO sessions of src-tauri/src/mcp_stdio.rs: the    *)
(* registry of child processes, the calls that share them, the dispatcher  *)
(* that routes a process's output to waiting calls, the cancellation       *)
(* registry and the close command.                                         *)
(*                                                                         *)
(* Every call runs on a blocking thread of its own.  A step is what a      *)
(* thread does under one lock: the registry of sessions, the session mutex *)
(* that serialises the calls on a process, the table of response waiters   *)
(* and the transport error.  A call opens at most one process, so          *)
(* processes are named by the call that opened them.  Params, results,     *)
(* notifications, roots and reviewed server requests are left out.         *)
(***************************************************************************)
EXTENDS Naturals, Sequences, FiniteSets, TLC

CONSTANTS
    Calls,         \* calls issued, and the processes they may open
    Keys,          \* session keys: one per project and client
    Prints,        \* fingerprints of command, arguments and environment
    None,
    MaxSessions,   \* MAX_SESSIONS
    MaxPending,    \* MAX_CANCELLATION_IDS
    Uses,          \* the ways the calls may be issued: key and fingerprint of each
    MaxTroubles    \* bound: cancel commands, close commands that find a
                   \* session, exits and malformed lines of the processes

ASSUME McpAssumptions ==
    /\ None \notin Calls \cup Keys
    /\ Uses \subseteq [Calls -> [key : Keys, print : Prints]]
    /\ MaxSessions \in Nat /\ MaxPending \in Nat \ {0} /\ MaxTroubles \in Nat

(* The ways to issue calls, up to the names of keys and fingerprints, for  *)
(* two of each: the same session, the same key with another configuration, *)
(* or another key.                                                         *)
DistinctUses ==
    LET first == [key |-> CHOOSE k \in Keys : TRUE, print |-> CHOOSE f \in Prints : TRUE]
    IN  {use \in [Calls -> [key : Keys, print : Prints]] :
            /\ use[CHOOSE c \in Calls : TRUE] = first
            /\ \A c \in Calls : use[c].key = first.key \/ use[c].print = first.print}

VARIABLES
    (* Calls.                                                              *)
    pc,         \* where each call is: see PC
    key, print, \* what it is issued with
    holds,      \* the session it has a reference to
    victim,     \* the session it took over and has to close
    reqId,      \* the JSON-RPC id it uses: 1 while it initializes a process
    box,        \* its response channel
    result,     \* what it returns: see Results
    (* The cancellation registry.                                          *)
    active, pending, cancelled, asked,
    (* Processes.                                                          *)
    registry,   \* sessions: the process of each key
    lock,       \* holder of the session mutex of each process
    child,      \* the child process: see Children
    broken,     \* processes whose transport_error is set
    dispatcher, \* the dispatcher thread: see Dispatchers
    nextId,     \* next_id
    waiters,    \* response_waiters, as pairs <<JSON-RPC id, call>>
    requests,   \* requests written and not answered, as such pairs
    stdout,     \* lines printed and not dispatched
    closing,    \* processes a close command took from the registry
    troubles,
    (* What the properties remember.                                       *)
    published,  \* processes that were entered in the registry
    spent       \* those that were closed, replaced, failed or timed out

callVars == <<pc, key, print, holds, victim, reqId, box, result>>
cancelVars == <<active, pending, cancelled, asked>>
procVars == <<registry, lock, child, broken, dispatcher, nextId, waiters,
              requests, stdout, closing>>
vars == <<callVars, cancelVars, procVars, troubles, published, spent>>

-----------------------------------------------------------------------------
PC == {"idle", "issued", "lookup", "evict", "open", "check", "register",
       "recheck", "wait", "publish", "replace", "lock", "execute", "unlock",
       "remove", "finish", "done"}
Results == {"none", "answer", "canceled", "timeout", "error"}
Children == {"none", "running", "exited", "killed"}
Dispatchers == {"none", "reading", "failing", "ended"}

(* What the process prints: a response with a result or an error member,   *)
(* a response with neither, or a line that is no JSON.                     *)
Line(id, c, kind) == [id |-> id, from |-> c, kind |-> kind]
Responses == [id : Nat, from : Calls, kind : {"answer", "noResult"}]
Garbage == Line(0, None, "garbage")
Failure == Line(0, None, "failed")
Empty == Line(0, None, "empty")

Init ==
    /\ pc = [c \in Calls |-> "idle"]
    /\ \E use \in Uses : /\ key = [c \in Calls |-> use[c].key]
                         /\ print = [c \in Calls |-> use[c].print]
    /\ holds = [c \in Calls |-> None] /\ victim = [c \in Calls |-> None]
    /\ reqId = [c \in Calls |-> 0] /\ box = [c \in Calls |-> Empty]
    /\ result = [c \in Calls |-> "none"]
    /\ active = {} /\ pending = {} /\ cancelled = {} /\ asked = {}
    /\ registry = [k \in Keys |-> None]
    /\ lock = [p \in Calls |-> None] /\ child = [p \in Calls |-> "none"]
    /\ broken = {} /\ dispatcher = [p \in Calls |-> "none"]
    /\ nextId = [p \in Calls |-> 2] /\ waiters = [p \in Calls |-> {}]
    /\ requests = [p \in Calls |-> {}] /\ stdout = [p \in Calls |-> <<>>]
    /\ closing = {} /\ troubles = 0
    /\ published = {} /\ spent = {}

Registered == {registry[k] : k \in Keys} \ {None}

(* Sessions something other than call c refers to, with this registry.     *)
Referenced(c, sessions) ==
    {sessions[k] : k \in Keys} \cup closing
        \cup UNION {{holds[d], victim[d]} : d \in Calls \ {c}}

(* session_entry_is_reusable, for a call with c's fingerprint.             *)
Reusable(p, c) == p # None /\ print[p] = print[c] /\ p \notin broken

RegistryFullOffByOne == Cardinality(Registered) > MaxSessions
RegistryFull == Cardinality(Registered) >= MaxSessions

Goto(c, label) == pc' = [pc EXCEPT ![c] = label]

(* McpStdioSession::close of the processes ps: their children are killed   *)
(* and their threads joined.                                               *)
Close(ps) ==
    /\ child' = [p \in Calls |-> IF p \in ps THEN "killed" ELSE child[p]]
    /\ dispatcher' = [p \in Calls |-> IF p \in ps THEN "ended" ELSE dispatcher[p]]
    /\ requests' = [p \in Calls |-> IF p \in ps THEN {} ELSE requests[p]]
    /\ stdout' = [p \in Calls |-> IF p \in ps THEN <<>> ELSE stdout[p]]

(* Call c drops its reference: Drop closes a session that has no other.    *)
ReleaseWithoutDrop(c, sessions) ==
    /\ Close({})
    /\ holds' = [holds EXCEPT ![c] = None]

Release(c, sessions) ==
    /\ Close({holds[c]} \ (Referenced(c, sessions) \cup {None}))
    /\ holds' = [holds EXCEPT ![c] = None]

Disturbed == troubles < MaxTroubles /\ troubles' = troubles + 1

threads == <<child, dispatcher, requests, stdout>>

-----------------------------------------------------------------------------
(* The front end invokes mcp_stdio_call; a blocking thread will run it.    *)
Issue(c) ==
    /\ pc[c] = "idle"
    /\ Goto(c, "issued")
    /\ UNCHANGED <<key, print, holds, victim, reqId, box, result, cancelVars,
                   procVars, troubles, published, spent>>

(* McpStdioCancellationState::cancel: marks a registered call, remembers   *)
(* one that is not registered yet, and forgets all it remembers when full. *)
(* (One that comes after the call has returned only leaves its id there.)  *)
Cancel(c) ==
    /\ pc[c] \notin {"idle", "done"} /\ c \notin asked
    /\ Disturbed
    /\ asked' = asked \cup {c}
    /\ \/ /\ c \in active
          /\ cancelled' = cancelled \cup {c}
          /\ UNCHANGED pending
       \/ /\ c \notin active
          /\ pending' = {c} \cup
                (IF Cardinality(pending) >= MaxPending THEN {} ELSE pending)
          /\ UNCHANGED cancelled
    /\ UNCHANGED <<callVars, active, procVars, published, spent>>

(* register, at the start of call_with_events.                             *)
Start(c) ==
    /\ pc[c] = "issued"
    /\ \/ /\ c \in pending
          /\ pending' = pending \ {c}
          /\ result' = [result EXCEPT ![c] = "canceled"]
          /\ Goto(c, "done")
          /\ UNCHANGED active
       \/ /\ c \notin pending
          /\ active' = active \cup {c}
          /\ Goto(c, "lookup")
          /\ UNCHANGED <<pending, result>>
    /\ UNCHANGED <<key, print, holds, victim, reqId, box, cancelled, asked,
                   procVars, troubles, published, spent>>

-----------------------------------------------------------------------------
(* session_for.                                                            *)

(* The first look at the registry, under its lock.                         *)
Lookup(c) ==
    LET found == registry[key[c]] IN
    /\ pc[c] = "lookup"
    /\ \/ /\ Reusable(found, c)
          /\ holds' = [holds EXCEPT ![c] = found]
          /\ Goto(c, "lock")
          /\ UNCHANGED <<registry, victim, result, spent>>
       \/ /\ found # None /\ ~Reusable(found, c)
          /\ registry' = [registry EXCEPT ![key[c]] = None]
          /\ victim' = [victim EXCEPT ![c] = found]
          /\ spent' = spent \cup {found}
          /\ Goto(c, "evict")
          /\ UNCHANGED <<holds, result>>
       \/ /\ found = None /\ RegistryFull
          /\ result' = [result EXCEPT ![c] = "error"]
          /\ Goto(c, "finish")
          /\ UNCHANGED <<registry, holds, victim, spent>>
       \/ /\ found = None /\ ~RegistryFull
          /\ Goto(c, "open")
          /\ UNCHANGED <<registry, holds, victim, result, spent>>
    /\ UNCHANGED <<key, print, reqId, box, cancelVars, lock, child, broken,
                   dispatcher, nextId, waiters, requests, stdout, closing,
                   troubles, published>>

(* Waits for the session mutex of the process it took over and closes it.  *)
CloseVictim(c) ==
    /\ pc[c] \in {"evict", "replace"} /\ lock[victim[c]] = None
    /\ Close({victim[c]})
    /\ victim' = [victim EXCEPT ![c] = None]
    /\ Goto(c, IF pc[c] = "evict" THEN "open" ELSE "lock")
    /\ UNCHANGED <<key, print, holds, reqId, box, result, cancelVars, registry,
                   lock, broken, nextId, waiters, closing, troubles,
                   published, spent>>

(* McpStdioSession::open: nothing is started for a cancelled call.  A      *)
(* started process is private to the call until it is published.           *)
Open(c) ==
    /\ pc[c] = "open"
    /\ \/ /\ \/ c \in cancelled /\ result' = [result EXCEPT ![c] = "canceled"]
             \/ c \notin cancelled /\ result' = [result EXCEPT ![c] = "error"]
          /\ Goto(c, "finish")
          /\ UNCHANGED <<holds, reqId, child, dispatcher>>
       \/ /\ c \notin cancelled
          /\ child' = [child EXCEPT ![c] = "running"]
          /\ dispatcher' = [dispatcher EXCEPT ![c] = "reading"]
          /\ holds' = [holds EXCEPT ![c] = c]
          /\ reqId' = [reqId EXCEPT ![c] = 1]
          /\ Goto(c, "check")
          /\ UNCHANGED result
    /\ UNCHANGED <<key, print, victim, box, cancelVars, registry, lock, broken,
                   nextId, waiters, requests, stdout, closing, troubles,
                   published, spent>>

(* The second look at the registry, under its lock: a session opened       *)
(* meanwhile for the same key wins, a stale one is replaced, and the limit *)
(* is checked again.                                                       *)
Publish(c) ==
    LET found == registry[key[c]] IN
    /\ pc[c] = "publish"
    /\ \/ /\ Reusable(found, c)
          /\ holds' = [holds EXCEPT ![c] = found]
          /\ victim' = [victim EXCEPT ![c] = c]
          /\ Goto(c, "replace")
          /\ UNCHANGED <<registry, published, spent, result, threads>>
       \/ /\ found # None /\ ~Reusable(found, c)
          /\ registry' = [registry EXCEPT ![key[c]] = c]
          /\ victim' = [victim EXCEPT ![c] = found]
          /\ published' = published \cup {c}
          /\ spent' = spent \cup {found}
          /\ Goto(c, "replace")
          /\ UNCHANGED <<holds, result, threads>>
       \/ /\ found = None /\ RegistryFull
          /\ result' = [result EXCEPT ![c] = "error"]
          /\ Release(c, registry)
          /\ Goto(c, "finish")
          /\ UNCHANGED <<registry, victim, published, spent>>
       \/ /\ found = None /\ ~RegistryFull
          /\ registry' = [registry EXCEPT ![key[c]] = c]
          /\ published' = published \cup {c}
          /\ Goto(c, "lock")
          /\ UNCHANGED <<holds, victim, spent, result, threads>>
    /\ UNCHANGED <<key, print, reqId, box, cancelVars, lock, broken, nextId,
                   waiters, closing, troubles>>

-----------------------------------------------------------------------------
(* call_registered and execute.                                            *)

(* Takes the session mutex: the calls on a process run one at a time.      *)
Lock(c) ==
    /\ pc[c] = "lock" /\ lock[holds[c]] = None
    /\ lock' = [lock EXCEPT ![holds[c]] = c]
    /\ Goto(c, "execute")
    /\ UNCHANGED <<key, print, holds, victim, reqId, box, result, cancelVars,
                   registry, child, broken, dispatcher, nextId, waiters,
                   requests, stdout, closing, troubles, published, spent>>

ExecuteReusesId(c) ==
    /\ pc[c] = "execute"
    /\ reqId' = [reqId EXCEPT ![c] = nextId[holds[c]]]
    /\ box' = [box EXCEPT ![c] = Empty]
    /\ Goto(c, "check")
    /\ UNCHANGED <<key, print, holds, victim, result, cancelVars, procVars,
                   troubles, published, spent>>

Execute(c) ==
    LET p == holds[c] IN
    /\ pc[c] = "execute"
    /\ \/ /\ c \in cancelled
          /\ result' = [result EXCEPT ![c] = "canceled"]
          /\ Goto(c, "unlock")
          /\ UNCHANGED <<reqId, nextId, box>>
       \/ /\ c \notin cancelled
          /\ reqId' = [reqId EXCEPT ![c] = nextId[p]]
          /\ nextId' = [nextId EXCEPT ![p] = @ + 1]
          /\ box' = [box EXCEPT ![c] = Empty]
          /\ Goto(c, "check")
          /\ UNCHANGED result
    /\ UNCHANGED <<key, print, holds, victim, cancelVars, registry, lock, child,
                   broken, dispatcher, waiters, requests, stdout, closing,
                   troubles, published, spent>>

(* wait_for_client_response has returned r to call c.  A process that      *)
(* cannot be initialized is dropped; one that can is told so, which fails  *)
(* when it has exited, and goes on to be published.                        *)
Outcome(c, r) ==
    LET p == holds[c]
        told == IF r = "answer" /\ child[p] # "running" THEN "error" ELSE r
    IN  IF reqId[c] = 1
        THEN IF told = "answer"
             THEN /\ Goto(c, "publish")
                  /\ UNCHANGED <<result, holds, threads>>
             ELSE /\ result' = [result EXCEPT ![c] = told]
                  /\ Release(c, registry)
                  /\ Goto(c, "finish")
        ELSE /\ result' = [result EXCEPT ![c] = r]
             /\ Goto(c, "unlock")
             /\ UNCHANGED <<holds, threads>>

waitUnchanged == <<key, print, victim, reqId, cancelVars, registry, lock, broken,
                   nextId, closing, troubles, published>>

(* Looks for a transport error before it registers as a waiter ...         *)
Check(c) ==
    /\ pc[c] = "check"
    /\ \/ /\ holds[c] \in broken
          /\ Outcome(c, "error")
       \/ /\ holds[c] \notin broken
          /\ Goto(c, "register")
          /\ UNCHANGED <<result, holds, threads>>
    /\ UNCHANGED <<waitUnchanged, box, waiters, spent>>

Register(c) ==
    /\ pc[c] = "register"
    /\ waiters' = [waiters EXCEPT ![holds[c]] = @ \cup {<<reqId[c], c>>}]
    /\ Goto(c, "recheck")
    /\ UNCHANGED <<waitUnchanged, box, result, holds, threads, spent>>

Deregister(c) ==
    waiters' = [waiters EXCEPT ![holds[c]] = @ \ {<<reqId[c], c>>}]

(* ... and again after, then writes the request, which fails when nobody   *)
(* reads.  (A failure between the two finds the waiter registered, as one  *)
(* after the write does.)                                                  *)
SendWithoutRecheck(c) ==
    /\ pc[c] = "recheck" /\ child[holds[c]] = "running"
    /\ requests' = [requests EXCEPT ![holds[c]] = @ \cup {<<reqId[c], c>>}]
    /\ Goto(c, "wait")
    /\ UNCHANGED <<waitUnchanged, box, result, holds, child, dispatcher, stdout,
                   waiters, spent>>

RecheckAndSend(c) ==
    LET p == holds[c] IN
    /\ pc[c] = "recheck"
    /\ \/ /\ p \in broken \/ child[p] # "running"
          /\ Deregister(c)
          /\ Outcome(c, "error")
       \/ /\ p \notin broken /\ child[p] = "running"
          /\ requests' = [requests EXCEPT ![p] = @ \cup {<<reqId[c], c>>}]
          /\ Goto(c, "wait")
          /\ UNCHANGED <<result, holds, child, dispatcher, stdout, waiters>>
    /\ UNCHANGED <<waitUnchanged, box, spent>>

(* response_result.                                                        *)
ResponseResult(line) == IF line.kind = "answer" THEN "answer" ELSE "error"

(* The three ends of the waiting loop.                                     *)
Receive(c) ==
    /\ pc[c] = "wait" /\ box[c].kind # "empty"
    /\ Outcome(c, ResponseResult(box[c]))
    /\ spent' = IF box[c].kind = "answer" THEN spent ELSE spent \cup {holds[c]}
    /\ UNCHANGED <<waitUnchanged, box, waiters>>

Canceled(c) ==
    /\ pc[c] = "wait" /\ c \in cancelled
    /\ Deregister(c)
    /\ Outcome(c, "canceled")
    /\ UNCHANGED <<waitUnchanged, box, spent>>

TimeOutOnlyOnAnswer(c) ==
    /\ pc[c] = "wait" /\ box[c].kind # "empty"
    /\ Deregister(c)
    /\ Outcome(c, "timeout")
    /\ spent' = spent \cup {holds[c]}
    /\ UNCHANGED <<waitUnchanged, box>>

TimeOut(c) ==
    /\ pc[c] = "wait"
    /\ Deregister(c)
    /\ Outcome(c, "timeout")
    /\ spent' = spent \cup {holds[c]}
    /\ UNCHANGED <<waitUnchanged, box>>

(* persistent_result_is_reusable.                                          *)
PersistentResultIsReusable(r) == r \in {"answer", "canceled"}

(* try_wait, and the mutex is released.                                    *)
Unlock(c) ==
    LET p == holds[c] IN
    /\ pc[c] = "unlock"
    /\ lock' = [lock EXCEPT ![p] = None]
    /\ \/ /\ child[p] = "running" /\ PersistentResultIsReusable(result[c])
          /\ Release(c, registry)
          /\ Goto(c, "finish")
       \/ /\ ~(child[p] = "running" /\ PersistentResultIsReusable(result[c]))
          /\ Goto(c, "remove")
          /\ UNCHANGED <<holds, threads>>
    /\ UNCHANGED <<key, print, victim, reqId, box, result, cancelVars, registry,
                   broken, nextId, waiters, closing, troubles, published,
                   spent>>

(* remove_if_same: only the process the call used.                         *)
RemovedUnchecked(c) == [registry EXCEPT ![key[c]] = None]
Removed(c) ==
    IF registry[key[c]] = holds[c]
    THEN [registry EXCEPT ![key[c]] = None] ELSE registry

(* The registry's reference and then the call's own are dropped.           *)
Remove(c) ==
    /\ pc[c] = "remove"
    /\ registry' = Removed(c)
    /\ Release(c, registry')
    /\ Goto(c, "finish")
    /\ UNCHANGED <<key, print, victim, reqId, box, result, cancelVars, lock,
                   broken, nextId, waiters, closing, troubles, published,
                   spent>>

(* finish: the call leaves the cancellation registry and returns; its      *)
(* locals are gone.                                                        *)
Finish(c) ==
    /\ pc[c] = "finish"
    /\ active' = active \ {c} /\ pending' = pending \ {c}
    /\ cancelled' = cancelled \ {c}
    /\ reqId' = [reqId EXCEPT ![c] = 0] /\ box' = [box EXCEPT ![c] = Empty]
    /\ result' = [result EXCEPT ![c] = "none"]
    /\ Goto(c, "done")
    /\ UNCHANGED <<key, print, holds, victim, asked, procVars, troubles,
                   published, spent>>

-----------------------------------------------------------------------------
(* close: takes the session of key k from the registry ...                 *)
CloseKey(k) ==
    /\ registry[k] # None /\ Disturbed
    /\ registry' = [registry EXCEPT ![k] = None]
    /\ closing' = closing \cup {registry[k]}
    /\ spent' = spent \cup {registry[k]}
    /\ UNCHANGED <<callVars, cancelVars, lock, child, broken, dispatcher, nextId,
                   waiters, requests, stdout, published>>

(* ... and closes it when the call that uses it is done.                   *)
CloseProcess(p) ==
    /\ p \in closing /\ lock[p] = None
    /\ Close({p})
    /\ closing' = closing \ {p}
    /\ UNCHANGED <<callVars, cancelVars, registry, lock, broken, nextId, waiters,
                   troubles, published, spent>>

-----------------------------------------------------------------------------
(* The server process (external): answers what it was asked, in any order  *)
(* and however late, answers with no result, prints a line that is no      *)
(* message, or exits.                                                      *)
Reply(p, r, kind) ==
    /\ requests' = [requests EXCEPT ![p] = @ \ {r}]
    /\ stdout' = [stdout EXCEPT ![p] = Append(@, Line(r[1], r[2], kind))]

Answer(p) ==
    /\ child[p] = "running"
    /\ \E r \in requests[p] : Reply(p, r, "answer")
    /\ UNCHANGED <<callVars, cancelVars, registry, lock, child, broken,
                   dispatcher, nextId, waiters, closing, troubles,
                   published, spent>>

Trouble(p) ==
    /\ child[p] = "running" /\ Disturbed
    /\ spent' = spent \cup {p}
    /\ \/ /\ child' = [child EXCEPT ![p] = "exited"]
          /\ UNCHANGED <<stdout, requests>>
       \/ /\ stdout' = [stdout EXCEPT ![p] = Append(@, Garbage)]
          /\ UNCHANGED <<child, requests>>
       \/ /\ \E r \in requests[p] : Reply(p, r, "noResult")
          /\ UNCHANGED child
    /\ UNCHANGED <<callVars, cancelVars, registry, lock, broken, dispatcher,
                   nextId, waiters, closing, published>>

(* dispatch_stdio_message: a response goes to the waiter with its id, and  *)
(* to nobody when there is none.                                           *)
Dispatch(p) ==
    LET line == Head(stdout[p])
        to == {w \in waiters[p] : w[1] = line.id}
    IN
    /\ dispatcher[p] = "reading" /\ stdout[p] # <<>> /\ line # Garbage
    /\ waiters' = [waiters EXCEPT ![p] = @ \ to]
    /\ box' = [c \in Calls |-> IF \E w \in to : w[2] = c THEN line ELSE box[c]]
    /\ stdout' = [stdout EXCEPT ![p] = Tail(@)]
    /\ UNCHANGED <<pc, key, print, holds, victim, reqId, result, cancelVars,
                   registry, lock, child, broken, dispatcher, nextId, requests,
                   closing, troubles, published, spent>>

(* fail_response_waiters: a line that is no message or the end of the      *)
(* output sets the transport error ...                                     *)
TransportFails(p) ==
    /\ dispatcher[p] = "reading"
    /\ IF stdout[p] # <<>> THEN Head(stdout[p]) = Garbage ELSE child[p] = "exited"
    /\ broken' = broken \cup {p}
    /\ dispatcher' = [dispatcher EXCEPT ![p] = "failing"]
    /\ UNCHANGED <<callVars, cancelVars, registry, lock, child, nextId, waiters,
                   requests, stdout, closing, troubles, published, spent>>

(* ... and then fails every waiter; the dispatcher ends.                   *)
DrainWaiters(p) ==
    /\ dispatcher[p] = "failing"
    /\ box' = [c \in Calls |->
                  IF \E w \in waiters[p] : w[2] = c THEN Failure ELSE box[c]]
    /\ waiters' = [waiters EXCEPT ![p] = {}]
    /\ dispatcher' = [dispatcher EXCEPT ![p] = "ended"]
    /\ UNCHANGED <<pc, key, print, holds, victim, reqId, result, cancelVars,
                   registry, lock, child, broken, nextId, requests, stdout,
                   closing, troubles, published, spent>>

-----------------------------------------------------------------------------
Step(c) ==
    \/ Start(c) \/ Lookup(c) \/ CloseVictim(c) \/ Open(c) \/ Publish(c)
    \/ Lock(c) \/ Execute(c) \/ Check(c) \/ Register(c) \/ RecheckAndSend(c)
    \/ Receive(c) \/ Canceled(c) \/ TimeOut(c) \/ Unlock(c) \/ Remove(c)
    \/ Finish(c)

DispatcherStep(p) == Dispatch(p) \/ TransportFails(p) \/ DrainWaiters(p)

Next ==
    \/ \E c \in Calls : Issue(c) \/ Cancel(c) \/ Step(c)
    \/ \E k \in Keys : CloseKey(k)
    \/ \E p \in Calls : \/ CloseProcess(p) \/ Answer(p) \/ Trouble(p)
                        \/ DispatcherStep(p)

(* send_shared has no deadline and the call that writes keeps the session  *)
(* mutex: its request, the notification that it was canceled and the one   *)
(* that it is initialized are never written to a process that runs and does*)
(* not read.                                                               *)
MayBlock(c) ==
    /\ pc[c] \in {"recheck", "wait"} /\ child[holds[c]] = "running"
    /\ \/ pc[c] = "recheck" \/ c \in cancelled
       \/ reqId[c] = 1 /\ box[c].kind = "answer"

(* Threads run, and the wait for an answer has a deadline (timeout_ms is   *)
(* clamped to 1..120 s).  A call takes the mutex of a process once, so one *)
(* that is released by its holders is free for good in the end and weak    *)
(* fairness is enough.  Nothing is assumed of the user or of the server    *)
(* process, which may never read what is written to it; so nothing is      *)
(* assumed of the dispatcher either, which answers requests of the server. *)
(* (A child that was killed closes its output: one whose own children keep *)
(* the pipe open, for which close would wait, is left out.)                *)
Fairness ==
    \A c \in Calls : WF_vars(~MayBlock(c) /\ Step(c)) /\ WF_vars(CloseProcess(c))

Spec == Init /\ [][Next]_vars /\ Fairness

-----------------------------------------------------------------------------
(* The types of the variables: calls, threads and processes, sessions.     *)
Boxes == Responses \cup {Empty, Failure}

CallsTyped ==
    /\ pc \in [Calls -> PC] /\ key \in [Calls -> Keys]
    /\ print \in [Calls -> Prints]
    /\ holds \in [Calls -> Calls \cup {None}]
    /\ victim \in [Calls -> Calls \cup {None}]
    /\ reqId \in [Calls -> Nat] /\ box \in [Calls -> Boxes]
    /\ result \in [Calls -> Results]
    /\ active \subseteq Calls /\ pending \subseteq Calls
    /\ cancelled \subseteq Calls /\ asked \subseteq Calls

ThreadsTyped ==
    /\ child \in [Calls -> Children] /\ dispatcher \in [Calls -> Dispatchers]
    /\ requests \in [Calls -> SUBSET (Nat \X Calls)]
    /\ stdout \in [Calls -> Seq(Responses \cup {Garbage})]

SessionsTyped ==
    /\ registry \in [Keys -> Calls \cup {None}]
    /\ lock \in [Calls -> Calls \cup {None}]
    /\ nextId \in [Calls -> Nat]
    /\ waiters \in [Calls -> SUBSET (Nat \X Calls)]
    /\ broken \subseteq Calls /\ closing \subseteq Calls
    /\ published \subseteq Calls /\ spent \subseteq Calls
    /\ troubles \in 0..MaxTroubles

KeysInUse == {k \in Keys : registry[k] # None}

(* Every variable stays within its type, and the registry never holds more *)
(* than MAX_SESSIONS processes, although a process is started between the  *)
(* check of the limit and its entry.                                       *)
TypeOK ==
    /\ CallsTyped /\ ThreadsTyped /\ SessionsTyped
    /\ Cardinality(KeysInUse) <= MaxSessions

(* A call that returns an answer returns the answer to its own request:    *)
(* ids are never reused, so the late answer to a cancelled request is not  *)
(* taken for the answer to the next request on the same process.           *)
OwnAnswer ==
    \A c \in Calls :
        result[c] = "answer" => box[c].from = c /\ box[c].id = reqId[c]

(* No call waits for a dispatcher that is gone: whatever the order of a    *)
(* transport failure and the registration of a waiter, one of the two      *)
(* notices the other, so the call fails at once and not at its deadline.   *)
NobodyWaitsInVain ==
    \A c \in Calls :
        pc[c] = "wait" /\ box[c] = Empty => dispatcher[holds[c]] # "ended"

(* A process that was published and has neither been closed or replaced    *)
(* nor failed a call stays registered and alive: a cancelled call leaves   *)
(* it to the next one, and a call that fails on an older process of the    *)
(* same key does not take it down.                                         *)
HealthyStaysRegistered ==
    \A p \in published \ spent : p \in Registered /\ child[p] = "running"

BlockedOn(p) == \E d \in Calls : holds[d] = p /\ MayBlock(d)

Stalled(c) ==
    \/ MayBlock(c)
    \/ pc[c] = "lock" /\ BlockedOn(holds[c])
    \/ pc[c] \in {"evict", "replace"} /\ BlockedOn(victim[c])

(* Every call that is issued returns: at the latest when its deadline      *)
(* passes and the calls before it on the process have returned; unless it, *)
(* or a call whose mutex it needs, writes to a process that does not read. *)
CallsEnd == \A c \in Calls : []<>~Stalled(c) => []<>(pc[c] \in {"idle", "done"})

(* A process that is not registered does not run on: close, replacement,   *)
(* failed initialization, timeout and Drop terminate the child, unless a   *)
(* call stays blocked in a write to it.                                    *)
UnregisteredEnds ==
    \A p \in Calls : []<>~BlockedOn(p) => <>[](child[p] = "running" => p \in Registered)

(* What a call gets and what it does to the processes, as one invariant    *)
(* (mcp_stdio.rs, the registry, the waiters and the dispatcher).           *)
CallsExact == TypeOK /\ OwnAnswer /\ NobodyWaitsInVain /\ HealthyStaysRegistered

(* Calls return and no child outlives its registration                     *)
(* (mcp_stdio.rs, the deadline, close and Drop of a session).              *)
CallsSettle == CallsEnd /\ UnregisteredEnds
=============================================================================
