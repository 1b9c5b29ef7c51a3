----------------------------- MODULE McpProofs -----------------------------
(***************************************************************************)
(* Proofs about the sessions of the Model Context Protocol.                *)
(*                                                                         *)
(* CallsExact holds of McpStdio for any number of calls, keys and          *)
(* configurations: the invariant relates the four places where a call's    *)
(* progress is written down: its thread, the table of waiters, the lines   *)
(* on their way from the process and the registry.  Then the authorization *)
(* of a call (McpAuthorization), and the renderer's client (McpClient).    *)
(***************************************************************************)
EXTENDS McpStdio, McpAuthorization, McpClient, FiniteSetTheorems, TLAPS

(* The inductive invariant of CallsExact.                                  *)

(* A call asks a process: to initialize, with the JSON-RPC id 1, or under  *)
(* the session mutex and an id of its own.                                 *)
Asking(c) == pc[c] \in {"check", "register", "recheck", "wait"}
Initializing(c) == Asking(c) /\ reqId[c] = 1
Serving(c) == Asking(c) /\ reqId[c] # 1

(* What the registry holds was published under its own key, and a process  *)
(* that was not published is known to its own call only.                   *)
RegistryFits ==
    /\ \A k \in KeysInUse : registry[k] \in published /\ key[registry[k]] = k
    /\ closing \subseteq published
    /\ \A c, p \in Calls : /\ holds[c] = p => c = p \/ p \in published
                           /\ victim[c] = p => c = p \/ p \in published

(* Where a call is tells which session it refers to.                       *)
CallFits(c) ==
    /\ pc[c] \in {"idle", "issued", "lookup", "evict", "open", "publish"}
       \/ Initializing(c) => c \notin published
    /\ pc[c] = "publish" \/ Initializing(c) => holds[c] = c
    /\ pc[c] \in {"replace", "lock", "execute", "unlock", "remove"}
       \/ Serving(c) => holds[c] \in published
    /\ victim[c] # None => pc[c] \in {"evict", "replace"}
    /\ pc[c] \in {"execute", "unlock"} \/ Serving(c) => lock[holds[c]] = c
    /\ result[c] # "none" => pc[c] \in {"unlock", "remove", "finish", "done"}

(* Ids are given out once: every request still to be answered, and every   *)
(* answer not yet dispatched, under the id of a call is that call's.       *)
Lines(p) == {stdout[p][n] : n \in 1..Len(stdout[p])}
Sent(p) == requests[p] \cup {<<line.id, line.from>> : line \in Lines(p) \ {Garbage}}

SentFits(p) ==
    nextId[p] >= 2 /\ \A s \in Sent(p) : s[1] < nextId[p] /\ (s[1] = 1 => s[2] = p)
IdFits(c) ==
    Asking(c) => /\ reqId[c] < nextId[holds[c]]
                 /\ \A s \in Sent(holds[c]) : s[1] = reqId[c] => s[2] = c

(* A waiter in the table is a call that waits with an empty channel, and   *)
(* what a channel holds is the answer to the call's own request.           *)
WaiterFits(c) ==
    /\ \A p \in Calls : \A w \in waiters[p] : w[2] = c =>
          /\ pc[c] \in {"recheck", "wait"} /\ box[c] = Empty
          /\ holds[c] = p /\ reqId[c] = w[1]
    /\ pc[c] \in {"idle", "issued", "lookup", "evict", "open", "check",
                  "register"} => box[c] = Empty
    /\ pc[c] \in {"recheck", "wait"} /\ box[c] = Empty =>
          <<reqId[c], c>> \in waiters[holds[c]]
    /\ pc[c] \in {"recheck", "wait"} /\ box[c].kind = "answer" =>
          box[c].from = c /\ box[c].id = reqId[c]

(* A dispatcher that stopped has left a trace, which a call looks for      *)
(* after it registered.                                                    *)
DispatcherFits(p) ==
    /\ dispatcher[p] = "failing" => p \in broken
    /\ dispatcher[p] = "ended" => p \in broken \/ child[p] = "killed"

(* Whoever is about to remove or close a process knows it to be spent.     *)
ProcessHealth(p) ==
    /\ p \in broken \cup closing => p \in spent
    /\ child[p] = "exited" \/ Garbage \in Lines(p) => p \in spent
    /\ p \in published \ spent => p \in Registered /\ child[p] = "running"
CallHealth(c) ==
    /\ victim[c] # None => victim[c] \in spent \/ victim[c] \notin published
    /\ pc[c] = "unlock" /\ result[c] \notin {"answer", "canceled"} => holds[c] \in spent
    /\ pc[c] = "remove" => holds[c] \in spent
    /\ pc[c] = "publish" => child[c] = "running" \/ c \in spent

CallInv(c) == CallFits(c) /\ IdFits(c) /\ WaiterFits(c) /\ CallHealth(c)
ProcessInv(p) == SentFits(p) /\ DispatcherFits(p) /\ ProcessHealth(p)

McpInv ==
    /\ TypeOK /\ IsFiniteSet(KeysInUse) /\ RegistryFits
    /\ \A c \in Calls : CallInv(c) /\ ProcessInv(c)
    /\ OwnAnswer /\ NobodyWaitsInVain

-----------------------------------------------------------------------------
(* What closing processes does to their threads and to what is under way.  *)
Closes(ps) ==
    \A p \in Calls :
        IF p \in ps
        THEN /\ child'[p] = "killed" /\ dispatcher'[p] = "ended"
             /\ Lines(p)' = {} /\ Sent(p)' = {}
        ELSE /\ child'[p] = child[p] /\ dispatcher'[p] = dispatcher[p]
             /\ Lines(p)' = Lines(p) /\ Sent(p)' = Sent(p)

LEMMA CloseEffect ==
  ASSUME ThreadsTyped, NEW ps, Close(ps)
  PROVE  ThreadsTyped' /\ Closes(ps)
<1>1. ThreadsTyped'
  BY DEF ThreadsTyped, Close, Children, Dispatchers
<1>2. ASSUME NEW p \in Calls, p \in ps
      PROVE  /\ child'[p] = "killed" /\ dispatcher'[p] = "ended"
             /\ Lines(p)' = {} /\ Sent(p)' = {}
  <2>1. stdout'[p] = <<>> /\ requests'[p] = {} /\ child'[p] = "killed" /\ dispatcher'[p] = "ended"
    BY <1>2 DEF Close
  <2>2. Lines(p)' = {}
    BY <2>1 DEF Lines
  <2>3. QED
    BY <2>1, <2>2 DEF Sent
<1>3. ASSUME NEW p \in Calls, p \notin ps
      PROVE  /\ child'[p] = child[p] /\ dispatcher'[p] = dispatcher[p]
             /\ Lines(p)' = Lines(p) /\ Sent(p)' = Sent(p)
  <2>1. stdout'[p] = stdout[p] /\ requests'[p] = requests[p] /\ child'[p] = child[p]
        /\ dispatcher'[p] = dispatcher[p]
    BY <1>3 DEF Close
  <2>2. Lines(p)' = Lines(p)
    BY <2>1 DEF Lines
  <2>3. QED
    BY <2>1, <2>2 DEF Sent
<1>4. QED
  BY <1>1, <1>2, <1>3 DEF Closes

LEMMA NothingCloses ==
  ASSUME ThreadsTyped, UNCHANGED threads
  PROVE  ThreadsTyped' /\ Closes({})
<1>1. UNCHANGED <<child, dispatcher, requests, stdout>>
  BY DEF threads
<1>2. ThreadsTyped'
  BY <1>1 DEF ThreadsTyped
<1>3. \A p \in Calls : Lines(p)' = Lines(p)
  BY <1>1 DEF Lines
<1>4. \A p \in Calls : Sent(p)' = Sent(p)
  BY <1>1, <1>3 DEF Sent
<1>5. QED
  BY <1>1, <1>2, <1>3, <1>4 DEF Closes

(* A process closed by a call that drops its reference was its own, and    *)
(* nothing else refers to it.                                              *)
Dropped(c, ps, sessions) ==
    /\ Closes(ps) /\ ps \subseteq {holds[c]} \cap Calls
    /\ \A p \in ps : /\ p \notin closing /\ \A k \in Keys : sessions[k] # p
                     /\ \A d \in Calls : d # c => holds[d] # p /\ victim[d] # p

LEMMA ReleaseEffect ==
  ASSUME CallsTyped, ThreadsTyped, NEW c \in Calls, NEW sessions, Release(c, sessions)
  PROVE  /\ ThreadsTyped' /\ holds' = [holds EXCEPT ![c] = None]
         /\ \E ps : Dropped(c, ps, sessions)
<1> DEFINE ps == {holds[c]} \ (Referenced(c, sessions) \cup {None})
<1>1. Close(ps) /\ holds' = [holds EXCEPT ![c] = None]
  BY DEF Release
<1>2. ThreadsTyped' /\ Closes(ps)
  BY <1>1, CloseEffect
<1>3. ps \subseteq {holds[c]} \cap Calls
  BY DEF CallsTyped
<1>4. ASSUME NEW p \in ps
      PROVE  /\ p \notin closing /\ \A k \in Keys : sessions[k] # p
             /\ \A d \in Calls : d # c => holds[d] # p /\ victim[d] # p
  BY DEF Referenced
<1>5. Dropped(c, ps, sessions)
  BY <1>2, <1>3, <1>4 DEF Dropped
<1>6. QED
  BY <1>1, <1>2, <1>5

(* What the end of a wait comes to.                                        *)
LEMMA OutcomeEffect ==
  ASSUME CallsTyped, ThreadsTyped, NEW c \in Calls, NEW r \in Results \ {"none"}, Outcome(c, r)
  PROVE  /\ ThreadsTyped'
         /\ \E ps : Dropped(c, ps, registry) /\
              \/ /\ reqId[c] = 1 /\ r = "answer" /\ child[holds[c]] = "running" /\ ps = {}
                 /\ Goto(c, "publish") /\ UNCHANGED <<result, holds>>
              \/ /\ reqId[c] = 1 /\ Goto(c, "finish") /\ holds' = [holds EXCEPT ![c] = None]
                 /\ \E t \in Results \ {"none", "answer"} : result' = [result EXCEPT ![c] = t]
              \/ /\ reqId[c] # 1 /\ ps = {} /\ Goto(c, "unlock") /\ UNCHANGED holds
                 /\ result' = [result EXCEPT ![c] = r]
<1>0. ASSUME UNCHANGED threads  PROVE  ThreadsTyped' /\ Dropped(c, {}, registry)
  BY <1>0, NothingCloses DEF Dropped
<1>1. CASE reqId[c] # 1
  <2>1. UNCHANGED <<holds, threads>> /\ result' = [result EXCEPT ![c] = r] /\ Goto(c, "unlock")
    BY <1>1 DEF Outcome
  <2>2. UNCHANGED threads
    BY <2>1
  <2>3. QED
    BY <1>1, <2>1, <2>2, <1>0
<1>2. CASE reqId[c] = 1 /\ r = "answer" /\ child[holds[c]] = "running"
  <2>1. UNCHANGED <<result, holds, threads>> /\ Goto(c, "publish")
    BY <1>2 DEF Outcome
  <2>2. UNCHANGED threads
    BY <2>1
  <2>3. QED
    BY <1>2, <2>1, <2>2, <1>0
<1>3. CASE reqId[c] = 1 /\ ~(r = "answer" /\ child[holds[c]] = "running")
  <2> DEFINE told == IF r = "answer" /\ child[holds[c]] # "running" THEN "error" ELSE r
  <2>1. told # "answer" /\ told \in Results \ {"none", "answer"}
    BY <1>3 DEF Results
  <2>2. /\ result' = [result EXCEPT ![c] = told]
        /\ Release(c, registry) /\ Goto(c, "finish")
    BY <1>3, <2>1 DEF Outcome
  <2>3. QED
    BY <1>3, <2>1, <2>2, ReleaseEffect
<1>4. QED
  BY <1>1, <1>2, <1>3

LEMMA SentPairs ==
  ASSUME ThreadsTyped, NEW p \in Calls
  PROVE  \A s \in Sent(p) : s[1] \in Nat
BY DEF Sent, Lines, ThreadsTyped, Responses, Garbage, Line

-----------------------------------------------------------------------------
(* The call of an action, c, leaves the other calls as they are.           *)
Undisturbed(c, d) ==
    /\ pc'[d] = pc[d] /\ holds'[d] = holds[d] /\ victim'[d] = victim[d]
    /\ reqId'[d] = reqId[d] /\ box'[d] = box[d] /\ result'[d] = result[d]
    /\ published \subseteq published' /\ published' \subseteq published \cup {c}
    /\ spent \subseteq spent'
    /\ \A p \in Calls : /\ lock[p] = d => lock'[p] = d
                        /\ nextId[p] <= nextId'[p]
                        /\ \A w : w[2] = d => (w \in waiters'[p] <=> w \in waiters[p])
                        /\ \A s \in Sent(p)' : s \in Sent(p) \/ s[2] = d \/ p # holds[d]
                                               \/ ~Asking(d) \/ s[1] # reqId[d]
    /\ pc[d] = "publish" => child'[d] = child[d] \/ d \in spent'

LEMMA OtherCalls ==
  ASSUME McpInv, SessionsTyped', NEW c, NEW d \in Calls, d # c, Undisturbed(c, d)
  PROVE  CallInv(d)'
<1>1. CallInv(d) /\ CallsTyped /\ SessionsTyped /\ RegistryFits
  BY DEF McpInv, TypeOK
<1>2. CallFits(d)'
  BY <1>1 DEF Undisturbed, CallInv, CallFits, Asking, Initializing, Serving,
     SessionsTyped, CallsTyped
<1>3. IdFits(d)'
  <2>1. CASE Asking(d)'
    <3>1. Asking(d) /\ holds[d] \in Calls
      BY <1>1, <2>1 DEF Undisturbed, CallInv, CallFits, Asking, Initializing,
         Serving, SessionsTyped
    <3>2. reqId[d] < nextId[holds[d]] /\ \A s \in Sent(holds[d]) : s[1] = reqId[d] => s[2] = d
      BY <1>1, <3>1 DEF CallInv, IdFits
    <3>3. reqId'[d] < nextId'[holds'[d]]
      BY <1>1, <3>1, <3>2 DEF Undisturbed, SessionsTyped, CallsTyped
    <3>4. \A s \in Sent(holds[d])' : s[1] = reqId[d] => s[2] = d
      BY <3>1, <3>2 DEF Undisturbed
    <3>5. \A s \in Sent(holds[d])' : s[1] = reqId'[d] => s[2] = d
      BY <3>4 DEF Undisturbed
    <3>6. holds'[d] = holds[d]
      BY DEF Undisturbed
    <3>7. QED
      BY <3>3, <3>5, <3>6 DEF IdFits, Sent, Lines
  <2>2. QED
    BY <2>1 DEF IdFits
<1>4. WaiterFits(d)'
  <2>1. ASSUME NEW p \in Calls, NEW w \in waiters'[p], w[2] = d
        PROVE  pc'[d] \in {"recheck", "wait"} /\ box'[d] = Empty /\ holds'[d] = p /\ reqId'[d] = w[1]
    BY <1>1, <2>1 DEF Undisturbed, CallInv, WaiterFits
  <2>2. pc'[d] \in {"recheck", "wait"} /\ box'[d] = Empty => <<reqId'[d], d>> \in waiters'[holds'[d]]
    <3>1. SUFFICES ASSUME pc[d] \in {"recheck", "wait"}, box[d] = Empty
                   PROVE  <<reqId[d], d>> \in waiters'[holds[d]]
      BY DEF Undisturbed
    <3>2. <<reqId[d], d>> \in waiters[holds[d]]
      BY <1>1, <3>1 DEF CallInv, WaiterFits
    <3>3. holds[d] \in Calls
      BY <1>1, <3>1 DEF CallInv, CallFits, Asking, Initializing, Serving, SessionsTyped
    <3>4. QED
      BY <3>2, <3>3 DEF Undisturbed
  <2>3. /\ pc'[d] \in {"idle", "issued", "lookup", "evict", "open", "check",
                       "register"} => box'[d] = Empty
        /\ pc'[d] \in {"recheck", "wait"} /\ box'[d].kind = "answer" =>
              box'[d].from = d /\ box'[d].id = reqId'[d]
    BY <1>1 DEF Undisturbed, CallInv, WaiterFits
  <2>4. QED
    BY <2>1, <2>2, <2>3 DEF WaiterFits, Empty, Line
<1>5. CallHealth(d)'
  BY <1>1 DEF Undisturbed, CallInv, CallHealth, RegistryFits, SessionsTyped,
     CallsTyped, CallFits
<1>6. QED
  BY <1>2, <1>3, <1>4, <1>5 DEF CallInv

(* The end of a wait, in whichever way.                                    *)
Ends(c, r) ==
    /\ Asking(c) /\ Outcome(c, r)
    /\ UNCHANGED <<waitUnchanged, box>>
    /\ waiters' \in [Calls -> SUBSET (Nat \X Calls)]
    /\ \A p \in Calls : \A w : w \in waiters'[p] <=> w \in waiters[p] /\ w[2] # c
    /\ spent \subseteq spent' /\ spent' \subseteq Calls
    /\ r \in {"answer", "canceled"} \/ reqId[c] = 1 \/ holds[c] \in spent'
    /\ r = "answer" => box[c].from = c /\ box[c].id = reqId[c]

LEMMA EndsKeeps ==
  ASSUME McpInv, NEW c \in Calls, NEW r \in Results \ {"none"}, Ends(c, r)
  PROVE  McpInv'
<1>1. /\ TypeOK /\ CallsTyped /\ ThreadsTyped /\ SessionsTyped /\ RegistryFits /\ CallInv(c)
      /\ CallFits(c) /\ OwnAnswer /\ NobodyWaitsInVain /\ IsFiniteSet(KeysInUse)
      /\ \A d \in Calls : CallInv(d) /\ CallFits(d) /\ ProcessInv(d)
  BY DEF McpInv, TypeOK, CallInv
<1>2. /\ UNCHANGED <<key, print, victim, reqId, registry, lock, broken, nextId, closing>>
      /\ UNCHANGED <<troubles, published, box, active, pending, cancelled, asked>>
  BY DEF Ends, waitUnchanged, cancelVars
<1>3. PICK ps : Dropped(c, ps, registry) /\
              \/ /\ reqId[c] = 1 /\ r = "answer" /\ child[holds[c]] = "running" /\ ps = {}
                 /\ Goto(c, "publish") /\ UNCHANGED <<result, holds>>
              \/ /\ reqId[c] = 1 /\ Goto(c, "finish") /\ holds' = [holds EXCEPT ![c] = None]
                 /\ \E t \in Results \ {"none", "answer"} : result' = [result EXCEPT ![c] = t]
              \/ /\ reqId[c] # 1 /\ ps = {} /\ Goto(c, "unlock") /\ UNCHANGED holds
                 /\ result' = [result EXCEPT ![c] = r]
  BY <1>1, OutcomeEffect DEF Ends
<1>4. ThreadsTyped'
  BY <1>1, OutcomeEffect DEF Ends
<1>5. holds[c] \in Calls /\ Asking(c)
  BY <1>1 DEF Ends, CallFits, Initializing, Serving, SessionsTyped
<1>6. CallsTyped' /\ SessionsTyped'
  <2>1. pc' \in [Calls -> PC]
    BY <1>1, <1>3 DEF CallsTyped, Goto, PC
  <2>2. result' \in [Calls -> Results] /\ holds' \in [Calls -> Calls \cup {None}]
    BY <1>1, <1>3 DEF CallsTyped
  <2>3. QED
    BY <1>1, <1>2, <2>1, <2>2 DEF CallsTyped, SessionsTyped, Ends
<1>7. /\ pc'[c] \in {"publish", "finish", "unlock"} /\ \A d \in Calls : d # c => pc'[d] = pc[d]
      /\ \A d \in Calls : d # c => holds'[d] = holds[d] /\ result'[d] = result[d]
      /\ pc'[c] = "publish" => reqId[c] = 1 /\ holds'[c] = holds[c] /\ result'[c] = result[c] /\ ps = {}
                               /\ child[holds[c]] = "running"
      /\ pc'[c] = "finish" => reqId[c] = 1 /\ holds'[c] = None /\ result'[c] # "answer"
      /\ pc'[c] = "unlock" => reqId[c] # 1 /\ holds'[c] = holds[c] /\ result'[c] = r /\ ps = {}
  BY <1>1, <1>3, <1>5 DEF CallsTyped, Goto
<1>8. /\ Closes(ps) /\ ps \subseteq {holds[c]}
      /\ \A p \in ps : p \notin closing /\ \A k \in Keys : registry[k] # p
      /\ \A p \in ps : \A d \in Calls : d # c => holds[d] # p
      /\ ps # {} => pc'[c] = "finish"
  BY <1>3, <1>7 DEF Dropped
<1>9. TypeOK' /\ IsFiniteSet(KeysInUse)'
  BY <1>1, <1>2, <1>4, <1>6 DEF TypeOK, KeysInUse
<1>10. RegistryFits'
  BY <1>1, <1>2, <1>7, McpAssumptions DEF RegistryFits, KeysInUse, CallsTyped
<1>11. ASSUME NEW d \in Calls, d # c  PROVE  CallInv(d)'
  <2>1. \A p \in Calls : Sent(p)' \subseteq Sent(p)
    BY <1>8 DEF Closes
  <2>2. pc[d] = "publish" => child'[d] = child[d]
    BY <1>1, <1>8, <1>11 DEF Closes, CallFits
  <2>3. Undisturbed(c, d)
    BY <1>1, <1>2, <1>7, <1>11, <2>1, <2>2 DEF Undisturbed, Ends, SessionsTyped
  <2>4. QED
    BY <1>6, <1>11, <2>3, OtherCalls
<1>12. CallInv(c)'
  <2>1. CallFits(c)'
    BY <1>1, <1>2, <1>5, <1>7 DEF CallFits, Asking, Initializing, Serving
  <2>2. IdFits(c)'
    BY <1>7 DEF IdFits, Asking
  <2>3. WaiterFits(c)'
    BY <1>7 DEF WaiterFits, Ends
  <2>4. CallHealth(c)'
    <3>1. victim'[c] = None
      BY <1>1, <1>2, <1>5 DEF CallFits, Asking, CallsTyped
    <3>2. pc'[c] = "publish" => child'[c] = "running"
      BY <1>1, <1>5, <1>7, <1>8 DEF Closes, CallFits, Initializing
    <3>3. pc'[c] = "unlock" /\ r \notin {"answer", "canceled"} => holds'[c] \in spent'
      BY <1>7 DEF Ends
    <3>4. QED
      BY <1>7, <3>1, <3>2, <3>3 DEF CallHealth
  <2>5. QED
    BY <2>1, <2>2, <2>3, <2>4 DEF CallInv
<1>13. ASSUME NEW p \in Calls  PROVE  ProcessInv(p)'
  <2>1. SentFits(p)'
    BY <1>1, <1>2, <1>8 DEF ProcessInv, SentFits, Closes
  <2>2. DispatcherFits(p)'
    BY <1>1, <1>2, <1>8 DEF ProcessInv, DispatcherFits, Closes
  <2>3. ProcessHealth(p)'
    <3>1. p \in Registered => p \notin ps /\ p \in Registered'
      BY <1>2, <1>8 DEF Registered
    <3>2. p \in closing \cup broken => p \in spent'
      BY <1>1 DEF ProcessInv, ProcessHealth, Ends
    <3>3. child'[p] = "exited" \/ Garbage \in Lines(p)' => p \in spent'
      BY <1>1, <1>8 DEF ProcessInv, ProcessHealth, Closes, Ends
    <3>4. p \in published \ spent' => p \in Registered' /\ child'[p] = "running"
      BY <1>1, <1>8, <3>1 DEF ProcessInv, ProcessHealth, Closes, Ends
    <3>5. QED
      BY <1>2, <3>2, <3>3, <3>4 DEF ProcessHealth, Garbage, Line
  <2>4. QED
    BY <2>1, <2>2, <2>3 DEF ProcessInv
<1>14. OwnAnswer'
  BY <1>1, <1>2, <1>5, <1>7 DEF OwnAnswer, Ends, CallFits, Asking
<1>15. NobodyWaitsInVain'
  <2>1. ASSUME NEW d \in Calls, pc'[d] = "wait", box'[d] = Empty
        PROVE  dispatcher'[holds'[d]] # "ended"
    <3>1. d # c /\ pc[d] = "wait" /\ box[d] = Empty /\ holds'[d] = holds[d]
      BY <1>2, <1>7, <2>1
    <3>2. holds[d] \in Calls
      BY <1>1, <3>1 DEF CallFits, Asking, Initializing, Serving, SessionsTyped
    <3>3. holds[d] \notin ps
      BY <1>8, <3>1
    <3>4. QED
      BY <1>1, <1>8, <3>1, <3>2, <3>3 DEF Closes, NobodyWaitsInVain
  <2>2. QED
    BY <2>1 DEF NobodyWaitsInVain, Empty, Line
<1>16. QED
  BY <1>9, <1>10, <1>11, <1>12, <1>13, <1>14, <1>15 DEF McpInv

-----------------------------------------------------------------------------
(* A step of call c that may start its own process, closes the processes   *)
(* ps, which nobody waits for, and does not make the call wait.            *)
Turn(c, ps) ==
    /\ \A p \in Calls :
          /\ Lines(p)' \subseteq Lines(p) /\ Sent(p)' \subseteq Sent(p)
          /\ \/ p \in ps /\ child'[p] = "killed" /\ dispatcher'[p] = "ended"
             \/ p \notin ps /\ child'[p] = child[p] /\ dispatcher'[p] = dispatcher[p]
             \/ p = c /\ child'[p] = "running" /\ dispatcher'[p] = "reading"
    /\ UNCHANGED <<key, broken>>
    /\ spent \subseteq spent' /\ published \subseteq published'
    /\ published' \subseteq published \cup {c}
    /\ \A p \in Calls : nextId[p] <= nextId'[p]
    /\ \A d \in Calls : d # c =>
          /\ pc'[d] = pc[d] /\ holds'[d] = holds[d] /\ victim'[d] = victim[d]
          /\ reqId'[d] = reqId[d] /\ box'[d] = box[d] /\ result'[d] = result[d]
          /\ \A p \in Calls : lock[p] = d => lock'[p] = d
          /\ \A p \in Calls : \A w : w[2] = d => (w \in waiters'[p] <=> w \in waiters[p])
          /\ Asking(d) \/ pc[d] = "publish" => holds[d] \notin ps
    /\ pc'[c] = "wait" => pc[c] = "wait" /\ box'[c] = box[c] /\ holds'[c] = holds[c]
                          /\ holds[c] \notin ps
    /\ result'[c] = "answer" => result[c] = "answer" /\ box'[c] = box[c] /\ reqId'[c] = reqId[c]
    /\ \A p \in Calls : /\ p \in closing' => p \in spent'
                        /\ p \in published' \ spent' =>
                              p \in Registered' /\ (p \in published \/ child'[p] = "running")

LEMMA TurnKeeps ==
  ASSUME McpInv, NEW c \in Calls, NEW ps, Turn(c, ps), TypeOK', IsFiniteSet(KeysInUse)',
         RegistryFits', CallInv(c)',
         \A p \in ps : p \notin published' \/ p \in spent'
  PROVE  McpInv'
<1>1. /\ TypeOK /\ CallsTyped /\ ThreadsTyped /\ SessionsTyped /\ RegistryFits
      /\ OwnAnswer /\ NobodyWaitsInVain /\ SessionsTyped' /\ ThreadsTyped'
      /\ \A d \in Calls : CallInv(d) /\ CallFits(d) /\ ProcessInv(d)
  BY DEF McpInv, TypeOK, CallInv
<1>2. ASSUME NEW d \in Calls, d # c  PROVE  CallInv(d)'
  <2>1. \A p \in Calls : Sent(p)' \subseteq Sent(p)
    BY DEF Turn
  <2>2. pc[d] = "publish" => child'[d] = child[d]
    BY <1>1, <1>2 DEF Turn, CallFits
  <2>3. Undisturbed(c, d)
    BY <1>2, <2>1, <2>2 DEF Undisturbed, Turn
  <2>4. QED
    BY <1>1, <1>2, <2>3, OtherCalls
<1>3. ASSUME NEW p \in Calls  PROVE  ProcessInv(p)'
  <2>1. SentFits(p)'
    <3>1. nextId[p] <= nextId'[p] /\ nextId[p] \in Nat /\ nextId'[p] \in Nat /\ Sent(p)' \subseteq Sent(p)
      BY <1>1 DEF Turn, SessionsTyped
    <3>2. nextId[p] >= 2 /\ \A s \in Sent(p) : s[1] < nextId[p] /\ (s[1] = 1 => s[2] = p)
      BY <1>1 DEF ProcessInv, SentFits
    <3>3. \A s \in Sent(p) : s[1] \in Nat
      BY <1>1, SentPairs
    <3>4. QED
      BY <3>1, <3>2, <3>3 DEF SentFits
  <2>2. DispatcherFits(p)'
    BY <1>1 DEF ProcessInv, DispatcherFits, Turn
  <2>3. ProcessHealth(p)'
    <3>1. p \in broken' \cup closing' => p \in spent'
      BY <1>1 DEF ProcessInv, ProcessHealth, Turn
    <3>2. child'[p] = "exited" \/ Garbage \in Lines(p)' => p \in spent'
      BY <1>1 DEF ProcessInv, ProcessHealth, Turn
    <3>3. p \in published' \ spent' => p \in Registered' /\ child'[p] = "running"
      BY <1>1 DEF ProcessInv, ProcessHealth, Turn
    <3>4. QED
      BY <3>1, <3>2, <3>3 DEF ProcessHealth, Garbage, Line
  <2>4. QED
    BY <2>1, <2>2, <2>3 DEF ProcessInv
<1>4. OwnAnswer'
  BY <1>1 DEF OwnAnswer, Turn
<1>5. NobodyWaitsInVain'
  <2>1. ASSUME NEW d \in Calls, pc'[d] = "wait", box'[d] = Empty
        PROVE  dispatcher'[holds'[d]] # "ended"
    <3>1. pc[d] = "wait" /\ box[d] = Empty /\ holds'[d] = holds[d] /\ holds[d] \notin ps
      BY <2>1 DEF Turn, Asking
    <3>2. holds[d] \in Calls
      BY <1>1, <3>1 DEF CallFits, Asking, Initializing, Serving, SessionsTyped
    <3>3. QED
      BY <1>1, <3>1, <3>2 DEF NobodyWaitsInVain, Turn
  <2>2. QED
    BY <2>1 DEF NobodyWaitsInVain, Empty, Line
<1>6. QED
  BY <1>2, <1>3, <1>4, <1>5 DEF McpInv

(* A step of call c that touches no process at all.                        *)
Quiet(c) ==
    /\ UNCHANGED <<threads, registry, key, closing, broken, published, spent, victim>>
    /\ \A p \in Calls : nextId[p] <= nextId'[p]
    /\ \A d \in Calls : d # c =>
          /\ pc'[d] = pc[d] /\ holds'[d] = holds[d] /\ reqId'[d] = reqId[d]
          /\ box'[d] = box[d] /\ result'[d] = result[d]
          /\ \A p \in Calls : lock[p] = d => lock'[p] = d
          /\ \A p \in Calls : \A w : w[2] = d => (w \in waiters'[p] <=> w \in waiters[p])
    /\ holds'[c] \in {holds[c], None} \cup published
    /\ pc'[c] = "wait" => pc[c] = "wait" /\ box'[c] = box[c] /\ holds'[c] = holds[c]
    /\ result'[c] = "answer" => result[c] = "answer" /\ box'[c] = box[c] /\ reqId'[c] = reqId[c]

LEMMA QuietKeeps ==
  ASSUME McpInv, NEW c \in Calls, Quiet(c), CallsTyped', SessionsTyped', CallInv(c)'
  PROVE  McpInv'
<1>1. /\ TypeOK /\ CallsTyped /\ ThreadsTyped /\ SessionsTyped /\ RegistryFits
      /\ IsFiniteSet(KeysInUse) /\ \A p \in Calls : ProcessHealth(p)
  BY DEF McpInv, TypeOK, ProcessInv
<1>2. /\ UNCHANGED <<registry, key, closing, broken, published, spent, victim>>
      /\ UNCHANGED threads
  BY DEF Quiet
<1>3. ThreadsTyped' /\ Closes({})
  BY <1>1, <1>2, NothingCloses
<1>4. TypeOK' /\ IsFiniteSet(KeysInUse)'
  BY <1>1, <1>2, <1>3 DEF TypeOK, KeysInUse
<1>5. RegistryFits'
  BY <1>1, <1>2, McpAssumptions DEF RegistryFits, KeysInUse, CallsTyped, Quiet
<1>6. Turn(c, {})
  BY <1>1, <1>2, <1>3 DEF Turn, Closes, Quiet, ProcessHealth, Registered
<1>7. QED
  BY <1>4, <1>5, <1>6, TurnKeeps

LEMMA QuietCallSteps ==
  ASSUME McpInv, NEW c \in Calls,
         Issue(c) \/ Cancel(c) \/ Start(c) \/ Finish(c) \/ Lock(c) \/ Execute(c) \/ Register(c)
  PROVE  McpInv'
<1>1. /\ CallsTyped /\ SessionsTyped /\ ThreadsTyped /\ RegistryFits /\ CallInv(c)
      /\ CallFits(c) /\ IdFits(c) /\ WaiterFits(c) /\ CallHealth(c)
      /\ \A d \in Calls : CallFits(d)
  BY DEF McpInv, TypeOK, CallInv
<1>2. ASSUME Issue(c)  PROVE  McpInv'
  <2>1. CallsTyped' /\ SessionsTyped' /\ Quiet(c)
    BY <1>1, <1>2 DEF Issue, Goto, CallsTyped, SessionsTyped, Quiet, PC,
       cancelVars, procVars, threads
  <2>2. CallInv(c)'
    BY <1>1, <1>2 DEF Issue, Goto, CallsTyped, CallInv, CallFits, IdFits,
       WaiterFits, CallHealth, Asking,
       Initializing, Serving, procVars, Empty, Line
  <2>3. QED
    BY <2>1, <2>2, QuietKeeps
<1>3. ASSUME Cancel(c)  PROVE  McpInv'
  <2>1. UNCHANGED <<pc, key, print, holds, victim, reqId, box, result>> /\ UNCHANGED <<procVars, published, spent>>
    BY <1>3 DEF Cancel, callVars
  <2>2. CallsTyped'
    BY <1>1, <1>3, <2>1 DEF Cancel, CallsTyped
  <2>3. SessionsTyped'
    BY <1>1, <1>3, <2>1, McpAssumptions DEF Cancel, SessionsTyped, Disturbed, procVars
  <2>4. CallInv(c)'
    BY <1>1, <2>1 DEF CallInv, CallFits, IdFits, WaiterFits, CallHealth, Asking,
       Initializing, Serving, procVars, Empty, Line, Sent, Lines
  <2>5. Quiet(c)
    BY <1>1, <2>1 DEF Quiet, procVars, threads, SessionsTyped
  <2>6. QED
    BY <2>2, <2>3, <2>4, <2>5, QuietKeeps
<1>4. ASSUME Start(c)  PROVE  McpInv'
  <2>1. SessionsTyped' /\ CallsTyped'
    BY <1>1, <1>4 DEF Start, Goto, CallsTyped, SessionsTyped, PC, Results, procVars
  <2>2. Quiet(c)
    BY <1>1, <1>4 DEF Start, Goto, CallsTyped, SessionsTyped, Quiet, procVars, threads
  <2>3. CallInv(c)'
    BY <1>1, <1>4 DEF Start, Goto, CallsTyped, CallInv, CallFits, IdFits,
       WaiterFits, CallHealth, Asking,
       Initializing, Serving, procVars, Empty, Line
  <2>4. QED
    BY <2>1, <2>2, <2>3, QuietKeeps
<1>5. ASSUME Finish(c)  PROVE  McpInv'
  <2>1. SessionsTyped' /\ CallsTyped'
    BY <1>1, <1>5 DEF Finish, Goto, CallsTyped, SessionsTyped, PC, Results,
       procVars, Boxes
  <2>2. Quiet(c)
    BY <1>1, <1>5 DEF Finish, Goto, CallsTyped, SessionsTyped, Quiet, procVars, threads
  <2>3. CallInv(c)'
    BY <1>1, <1>5 DEF Finish, Goto, CallsTyped, CallInv, CallFits, IdFits,
       WaiterFits, CallHealth, Asking,
       Initializing, Serving, procVars, Empty, Line
  <2>4. QED
    BY <2>1, <2>2, <2>3, QuietKeeps
<1>6. ASSUME Lock(c)  PROVE  McpInv'
  <2>1. SessionsTyped' /\ CallsTyped'
    BY <1>1, <1>6, McpAssumptions DEF Lock, Goto, CallsTyped, SessionsTyped, PC,
       CallFits, cancelVars
  <2>2. Quiet(c)
    BY <1>1, <1>6, McpAssumptions DEF Lock, Goto, CallsTyped, SessionsTyped, Quiet,
       threads
  <2>3. CallInv(c)'
    BY <1>1, <1>6 DEF Lock, Goto, CallsTyped, SessionsTyped, CallInv, CallFits,
       IdFits, WaiterFits, CallHealth, Asking,
       Initializing, Serving, Empty, Line
  <2>4. QED
    BY <2>1, <2>2, <2>3, QuietKeeps
<1>7. ASSUME Execute(c)  PROVE  McpInv'
  <2> DEFINE p == holds[c]
  <2>1. /\ pc[c] = "execute" /\ p \in published /\ p \in Calls /\ lock[p] = c
        /\ nextId[p] \in Nat /\ nextId[p] >= 2 /\ victim[c] = None /\ result[c] = "none"
    BY <1>1, <1>7 DEF Execute, CallFits, SessionsTyped, McpInv, ProcessInv, SentFits
  <2>2. /\ UNCHANGED <<key, print, holds, victim, registry, lock, broken, waiters, closing>>
        /\ UNCHANGED <<troubles, published, spent, active, pending, cancelled, asked, threads>>
        /\ UNCHANGED <<child, dispatcher, requests, stdout>>
    BY <1>7 DEF Execute, cancelVars, threads
  <2>3. \/ /\ result' = [result EXCEPT ![c] = "canceled"] /\ pc' = [pc EXCEPT ![c] = "unlock"]
           /\ UNCHANGED <<reqId, nextId, box>>
        \/ /\ reqId' = [reqId EXCEPT ![c] = nextId[p]] /\ nextId' = [nextId EXCEPT ![p] = @ + 1]
           /\ box' = [box EXCEPT ![c] = Empty] /\ pc' = [pc EXCEPT ![c] = "check"]
           /\ UNCHANGED result
    BY <1>7 DEF Execute, Goto
  <2>4. CallsTyped' /\ SessionsTyped'
    BY <1>1, <2>1, <2>2, <2>3 DEF CallsTyped, SessionsTyped, PC, Results, Boxes
  <2>5. Quiet(c)
    BY <1>1, <2>1, <2>2, <2>3 DEF Quiet, CallsTyped, SessionsTyped
  <2>6. \A s \in Sent(p)' : s[1] # nextId[p]
    <3>1. Sent(p)' = Sent(p)
      BY <2>2 DEF Sent, Lines
    <3>2. \A s \in Sent(p) : s[1] < nextId[p] /\ s[1] \in Nat
      BY <1>1, <2>1 DEF McpInv, ProcessInv, SentFits, Sent, Lines, ThreadsTyped,
         Responses, Garbage, Line
    <3>3. QED
      BY <2>1, <3>1, <3>2
  <2>7. CallFits(c)' /\ CallHealth(c)'
    BY <1>1, <2>1, <2>2, <2>3 DEF CallsTyped, CallFits, CallHealth, Asking,
       Initializing, Serving
  <2>8. WaiterFits(c)'
    BY <1>1, <2>1, <2>2, <2>3 DEF CallsTyped, WaiterFits, Empty, Line
  <2>9. IdFits(c)'
    BY <1>1, <2>1, <2>2, <2>3, <2>6 DEF CallsTyped, SessionsTyped, IdFits, Asking
  <2>10. QED
    BY <2>4, <2>5, <2>7, <2>8, <2>9, QuietKeeps DEF CallInv
<1>8. ASSUME Register(c)  PROVE  McpInv'
  <2> DEFINE p == holds[c]
  <2>1. pc[c] = "register" /\ p \in Calls /\ box[c] = Empty
    BY <1>1, <1>8 DEF Register, CallFits, Asking, Initializing, Serving,
       SessionsTyped, WaiterFits
  <2>2. /\ UNCHANGED <<key, print, holds, victim, reqId, box, result, registry, lock, broken, nextId, closing>>
        /\ UNCHANGED <<troubles, published, spent, active, pending, cancelled, asked, threads>>
        /\ UNCHANGED <<child, dispatcher, requests, stdout>>
        /\ waiters' = [waiters EXCEPT ![p] = @ \cup {<<reqId[c], c>>}] /\ pc' = [pc EXCEPT ![c] = "recheck"]
    BY <1>8 DEF Register, cancelVars, threads, waitUnchanged, Goto
  <2>3. <<reqId[c], c>> \in Nat \X Calls
    BY <1>1 DEF CallsTyped
  <2>4. CallsTyped' /\ SessionsTyped'
    BY <1>1, <2>2, <2>3 DEF CallsTyped, SessionsTyped, PC
  <2>5. \A q \in Calls : \A w : w \in waiters'[q] <=> w \in waiters[q] \/ (q = p /\ w = <<reqId[c], c>>)
    BY <1>1, <2>1, <2>2 DEF SessionsTyped
  <2>6. Quiet(c)
    BY <1>1, <2>1, <2>2, <2>5 DEF Quiet, CallsTyped, SessionsTyped
  <2>7. CallFits(c)' /\ CallHealth(c)'
    BY <1>1, <2>1, <2>2 DEF CallsTyped, CallFits, CallHealth, Asking, Initializing,
       Serving
  <2>8. WaiterFits(c)'
    BY <1>1, <2>1, <2>2, <2>5 DEF CallsTyped, WaiterFits, Empty, Line
  <2>9. IdFits(c)'
    BY <1>1, <2>1, <2>2 DEF CallsTyped, IdFits, Asking, Sent, Lines
  <2>10. QED
    BY <2>4, <2>6, <2>7, <2>8, <2>9, QuietKeeps DEF CallInv
<1>9. QED
  BY <1>2, <1>3, <1>4, <1>5, <1>6, <1>7, <1>8

-----------------------------------------------------------------------------
(* The waiting of a call.                                                  *)
(* The waiter of call c, if any, is the entry it removes.                  *)
LEMMA DeregisterEffect ==
  ASSUME McpInv, NEW c \in Calls, pc[c] \in {"recheck", "wait"}, Deregister(c)
  PROVE  /\ waiters' \in [Calls -> SUBSET (Nat \X Calls)]
         /\ \A p \in Calls : \A w : w \in waiters'[p] <=> w \in waiters[p] /\ w[2] # c
<1>1. SessionsTyped /\ CallFits(c) /\ WaiterFits(c) /\ CallsTyped
  BY DEF McpInv, TypeOK, CallInv
<1>2. holds[c] \in Calls
  BY <1>1 DEF CallFits, Asking, Initializing, Serving, SessionsTyped
<1>3. waiters' = [waiters EXCEPT ![holds[c]] = waiters[holds[c]] \ {<<reqId[c], c>>}]
  BY DEF Deregister
<1>4. waiters' \in [Calls -> SUBSET (Nat \X Calls)]
  BY <1>1, <1>2, <1>3 DEF SessionsTyped
<1>5. ASSUME NEW p \in Calls, NEW w \in waiters[p], w[2] = c
      PROVE  p = holds[c] /\ w = <<reqId[c], c>>
  <2>1. w \in Nat \X Calls
    BY <1>1 DEF SessionsTyped
  <2>2. w[1] = reqId[c] /\ holds[c] = p
    BY <1>1, <1>5 DEF WaiterFits
  <2>3. QED
    BY <1>5, <2>1, <2>2
<1>6. ASSUME NEW p \in Calls
      PROVE  waiters'[p] = IF p = holds[c] THEN waiters[p] \ {<<reqId[c], c>>} ELSE waiters[p]
  BY <1>1, <1>2, <1>3 DEF SessionsTyped
<1>7. ASSUME NEW p \in Calls, NEW w
      PROVE  w \in waiters'[p] <=> w \in waiters[p] /\ w[2] # c
  <2>1. <<reqId[c], c>>[2] = c
    OBVIOUS
  <2>2. CASE w = <<reqId[c], c>>
    BY <1>5, <1>6, <2>1, <2>2
  <2>3. CASE w # <<reqId[c], c>>
    BY <1>5, <1>6, <2>3
  <2>4. QED
    BY <2>2, <2>3
<1>8. QED
  BY <1>4, <1>7

LEMMA WaitEnds ==
  ASSUME McpInv, NEW c \in Calls, Receive(c) \/ Canceled(c) \/ TimeOut(c)
  PROVE  McpInv'
<1>1. /\ CallsTyped /\ SessionsTyped /\ CallFits(c) /\ WaiterFits(c)
      /\ pc[c] = "wait" /\ Asking(c) /\ holds[c] \in Calls /\ box[c] \in Boxes
  BY DEF McpInv, TypeOK, CallInv, Receive, Canceled, TimeOut, Asking, CallFits,
     Initializing,
     Serving, SessionsTyped, CallsTyped
<1>2. ASSUME Receive(c)  PROVE  McpInv'
  <2>1. /\ Outcome(c, ResponseResult(box[c])) /\ UNCHANGED <<waitUnchanged, box>> /\ waiters' = waiters
        /\ box[c].kind # "empty"
        /\ spent' = IF box[c].kind = "answer" THEN spent ELSE spent \cup {holds[c]}
    BY <1>2 DEF Receive
  <2>2. ResponseResult(box[c]) = IF box[c].kind = "answer" THEN "answer" ELSE "error"
    BY DEF ResponseResult
  <2>3. \A p \in Calls : \A w \in waiters[p] : w[2] # c
    BY <1>1, <2>1 DEF WaiterFits, Empty, Line
  <2>4. box[c].kind = "answer" => box[c].from = c /\ box[c].id = reqId[c]
    BY <1>1 DEF WaiterFits
  <2>5. Ends(c, ResponseResult(box[c]))
    BY <1>1, <2>1, <2>2, <2>3, <2>4 DEF Ends, SessionsTyped
  <2>6. QED
    BY <2>2, <2>5, EndsKeeps DEF Results
<1>3. ASSUME Canceled(c)  PROVE  McpInv'
  <2>1. /\ Outcome(c, "canceled") /\ UNCHANGED <<waitUnchanged, box>> /\ spent' = spent
        /\ Deregister(c)
    BY <1>3 DEF Canceled
  <2>2. Ends(c, "canceled")
    BY <1>1, <2>1, DeregisterEffect DEF Ends, SessionsTyped
  <2>3. QED
    BY <2>2, EndsKeeps DEF Results
<1>4. ASSUME TimeOut(c)  PROVE  McpInv'
  <2>1. /\ Outcome(c, "timeout") /\ UNCHANGED <<waitUnchanged, box>>
        /\ spent' = spent \cup {holds[c]} /\ Deregister(c)
    BY <1>4 DEF TimeOut
  <2>2. Ends(c, "timeout")
    BY <1>1, <2>1, DeregisterEffect DEF Ends, SessionsTyped
  <2>3. QED
    BY <2>2, EndsKeeps DEF Results
<1>5. QED
  BY <1>2, <1>3, <1>4

LEMMA CheckKeeps ==
  ASSUME McpInv, NEW c \in Calls, Check(c)
  PROVE  McpInv'
<1>1. /\ CallsTyped /\ SessionsTyped /\ CallFits(c) /\ IdFits(c) /\ WaiterFits(c) /\ CallHealth(c)
      /\ pc[c] = "check" /\ Asking(c) /\ holds[c] \in Calls /\ ProcessHealth(holds[c])
  BY DEF McpInv, TypeOK, CallInv, Check, Asking, CallFits, Initializing, Serving,
     SessionsTyped, ProcessInv
<1>2. UNCHANGED <<waitUnchanged, box>> /\ waiters' = waiters /\ spent' = spent
  BY DEF Check
<1>3. CASE holds[c] \in broken /\ Outcome(c, "error")
  <2>1. holds[c] \in spent
    BY <1>1, <1>3 DEF ProcessHealth
  <2>2. \A p \in Calls : \A w \in waiters[p] : w[2] # c
    BY <1>1 DEF WaiterFits
  <2>3. Ends(c, "error")
    BY <1>1, <1>2, <1>3, <2>1, <2>2 DEF Ends, SessionsTyped
  <2>4. QED
    BY <2>3, EndsKeeps DEF Results
<1>4. CASE Goto(c, "register") /\ UNCHANGED <<result, holds, threads>>
  <2>1. /\ UNCHANGED <<key, print, holds, victim, reqId, box, result, registry, lock, broken, nextId, closing>>
        /\ UNCHANGED <<troubles, published, spent, active, pending, cancelled, asked, threads>>
        /\ UNCHANGED <<child, dispatcher, requests, stdout>>
        /\ waiters' = waiters /\ pc' = [pc EXCEPT ![c] = "register"]
    BY <1>2, <1>4 DEF cancelVars, threads, waitUnchanged, Goto
  <2>2. CallsTyped' /\ SessionsTyped'
    BY <1>1, <2>1 DEF CallsTyped, SessionsTyped, PC
  <2>3. Quiet(c)
    BY <1>1, <2>1 DEF Quiet, CallsTyped, SessionsTyped
  <2>4. CallInv(c)'
    BY <1>1, <2>1 DEF CallsTyped, CallInv, CallFits, IdFits, WaiterFits,
       CallHealth, Asking,
       Initializing, Serving, Sent, Lines, Empty, Line
  <2>5. QED
    BY <2>2, <2>3, <2>4, QuietKeeps
<1>5. QED
  BY <1>3, <1>4 DEF Check

LEMMA RecheckAndSendKeeps ==
  ASSUME McpInv, NEW c \in Calls, RecheckAndSend(c)
  PROVE  McpInv'
<1> DEFINE p == holds[c]
<1>1. /\ TypeOK /\ CallsTyped /\ ThreadsTyped /\ SessionsTyped /\ RegistryFits /\ IsFiniteSet(KeysInUse)
      /\ OwnAnswer /\ NobodyWaitsInVain /\ CallFits(c) /\ IdFits(c) /\ WaiterFits(c) /\ CallHealth(c)
      /\ ProcessHealth(p) /\ DispatcherFits(p) /\ SentFits(p)
      /\ \A d \in Calls : CallInv(d) /\ CallFits(d) /\ ProcessInv(d)
      /\ pc[c] = "recheck" /\ Asking(c) /\ p \in Calls
  BY DEF McpInv, TypeOK, CallInv, RecheckAndSend, Asking, CallFits, Initializing,
     Serving, SessionsTyped, ProcessInv
<1>2. UNCHANGED <<waitUnchanged, box>> /\ spent' = spent
  BY DEF RecheckAndSend
<1>3. CASE (p \in broken \/ child[p] # "running") /\ Deregister(c) /\ Outcome(c, "error")
  <2>1. p \in spent \/ reqId[c] = 1
    BY <1>1, <1>3 DEF ProcessHealth, CallFits, Serving
  <2>2. Ends(c, "error")
    BY <1>1, <1>2, <1>3, <2>1, DeregisterEffect DEF Ends, SessionsTyped
  <2>3. QED
    BY <2>2, EndsKeeps DEF Results
<1>4. CASE /\ p \notin broken /\ child[p] = "running"
           /\ requests' = [requests EXCEPT ![p] = @ \cup {<<reqId[c], c>>}]
           /\ Goto(c, "wait")
           /\ UNCHANGED <<result, holds, child, dispatcher, stdout, waiters>>
  <2> DEFINE own == <<reqId[c], c>>
  <2>1. /\ UNCHANGED <<key, print, holds, victim, reqId, box, result, registry, lock, broken, nextId, closing>>
        /\ UNCHANGED <<troubles, published, spent, active, pending, cancelled, asked>>
        /\ UNCHANGED <<child, dispatcher, stdout, waiters>>
        /\ pc' = [pc EXCEPT ![c] = "wait"] /\ requests' = [requests EXCEPT ![p] = @ \cup {own}]
    BY <1>2, <1>4 DEF cancelVars, waitUnchanged, Goto
  <2>2. own \in Nat \X Calls /\ own[1] = reqId[c] /\ own[2] = c /\ reqId[c] \in Nat
    BY <1>1 DEF CallsTyped
  <2>3. CallsTyped' /\ SessionsTyped' /\ ThreadsTyped'
    BY <1>1, <2>1, <2>2 DEF CallsTyped, SessionsTyped, ThreadsTyped, PC
  <2>4. \A q \in Calls : /\ Lines(q)' = Lines(q)
                         /\ Sent(q)' = IF q = p THEN Sent(q) \cup {own} ELSE Sent(q)
    <3>1. \A q \in Calls : Lines(q)' = Lines(q)
      BY <2>1 DEF Lines
    <3>2. \A q \in Calls : requests'[q] = IF q = p THEN requests[q] \cup {own} ELSE requests[q]
      BY <1>1, <2>1 DEF ThreadsTyped
    <3>3. QED
      BY <3>1, <3>2 DEF Sent
  <2>5. TypeOK' /\ IsFiniteSet(KeysInUse)' /\ RegistryFits'
    BY <1>1, <2>1, <2>3 DEF TypeOK, KeysInUse, RegistryFits
  <2>6. ASSUME NEW d \in Calls, d # c  PROVE  CallInv(d)'
    <3>1. CASE Asking(d) /\ holds[d] = p
      <4>1. reqId[d] # reqId[c]
        BY <1>1, <2>6, <3>1 DEF CallFits, Initializing, Serving
      <4>2. Undisturbed(c, d)
        BY <1>1, <2>1, <2>2, <2>4, <2>6, <4>1 DEF Undisturbed, CallsTyped, SessionsTyped
      <4>3. QED
        BY <2>3, <2>6, <4>2, OtherCalls
    <3>2. CASE ~(Asking(d) /\ holds[d] = p)
      <4>1. Undisturbed(c, d)
        BY <1>1, <2>1, <2>2, <2>4, <2>6, <3>2 DEF Undisturbed, CallsTyped, SessionsTyped
      <4>2. QED
        BY <2>3, <2>6, <4>1, OtherCalls
    <3>3. QED
      BY <3>1, <3>2
  <2>7. CallInv(c)'
    <3>1. IdFits(c)'
      BY <1>1, <2>1, <2>2, <2>4 DEF IdFits, Asking
    <3>2. CallFits(c)' /\ CallHealth(c)'
      BY <1>1, <2>1 DEF CallsTyped, CallFits, CallHealth, Asking, Initializing, Serving
    <3>3. WaiterFits(c)'
      BY <1>1, <2>1 DEF CallsTyped, WaiterFits, Empty, Line
    <3>4. QED
      BY <3>1, <3>2, <3>3 DEF CallInv
  <2>8. ASSUME NEW q \in Calls  PROVE  ProcessInv(q)'
    <3>1. SentFits(q)'
      <4>1. reqId[c] < nextId[p] /\ (reqId[c] = 1 => p = c)
        BY <1>1 DEF IdFits, CallFits, Initializing
      <4>2. QED
        BY <1>1, <2>1, <2>2, <2>4, <4>1 DEF ProcessInv, SentFits
    <3>2. DispatcherFits(q)'
      BY <1>1, <2>1 DEF ProcessInv, DispatcherFits
    <3>3. ProcessHealth(q)'
      BY <1>1, <2>1, <2>4 DEF ProcessInv, ProcessHealth, Registered, Garbage, Line
    <3>4. QED
      BY <3>1, <3>2, <3>3 DEF ProcessInv
  <2>9. OwnAnswer'
    BY <1>1, <2>1 DEF OwnAnswer
  <2>10. NobodyWaitsInVain'
    <3>1. dispatcher[p] # "ended"
      BY <1>1, <1>4 DEF DispatcherFits
    <3>2. QED
      BY <1>1, <2>1, <3>1 DEF NobodyWaitsInVain, CallsTyped, Empty, Line
  <2>11. QED
    BY <2>5, <2>6, <2>7, <2>8, <2>9, <2>10 DEF McpInv
<1>5. QED
  BY <1>3, <1>4 DEF RecheckAndSend

-----------------------------------------------------------------------------
(* The registry: what enters and leaves it, and how many there are.        *)
LEMMA AsManyAsKeys ==
  ASSUME TypeOK, IsFiniteSet(KeysInUse), RegistryFits
  PROVE  Cardinality(Registered) = Cardinality(KeysInUse)
<1> DEFINE f == [k \in KeysInUse |-> registry[k]]
<1>1. f \in [KeysInUse -> Registered]
  BY DEF KeysInUse, Registered
<1>2. \A k, l \in KeysInUse : f[k] = f[l] => k = l
  BY DEF RegistryFits
<1>3. \A p \in Registered : \E k \in KeysInUse : f[k] = p
  BY DEF KeysInUse, Registered
<1>4. ExistsBijection(KeysInUse, Registered)
  BY <1>1, <1>2, <1>3 DEF ExistsBijection, Bijection, Injection, Surjection, IsInjective
<1>5. QED
  BY <1>4, FS_Bijection

LEMMA OneMoreKey ==
  ASSUME TypeOK, IsFiniteSet(KeysInUse), RegistryFits, ~RegistryFull,
         NEW k \in Keys, NEW p \in Calls, registry' = [registry EXCEPT ![k] = p]
  PROVE  IsFiniteSet(KeysInUse)' /\ (Cardinality(KeysInUse) <= MaxSessions)'
<1>1. KeysInUse' = KeysInUse \cup {k}
  BY McpAssumptions DEF KeysInUse, TypeOK, SessionsTyped
<1>2. Cardinality(KeysInUse) \in Nat /\ Cardinality(KeysInUse) < MaxSessions
  <2>1. Cardinality(KeysInUse) \in Nat
    BY FS_CardinalityType
  <2>2. ~(Cardinality(KeysInUse) >= MaxSessions)
    BY AsManyAsKeys DEF RegistryFull
  <2>3. QED
    BY <2>1, <2>2, McpAssumptions
<1>3. /\ IsFiniteSet(KeysInUse \cup {k})
      /\ Cardinality(KeysInUse \cup {k}) = IF k \in KeysInUse THEN Cardinality(KeysInUse)
                                           ELSE Cardinality(KeysInUse) + 1
  BY FS_AddElement
<1>4. QED
  BY <1>1, <1>2, <1>3, McpAssumptions

LEMMA NoMoreKeys ==
  ASSUME TypeOK, IsFiniteSet(KeysInUse), KeysInUse' \subseteq KeysInUse
  PROVE  IsFiniteSet(KeysInUse)' /\ (Cardinality(KeysInUse) <= MaxSessions)'
<1>1. /\ IsFiniteSet(KeysInUse') /\ Cardinality(KeysInUse') <= Cardinality(KeysInUse)
      /\ Cardinality(KeysInUse') \in Nat /\ Cardinality(KeysInUse) \in Nat
  BY FS_Subset, FS_CardinalityType
<1>2. QED
  BY <1>1, McpAssumptions DEF TypeOK

(* What is left to show of a call that has done with its process, or does  *)
(* not ask it yet.                                                         *)
LEMMA Leaving ==
  ASSUME McpInv, NEW c \in Calls, UNCHANGED waiters,
         pc[c] \notin {"recheck", "wait"},
         pc'[c] \in {"replace", "lock", "remove", "finish"}, CallFits(c)', CallHealth(c)'
  PROVE  CallInv(c)'
<1>1. WaiterFits(c)
  BY DEF McpInv, CallInv
<1>2. WaiterFits(c)'
  BY <1>1 DEF WaiterFits
<1>3. IdFits(c)'
  BY DEF IdFits, Asking
<1>4. QED
  BY <1>2, <1>3 DEF CallInv

LEMMA LookupKeeps ==
  ASSUME McpInv, NEW c \in Calls, Lookup(c)
  PROVE  McpInv'
<1> DEFINE holder == registry[key[c]]
<1>1. /\ TypeOK /\ CallsTyped /\ ThreadsTyped /\ SessionsTyped /\ RegistryFits /\ IsFiniteSet(KeysInUse)
      /\ CallFits(c) /\ IdFits(c) /\ WaiterFits(c) /\ CallHealth(c)
      /\ \A p \in Calls : ProcessHealth(p)
      /\ \A d \in Calls : CallFits(d)
  BY DEF McpInv, TypeOK, CallInv, ProcessInv
<1>2. /\ pc[c] = "lookup" /\ key[c] \in Keys /\ victim[c] = None /\ result[c] = "none"
      /\ holder # None => holder \in published /\ holder \in Calls
  BY <1>1 DEF Lookup, CallFits, CallsTyped, SessionsTyped, RegistryFits, KeysInUse
<1>3. /\ UNCHANGED <<key, print, reqId, box, active, pending, cancelled, asked>>
      /\ UNCHANGED <<lock, child, broken, dispatcher, nextId, waiters, requests, stdout>>
      /\ UNCHANGED <<closing, troubles, published>> /\ UNCHANGED threads
  BY DEF Lookup, cancelVars, threads
<1>4. ASSUME /\ UNCHANGED <<registry, victim, spent>>
             /\ \/ /\ holder # None /\ pc' = [pc EXCEPT ![c] = "lock"]
                   /\ holds' = [holds EXCEPT ![c] = holder] /\ result' = result
                \/ /\ pc' = [pc EXCEPT ![c] = "finish"]
                   /\ result' = [result EXCEPT ![c] = "error"] /\ holds' = holds
                \/ pc' = [pc EXCEPT ![c] = "open"] /\ result' = result /\ holds' = holds
      PROVE  McpInv'
  <2>1. CallsTyped' /\ SessionsTyped'
    <3>1. pc' \in [Calls -> PC] /\ result' \in [Calls -> Results]
      BY <1>1, <1>4 DEF CallsTyped, PC, Results
    <3>2. holds' \in [Calls -> Calls \cup {None}]
      BY <1>1, <1>2, <1>4 DEF CallsTyped
    <3>3. QED
      BY <1>1, <1>3, <1>4, <3>1, <3>2 DEF CallsTyped, SessionsTyped
  <2>2. Quiet(c)
    BY <1>1, <1>2, <1>3, <1>4 DEF Quiet, CallsTyped, SessionsTyped
  <2>3. CallInv(c)'
    BY <1>1, <1>2, <1>3, <1>4 DEF CallsTyped, CallInv, CallFits, IdFits,
       WaiterFits, CallHealth, Asking,
       Initializing, Serving, Empty, Line
  <2>4. QED
    BY <2>1, <2>2, <2>3, QuietKeeps
<1>5. CASE /\ holder # None
           /\ registry' = [registry EXCEPT ![key[c]] = None]
           /\ victim' = [victim EXCEPT ![c] = holder]
           /\ spent' = spent \cup {holder}
           /\ pc' = [pc EXCEPT ![c] = "evict"] /\ UNCHANGED <<holds, result>>
  <2>1. ThreadsTyped' /\ Closes({})
    BY <1>1, <1>3, NothingCloses
  <2>2. CallsTyped' /\ SessionsTyped'
    BY <1>1, <1>2, <1>3, <1>5 DEF CallsTyped, SessionsTyped, PC
  <2>3. KeysInUse' \subseteq KeysInUse /\ \A k \in KeysInUse' : registry'[k] = registry[k]
    BY <1>1, <1>5 DEF KeysInUse, SessionsTyped
  <2>4. IsFiniteSet(KeysInUse)' /\ TypeOK'
    BY <1>1, <2>1, <2>2, <2>3, NoMoreKeys DEF TypeOK
  <2>5. RegistryFits'
    BY <1>1, <1>2, <1>3, <1>5, <2>3 DEF RegistryFits, CallsTyped
  <2>6. \A p \in Registered : p \in Registered' \/ p \in spent'
    BY <1>1, <1>2, <1>5 DEF Registered, SessionsTyped
  <2>7. Turn(c, {})
    BY <1>1, <1>2, <1>3, <1>5, <2>1, <2>6 DEF Turn, Closes, ProcessHealth,
       CallsTyped, SessionsTyped
  <2>8. CallInv(c)'
    BY <1>1, <1>2, <1>3, <1>5 DEF CallsTyped, CallInv, CallFits, IdFits,
       WaiterFits, CallHealth, Asking,
       Initializing, Serving, Empty, Line
  <2>9. QED
    BY <2>4, <2>5, <2>7, <2>8, TurnKeeps
<1>6. Reusable(holder, c) => holder # None
  BY DEF Reusable
<1>7. \/ Reusable(holder, c) /\ holds' = [holds EXCEPT ![c] = holder] /\ Goto(c, "lock")
         /\ UNCHANGED <<registry, victim, result, spent>>
      \/ /\ holder # None /\ registry' = [registry EXCEPT ![key[c]] = None]
         /\ victim' = [victim EXCEPT ![c] = holder] /\ spent' = spent \cup {holder}
         /\ Goto(c, "evict") /\ UNCHANGED <<holds, result>>
      \/ /\ result' = [result EXCEPT ![c] = "error"] /\ Goto(c, "finish")
         /\ UNCHANGED <<registry, holds, victim, spent>>
      \/ Goto(c, "open") /\ UNCHANGED <<registry, holds, victim, result, spent>>
  BY DEF Lookup
<1>8. CASE Reusable(holder, c) /\ holds' = [holds EXCEPT ![c] = holder] /\ Goto(c, "lock")
           /\ UNCHANGED <<registry, victim, result, spent>>
  BY <1>4, <1>6, <1>8 DEF Goto
<1>9. CASE /\ holder # None /\ registry' = [registry EXCEPT ![key[c]] = None]
           /\ victim' = [victim EXCEPT ![c] = holder] /\ spent' = spent \cup {holder}
           /\ Goto(c, "evict") /\ UNCHANGED <<holds, result>>
  BY <1>5, <1>9 DEF Goto
<1>10. CASE /\ result' = [result EXCEPT ![c] = "error"] /\ Goto(c, "finish")
            /\ UNCHANGED <<registry, holds, victim, spent>>
  BY <1>4, <1>10 DEF Goto
<1>11. CASE Goto(c, "open") /\ UNCHANGED <<registry, holds, victim, result, spent>>
  BY <1>4, <1>11 DEF Goto
<1>12. QED
  BY <1>7, <1>8, <1>9, <1>10, <1>11

(* Whoever closes a process under its free mutex, nobody waits for it.     *)
LEMMA NobodyServed ==
  ASSUME McpInv, NEW d \in Calls, NEW p \in published, lock[p] = None,
         Asking(d) \/ pc[d] = "publish"
  PROVE  holds[d] # p
<1>1. CallFits(d) /\ d # None
  BY McpAssumptions DEF McpInv, CallInv
<1>2. QED
  BY <1>1 DEF CallFits, Initializing, Serving

LEMMA CloseVictimKeeps ==
  ASSUME McpInv, NEW c \in Calls, CloseVictim(c)
  PROVE  McpInv'
<1> DEFINE v == victim[c]
<1>1. /\ TypeOK /\ CallsTyped /\ ThreadsTyped /\ SessionsTyped /\ RegistryFits /\ IsFiniteSet(KeysInUse)
      /\ CallFits(c) /\ IdFits(c) /\ WaiterFits(c) /\ CallHealth(c)
      /\ \A p \in Calls : ProcessHealth(p)
      /\ \A d \in Calls : CallFits(d)
  BY DEF McpInv, TypeOK, CallInv, ProcessInv
<1>2. /\ UNCHANGED <<key, print, holds, reqId, box, result, active, pending, cancelled, asked>>
      /\ UNCHANGED <<registry, lock, broken, nextId, waiters, closing, troubles, published, spent>>
      /\ Close({v}) /\ lock[v] = None /\ pc[c] \in {"evict", "replace"}
      /\ victim' = [victim EXCEPT ![c] = None]
      /\ pc' = [pc EXCEPT ![c] = IF pc[c] = "evict" THEN "open" ELSE "lock"]
  BY DEF CloseVictim, cancelVars, Goto
<1>3. ThreadsTyped' /\ Closes({v})
  BY <1>1, <1>2, CloseEffect
<1>4. CallsTyped' /\ SessionsTyped'
  BY <1>1, <1>2 DEF CallsTyped, SessionsTyped, PC
<1>5. TypeOK' /\ IsFiniteSet(KeysInUse)'
  BY <1>1, <1>2, <1>3, <1>4 DEF TypeOK, KeysInUse
<1>6. RegistryFits'
  BY <1>1, <1>2, McpAssumptions DEF RegistryFits, KeysInUse, CallsTyped
<1>7. ASSUME NEW d \in Calls, d # c, Asking(d) \/ pc[d] = "publish"  PROVE  holds[d] # v
  <2>1. CASE v \in published
    BY <1>2, <1>7, <2>1, NobodyServed
  <2>2. CASE v \notin published
    BY <1>1, <1>7, <2>2 DEF RegistryFits, CallFits, Initializing, Serving
  <2>3. QED
    BY <2>1, <2>2
<1>8. v \notin published \/ v \in spent
  BY <1>1, McpAssumptions DEF CallHealth, SessionsTyped
<1>9. Turn(c, {v})
  BY <1>1, <1>2, <1>3, <1>7, <1>8 DEF Turn, Closes, ProcessHealth, CallsTyped,
     SessionsTyped, Registered, CallFits
<1>10. CallInv(c)'
  BY <1>1, <1>2 DEF CallsTyped, CallInv, CallFits, IdFits, WaiterFits, CallHealth,
     Asking,
     Initializing, Serving, Empty, Line
<1>11. QED
  BY <1>2, <1>5, <1>6, <1>8, <1>9, <1>10, TurnKeeps

LEMMA OpenKeeps ==
  ASSUME McpInv, NEW c \in Calls, Open(c)
  PROVE  McpInv'
<1>1. /\ TypeOK /\ CallsTyped /\ ThreadsTyped /\ SessionsTyped /\ RegistryFits /\ IsFiniteSet(KeysInUse)
      /\ CallFits(c) /\ IdFits(c) /\ WaiterFits(c) /\ CallHealth(c)
      /\ \A p \in Calls : ProcessHealth(p) /\ SentFits(p)
      /\ \A d \in Calls : CallFits(d)
  BY DEF McpInv, TypeOK, CallInv, ProcessInv
<1>2. /\ pc[c] = "open" /\ c \notin published /\ victim[c] = None /\ result[c] = "none" /\ box[c] = Empty
      /\ UNCHANGED <<key, print, victim, box, active, pending, cancelled, asked>>
      /\ UNCHANGED <<registry, lock, broken, nextId, waiters, requests, stdout, closing, troubles,
                     published, spent>>
  BY <1>1 DEF Open, cancelVars, CallFits, WaiterFits
<1>3. CASE /\ \E t \in {"canceled", "error"} : result' = [result EXCEPT ![c] = t]
           /\ pc' = [pc EXCEPT ![c] = "finish"] /\ UNCHANGED <<holds, reqId, child, dispatcher>>
  <2>1. CallsTyped' /\ SessionsTyped'
    BY <1>1, <1>2, <1>3 DEF CallsTyped, SessionsTyped, PC, Results
  <2>2. Quiet(c)
    BY <1>1, <1>2, <1>3 DEF Quiet, CallsTyped, SessionsTyped, threads
  <2>3. CallInv(c)'
    BY <1>1, <1>2, <1>3 DEF CallsTyped, CallInv, CallFits, IdFits, WaiterFits,
       CallHealth, Asking,
       Initializing, Serving, Empty, Line
  <2>4. QED
    BY <2>1, <2>2, <2>3, QuietKeeps
<1>4. CASE /\ child' = [child EXCEPT ![c] = "running"]
           /\ dispatcher' = [dispatcher EXCEPT ![c] = "reading"]
           /\ holds' = [holds EXCEPT ![c] = c] /\ reqId' = [reqId EXCEPT ![c] = 1]
           /\ pc' = [pc EXCEPT ![c] = "check"] /\ UNCHANGED result
  <2>1. CallsTyped' /\ SessionsTyped' /\ ThreadsTyped'
    BY <1>1, <1>2, <1>4 DEF CallsTyped, SessionsTyped, ThreadsTyped, PC, Children,
       Dispatchers
  <2>2. TypeOK' /\ IsFiniteSet(KeysInUse)' /\ RegistryFits'
    BY <1>1, <1>2, <1>4, <2>1 DEF TypeOK, KeysInUse, RegistryFits, CallsTyped
  <2>3. \A p \in Calls : Lines(p)' = Lines(p) /\ Sent(p)' = Sent(p)
    BY <1>2 DEF Lines, Sent
  <2>4. Turn(c, {})
    BY <1>1, <1>2, <1>4, <2>3 DEF Turn, ProcessHealth, CallsTyped, SessionsTyped,
       ThreadsTyped, Registered
  <2>5. IdFits(c)'
    BY <1>1, <1>2, <1>4, <2>3 DEF IdFits, SentFits, CallsTyped, SessionsTyped
  <2>6. CallFits(c)' /\ CallHealth(c)'
    BY <1>1, <1>2, <1>4 DEF CallsTyped, CallFits, CallHealth, Asking, Initializing,
       Serving
  <2>7. WaiterFits(c)'
    BY <1>1, <1>2, <1>4 DEF CallsTyped, WaiterFits, Empty, Line
  <2>8. QED
    BY <2>2, <2>4, <2>5, <2>6, <2>7, TurnKeeps DEF CallInv
<1>5. QED
  BY <1>3, <1>4 DEF Open, Goto

LEMMA PublishKeeps ==
  ASSUME McpInv, NEW c \in Calls, Publish(c)
  PROVE  McpInv'
<1> DEFINE holder == registry[key[c]]
<1>1. /\ TypeOK /\ CallsTyped /\ ThreadsTyped /\ SessionsTyped /\ RegistryFits /\ IsFiniteSet(KeysInUse)
      /\ CallFits(c) /\ CallHealth(c)
      /\ \A p \in Calls : ProcessHealth(p)
      /\ \A d \in Calls : CallFits(d)
  BY DEF McpInv, TypeOK, CallInv, ProcessInv
<1>2. /\ pc[c] = "publish" /\ key[c] \in Keys /\ victim[c] = None /\ result[c] = "none"
      /\ holds[c] = c /\ c \notin published /\ c # None /\ (child[c] = "running" \/ c \in spent)
      /\ holder # None => holder \in published /\ holder \in Calls
  BY <1>1, McpAssumptions DEF Publish, CallFits, CallHealth, CallsTyped,
     SessionsTyped, RegistryFits, KeysInUse
<1>3. /\ UNCHANGED <<key, print, reqId, box, active, pending, cancelled, asked>>
      /\ UNCHANGED <<lock, broken, nextId, waiters, closing, troubles>>
  BY DEF Publish, cancelVars
<1>4. \/ /\ holder # None /\ holds' = [holds EXCEPT ![c] = holder] /\ victim' = [victim EXCEPT ![c] = c]
         /\ Goto(c, "replace") /\ UNCHANGED <<registry, published, spent, result, threads>>
      \/ /\ holder # None /\ registry' = [registry EXCEPT ![key[c]] = c]
         /\ victim' = [victim EXCEPT ![c] = holder]
         /\ published' = published \cup {c} /\ spent' = spent \cup {holder}
         /\ Goto(c, "replace") /\ UNCHANGED <<holds, result, threads>>
      \/ /\ result' = [result EXCEPT ![c] = "error"] /\ Release(c, registry) /\ Goto(c, "finish")
         /\ UNCHANGED <<registry, victim, published, spent>>
      \/ /\ holder = None /\ ~RegistryFull /\ registry' = [registry EXCEPT ![key[c]] = c]
         /\ published' = published \cup {c} /\ Goto(c, "lock")
         /\ UNCHANGED <<holds, victim, spent, result, threads>>
  BY DEF Publish, Reusable
<1>5. CASE /\ holder # None /\ holds' = [holds EXCEPT ![c] = holder] /\ victim' = [victim EXCEPT ![c] = c]
           /\ Goto(c, "replace") /\ UNCHANGED <<registry, published, spent, result, threads>>
  <2>1. UNCHANGED <<registry, published, spent, result>> /\ UNCHANGED threads
        /\ pc' = [pc EXCEPT ![c] = "replace"]
    BY <1>5 DEF Goto
  <2>2. ThreadsTyped' /\ Closes({})
    BY <1>1, <2>1, NothingCloses
  <2>3. CallsTyped' /\ SessionsTyped'
    BY <1>1, <1>2, <1>3, <1>5, <2>1 DEF CallsTyped, SessionsTyped, PC
  <2>4. TypeOK' /\ IsFiniteSet(KeysInUse)'
    BY <1>1, <2>1, <2>2, <2>3 DEF TypeOK, KeysInUse
  <2>5. RegistryFits'
    BY <1>1, <1>2, <1>3, <1>5, <2>1 DEF RegistryFits, CallsTyped, KeysInUse
  <2>6. Turn(c, {})
    BY <1>1, <1>2, <1>3, <1>5, <2>1, <2>2 DEF Turn, Closes, ProcessHealth,
       CallsTyped, SessionsTyped, Registered
  <2>7. CallInv(c)'
    BY <1>1, <1>2, <1>3, <1>5, <2>1, Leaving DEF CallsTyped, CallFits, CallHealth,
       Asking, Initializing, Serving
  <2>8. QED
    BY <2>4, <2>5, <2>6, <2>7, TurnKeeps
<1>6. CASE /\ holder # None /\ registry' = [registry EXCEPT ![key[c]] = c]
           /\ victim' = [victim EXCEPT ![c] = holder]
           /\ published' = published \cup {c} /\ spent' = spent \cup {holder}
           /\ Goto(c, "replace") /\ UNCHANGED <<holds, result, threads>>
  <2>1. UNCHANGED <<holds, result>> /\ UNCHANGED threads /\ pc' = [pc EXCEPT ![c] = "replace"]
    BY <1>6 DEF Goto
  <2>2. ThreadsTyped' /\ Closes({})
    BY <1>1, <2>1, NothingCloses
  <2>3. CallsTyped' /\ SessionsTyped'
    BY <1>1, <1>2, <1>3, <1>6, <2>1 DEF CallsTyped, SessionsTyped, PC
  <2>4. KeysInUse' \subseteq KeysInUse
    BY <1>1, <1>6 DEF KeysInUse, SessionsTyped
  <2>5. IsFiniteSet(KeysInUse)' /\ TypeOK'
    BY <1>1, <2>2, <2>3, <2>4, NoMoreKeys DEF TypeOK
  <2>6. RegistryFits'
    BY <1>1, <1>2, <1>3, <1>6, <2>1 DEF RegistryFits, CallsTyped, SessionsTyped,
       KeysInUse
  <2>7. c \in Registered' /\ \A p \in Registered : p \in Registered' \/ p \in spent'
    BY <1>1, <1>2, <1>6 DEF Registered, SessionsTyped
  <2>8. Turn(c, {})
    BY <1>1, <1>2, <1>3, <1>6, <2>1, <2>2, <2>7 DEF Turn, Closes, ProcessHealth,
       CallsTyped, SessionsTyped
  <2>9. CallInv(c)'
    BY <1>1, <1>2, <1>3, <1>6, <2>1, Leaving DEF CallsTyped, CallFits, CallHealth,
       Asking, Initializing, Serving
  <2>10. QED
    BY <2>5, <2>6, <2>8, <2>9, TurnKeeps
<1>7. CASE /\ result' = [result EXCEPT ![c] = "error"] /\ Release(c, registry) /\ Goto(c, "finish")
           /\ UNCHANGED <<registry, victim, published, spent>>
  <2>1. ThreadsTyped' /\ holds' = [holds EXCEPT ![c] = None]
    BY <1>1, <1>7, ReleaseEffect
  <2>2. PICK ps : Dropped(c, ps, registry)
    BY <1>1, <1>7, ReleaseEffect
  <2>3. pc' = [pc EXCEPT ![c] = "finish"] /\ ps \subseteq {c} /\ Closes(ps)
        /\ \A d \in Calls : d # c => holds[d] \notin ps
    BY <1>2, <1>7, <2>2 DEF Goto, Dropped
  <2>4. CallsTyped' /\ SessionsTyped'
    BY <1>1, <1>2, <1>3, <1>7, <2>1, <2>3 DEF CallsTyped, SessionsTyped, PC, Results
  <2>5. TypeOK' /\ IsFiniteSet(KeysInUse)'
    BY <1>1, <1>7, <2>1, <2>4 DEF TypeOK, KeysInUse
  <2>6. RegistryFits'
    BY <1>1, <1>2, <1>3, <1>7, <2>1 DEF RegistryFits, CallsTyped, KeysInUse
  <2>7. Turn(c, ps)
    BY <1>1, <1>2, <1>3, <1>7, <2>1, <2>3 DEF Turn, Closes, ProcessHealth,
       CallsTyped, SessionsTyped, Registered
  <2>8. CallInv(c)'
    BY <1>1, <1>2, <1>3, <1>7, <2>1, <2>3, Leaving DEF CallsTyped, CallFits,
       CallHealth, Asking, Initializing, Serving
  <2>9. QED
    BY <1>2, <1>7, <2>3, <2>5, <2>6, <2>7, <2>8, TurnKeeps
<1>8. CASE /\ holder = None /\ ~RegistryFull /\ registry' = [registry EXCEPT ![key[c]] = c]
           /\ published' = published \cup {c} /\ Goto(c, "lock")
           /\ UNCHANGED <<holds, victim, spent, result, threads>>
  <2>1. UNCHANGED <<holds, victim, spent, result>> /\ UNCHANGED threads /\ pc' = [pc EXCEPT ![c] = "lock"]
    BY <1>8 DEF Goto
  <2>2. ThreadsTyped' /\ Closes({})
    BY <1>1, <2>1, NothingCloses
  <2>3. CallsTyped' /\ SessionsTyped'
    BY <1>1, <1>2, <1>3, <1>8, <2>1 DEF CallsTyped, SessionsTyped, PC
  <2>4. IsFiniteSet(KeysInUse)' /\ TypeOK'
    BY <1>1, <1>2, <1>8, <2>2, <2>3, OneMoreKey DEF TypeOK
  <2>5. RegistryFits'
    BY <1>1, <1>2, <1>3, <1>8, <2>1 DEF RegistryFits, CallsTyped, SessionsTyped,
       KeysInUse
  <2>6. c \in Registered' /\ \A p \in Registered : p \in Registered'
    BY <1>1, <1>2, <1>8 DEF Registered, SessionsTyped
  <2>7. Turn(c, {})
    BY <1>1, <1>2, <1>3, <1>8, <2>1, <2>2, <2>6 DEF Turn, Closes, ProcessHealth,
       CallsTyped, SessionsTyped
  <2>8. CallInv(c)'
    BY <1>1, <1>2, <1>3, <1>8, <2>1, Leaving DEF CallsTyped, CallFits, CallHealth,
       Asking, Initializing, Serving
  <2>9. QED
    BY <2>4, <2>5, <2>7, <2>8, TurnKeeps
<1>9. QED
  BY <1>4, <1>5, <1>6, <1>7, <1>8

(* The mutex is released; the process stays in the registry or the call is *)
(* about to take it from there.                                            *)
LEMMA UnlockKeeps ==
  ASSUME McpInv, NEW c \in Calls, Unlock(c)
  PROVE  McpInv'
<1> DEFINE p == holds[c]
<1>1. /\ TypeOK /\ CallsTyped /\ ThreadsTyped /\ SessionsTyped /\ RegistryFits /\ IsFiniteSet(KeysInUse)
      /\ CallFits(c) /\ CallHealth(c)
      /\ \A q \in Calls : ProcessHealth(q)
      /\ \A d \in Calls : CallFits(d)
  BY DEF McpInv, TypeOK, CallInv, ProcessInv
<1>2. /\ pc[c] = "unlock" /\ victim[c] = None /\ p \in published /\ p \in Calls /\ lock[p] = c
      /\ UNCHANGED <<key, print, victim, reqId, box, result, active, pending, cancelled, asked>>
      /\ UNCHANGED <<registry, broken, nextId, waiters, closing, troubles, published, spent>>
      /\ lock' = [lock EXCEPT ![p] = None]
  BY <1>1 DEF Unlock, CallFits, cancelVars, SessionsTyped
<1>3. \/ Release(c, registry) /\ Goto(c, "finish")
      \/ /\ child[p] # "running" \/ result[c] \notin {"answer", "canceled"}
         /\ Goto(c, "remove") /\ UNCHANGED <<holds, threads>>
  BY DEF Unlock, PersistentResultIsReusable
<1>4. CASE Release(c, registry) /\ Goto(c, "finish")
  <2>1. ThreadsTyped' /\ holds' = [holds EXCEPT ![c] = None]
    BY <1>1, <1>4, ReleaseEffect
  <2>2. PICK ps : Dropped(c, ps, registry)
    BY <1>1, <1>4, ReleaseEffect
  <2>3. /\ pc' = [pc EXCEPT ![c] = "finish"] /\ ps \subseteq {p} /\ Closes(ps)
        /\ \A d \in Calls : d # c => holds[d] \notin ps
        /\ \A q \in ps : q \notin Registered
    BY <1>2, <1>4, <2>2 DEF Goto, Dropped, Registered
  <2>4. CallsTyped' /\ SessionsTyped'
    BY <1>1, <1>2, <2>1, <2>3 DEF CallsTyped, SessionsTyped, PC
  <2>5. TypeOK' /\ IsFiniteSet(KeysInUse)'
    BY <1>1, <1>2, <2>1, <2>4 DEF TypeOK, KeysInUse
  <2>6. RegistryFits'
    BY <1>1, <1>2, <2>1, McpAssumptions DEF RegistryFits, CallsTyped, KeysInUse
  <2>7. \A q \in ps : q \in spent
    BY <1>1, <1>2, <2>3 DEF ProcessHealth
  <2>8. Turn(c, ps)
    BY <1>1, <1>2, <2>1, <2>3, <2>7 DEF Turn, Closes, ProcessHealth, CallsTyped,
       SessionsTyped, Registered
  <2>9. CallInv(c)'
    BY <1>1, <1>2, <2>1, <2>3, Leaving DEF CallsTyped, CallFits, CallHealth,
       Asking, Initializing, Serving
  <2>10. QED
    BY <1>2, <2>5, <2>6, <2>7, <2>8, <2>9, TurnKeeps
<1>5. CASE /\ child[p] # "running" \/ result[c] \notin {"answer", "canceled"}
           /\ Goto(c, "remove") /\ UNCHANGED <<holds, threads>>
  <2>1. holds' = holds /\ UNCHANGED threads /\ pc' = [pc EXCEPT ![c] = "remove"]
    BY <1>5 DEF Goto
  <2>2. p \in spent
    BY <1>1, <1>2, <1>5 DEF CallHealth, ProcessHealth
  <2>3. CallsTyped' /\ SessionsTyped'
    BY <1>1, <1>2, <2>1 DEF CallsTyped, SessionsTyped, PC
  <2>4. Quiet(c)
    BY <1>1, <1>2, <2>1, <2>3 DEF Quiet, CallsTyped, SessionsTyped
  <2>5. CallInv(c)'
    BY <1>1, <1>2, <2>1, <2>2, Leaving DEF CallsTyped, CallFits, CallHealth,
       Asking, Initializing, Serving
  <2>6. QED
    BY <2>3, <2>4, <2>5, QuietKeeps
<1>6. QED
  BY <1>3, <1>4, <1>5

LEMMA RemoveKeeps ==
  ASSUME McpInv, NEW c \in Calls, Remove(c)
  PROVE  McpInv'
<1> DEFINE p == holds[c]
<1>1. /\ TypeOK /\ CallsTyped /\ ThreadsTyped /\ SessionsTyped /\ RegistryFits /\ IsFiniteSet(KeysInUse)
      /\ CallFits(c) /\ CallHealth(c)
      /\ \A q \in Calls : ProcessHealth(q)
      /\ \A d \in Calls : CallFits(d)
  BY DEF McpInv, TypeOK, CallInv, ProcessInv
<1>2. /\ pc[c] = "remove" /\ victim[c] = None /\ p \in spent /\ p \in Calls /\ key[c] \in Keys
      /\ UNCHANGED <<key, print, victim, reqId, box, result, active, pending, cancelled, asked>>
      /\ UNCHANGED <<lock, broken, nextId, waiters, closing, troubles, published, spent>>
      /\ registry' = Removed(c) /\ Release(c, registry') /\ pc' = [pc EXCEPT ![c] = "finish"]
  BY <1>1 DEF Remove, CallFits, CallHealth, cancelVars, SessionsTyped, Goto, CallsTyped
<1>3. /\ registry' \in [Keys -> Calls \cup {None}] /\ KeysInUse' \subseteq KeysInUse
      /\ \A k \in KeysInUse' : registry'[k] = registry[k]
      /\ \A q \in Registered : q \in Registered' \/ q = p
  BY <1>1, <1>2 DEF Removed, SessionsTyped, KeysInUse, Registered
<1>4. ThreadsTyped' /\ holds' = [holds EXCEPT ![c] = None]
  BY <1>1, <1>2, ReleaseEffect
<1>5. PICK ps : Dropped(c, ps, registry')
  BY <1>1, <1>2, ReleaseEffect
<1>6. /\ ps \subseteq {p} /\ Closes(ps) /\ \A d \in Calls : d # c => holds[d] \notin ps
  BY <1>5 DEF Dropped
<1>7. CallsTyped' /\ SessionsTyped'
  BY <1>1, <1>2, <1>3, <1>4 DEF CallsTyped, SessionsTyped, PC
<1>8. TypeOK' /\ IsFiniteSet(KeysInUse)'
  BY <1>1, <1>3, <1>4, <1>7, NoMoreKeys DEF TypeOK
<1>9. RegistryFits'
  BY <1>1, <1>2, <1>3, <1>4, McpAssumptions DEF RegistryFits, CallsTyped
<1>10. Turn(c, ps)
  BY <1>1, <1>2, <1>3, <1>4, <1>6 DEF Turn, Closes, ProcessHealth, CallsTyped,
     SessionsTyped
<1>11. CallInv(c)'
  BY <1>1, <1>2, <1>4, Leaving DEF CallsTyped, CallFits, CallHealth, Asking,
     Initializing, Serving
<1>12. QED
  BY <1>2, <1>6, <1>8, <1>9, <1>10, <1>11, TurnKeeps

-----------------------------------------------------------------------------
(* The close command.                                                      *)
LEMMA CloseKeyKeeps ==
  ASSUME McpInv, NEW k \in Keys, CloseKey(k)
  PROVE  McpInv'
<1>0. PICK c : c = registry[k]
  OBVIOUS
<1>1. /\ TypeOK /\ CallsTyped /\ ThreadsTyped /\ SessionsTyped /\ RegistryFits /\ IsFiniteSet(KeysInUse)
      /\ \A q \in Calls : ProcessHealth(q) /\ CallInv(q)
  BY DEF McpInv, TypeOK, ProcessInv
<1>2. /\ c # None /\ c \in Calls /\ c \in published
      /\ UNCHANGED <<pc, key, print, holds, victim, reqId, box, result, active, pending, cancelled, asked>>
      /\ UNCHANGED <<lock, child, broken, dispatcher, nextId, waiters, requests, stdout, published>>
      /\ UNCHANGED threads
      /\ registry' = [registry EXCEPT ![k] = None] /\ closing' = closing \cup {c}
      /\ spent' = spent \cup {c} /\ troubles < MaxTroubles /\ troubles' = troubles + 1
  BY <1>0, <1>1 DEF CloseKey, Disturbed, callVars, cancelVars, threads,
     SessionsTyped, RegistryFits, KeysInUse
<1>3. ThreadsTyped' /\ Closes({})
  BY <1>1, <1>2, NothingCloses
<1>4. CallsTyped' /\ SessionsTyped'
  <2>1. troubles' \in 0..MaxTroubles
    BY <1>1, <1>2, McpAssumptions DEF SessionsTyped
  <2>2. QED
    BY <1>1, <1>2, <2>1 DEF CallsTyped, SessionsTyped
<1>5. KeysInUse' \subseteq KeysInUse /\ \A l \in KeysInUse' : registry'[l] = registry[l]
  BY <1>1, <1>2 DEF KeysInUse, SessionsTyped
<1>6. TypeOK' /\ IsFiniteSet(KeysInUse)'
  BY <1>1, <1>3, <1>4, <1>5, NoMoreKeys DEF TypeOK
<1>7. RegistryFits'
  BY <1>1, <1>2, <1>5 DEF RegistryFits
<1>8. \A p \in Registered : p \in Registered' \/ p = c
  BY <1>0, <1>1, <1>2 DEF Registered, SessionsTyped
<1>9. Turn(c, {})
  BY <1>1, <1>2, <1>3, <1>8 DEF Turn, Closes, ProcessHealth, SessionsTyped
<1>10. CallInv(c)'
  <2>1. CallFits(c)' /\ WaiterFits(c)' /\ CallHealth(c)'
    BY <1>1, <1>2 DEF CallInv, CallFits, WaiterFits, CallHealth, Asking,
       Initializing, Serving, Empty, Line
  <2>2. IdFits(c)'
    BY <1>1, <1>2 DEF CallInv, IdFits, Asking, Sent, Lines
  <2>3. QED
    BY <2>1, <2>2 DEF CallInv
<1>11. QED
  BY <1>2, <1>6, <1>7, <1>9, <1>10, TurnKeeps

LEMMA CloseProcessKeeps ==
  ASSUME McpInv, NEW p \in Calls, CloseProcess(p)
  PROVE  McpInv'
<1>1. /\ TypeOK /\ CallsTyped /\ ThreadsTyped /\ SessionsTyped /\ RegistryFits /\ IsFiniteSet(KeysInUse)
      /\ \A q \in Calls : ProcessHealth(q) /\ CallInv(q)
      /\ CallFits(p) /\ IdFits(p) /\ WaiterFits(p) /\ CallHealth(p)
  BY DEF McpInv, TypeOK, ProcessInv, CallInv
<1>2. /\ p \in closing /\ p \in published /\ p \in spent /\ lock[p] = None
      /\ UNCHANGED <<pc, key, print, holds, victim, reqId, box, result, active, pending, cancelled, asked>>
      /\ UNCHANGED <<registry, lock, broken, nextId, waiters, troubles, published, spent>>
      /\ Close({p}) /\ closing' = closing \ {p}
  BY <1>1 DEF CloseProcess, callVars, cancelVars, RegistryFits, ProcessHealth
<1>3. ThreadsTyped' /\ Closes({p})
  BY <1>1, <1>2, CloseEffect
<1>4. CallsTyped' /\ SessionsTyped'
  BY <1>1, <1>2 DEF CallsTyped, SessionsTyped
<1>5. TypeOK' /\ IsFiniteSet(KeysInUse)' /\ RegistryFits'
  BY <1>1, <1>2, <1>3, <1>4 DEF TypeOK, KeysInUse, RegistryFits
<1>6. \A d \in Calls : Asking(d) \/ pc[d] = "publish" => holds[d] # p
  BY <1>2, NobodyServed
<1>7. Turn(p, {p})
  BY <1>1, <1>2, <1>3, <1>6 DEF Turn, Closes, ProcessHealth, SessionsTyped,
     Registered, Asking
<1>8. CallInv(p)'
  <2>1. CallFits(p)' /\ WaiterFits(p)'
    BY <1>1, <1>2 DEF CallFits, WaiterFits, Asking, Initializing, Serving, Empty, Line
  <2>2. CallHealth(p)'
    BY <1>1, <1>2 DEF CallHealth
  <2>3. IdFits(p)'
    <3>1. Asking(p) => holds[p] \in Calls
      BY <1>1 DEF CallFits, Initializing, Serving, SessionsTyped
    <3>2. \A q \in Calls : Sent(q)' \subseteq Sent(q)
      BY <1>3 DEF Closes
    <3>3. QED
      BY <1>1, <1>2, <3>1, <3>2 DEF IdFits, Asking
  <2>4. QED
    BY <2>1, <2>2, <2>3 DEF CallInv
<1>9. QED
  BY <1>2, <1>5, <1>7, <1>8, TurnKeeps

-----------------------------------------------------------------------------
(* What a process and its dispatcher do.                                   *)
LEMMA HeadAndTail ==
  ASSUME NEW S, NEW s \in Seq(S), s # <<>>
  PROVE  /\ Head(s) \in {s[n] : n \in 1..Len(s)} /\ Tail(s) \in Seq(S)
         /\ {Tail(s)[n] : n \in 1..Len(Tail(s))} \subseteq {s[n] : n \in 1..Len(s)}
OBVIOUS

(* What is on a channel, and one line more.                                *)
LinesOf(s) == {s[n] : n \in 1..Len(s)}

LEMMA OneMoreLine ==
  ASSUME NEW S, NEW s, s \in Seq(S), NEW e, e \in S
  PROVE  Append(s, e) \in Seq(S) /\ LinesOf(Append(s, e)) = LinesOf(s) \cup {e}
BY DEF LinesOf

(* A step of a process or of its dispatcher: it changes channels, waiters  *)
(* and what is under way, and makes no process healthier.                  *)
Output ==
    /\ UNCHANGED <<pc, key, print, holds, victim, reqId, result, registry, lock>>
    /\ UNCHANGED <<nextId, closing, published>>
    /\ spent \subseteq spent' /\ broken \subseteq broken' /\ broken' \subseteq spent'
    /\ \A q \in Calls :
          /\ Sent(q)' \subseteq Sent(q)
          /\ Garbage \in Lines(q)' => Garbage \in Lines(q) \/ q \in spent'
          /\ child'[q] = child[q] \/ (q \in spent' /\ child[q] # "killed")
    /\ \A c \in Calls : result[c] = "answer" => box'[c] = box[c]

LEMMA OutputKeeps ==
  ASSUME McpInv, Output, CallsTyped', SessionsTyped', ThreadsTyped', NobodyWaitsInVain',
         \A c \in Calls : WaiterFits(c)' /\ DispatcherFits(c)'
  PROVE  McpInv'
<1>1. /\ TypeOK /\ CallsTyped /\ ThreadsTyped /\ SessionsTyped /\ RegistryFits /\ IsFiniteSet(KeysInUse)
      /\ OwnAnswer
      /\ \A c \in Calls : ProcessInv(c) /\ CallFits(c) /\ IdFits(c) /\ CallHealth(c)
  BY DEF McpInv, TypeOK, CallInv
<1>2. /\ UNCHANGED <<pc, key, print, holds, victim, reqId, result, registry, lock>>
      /\ UNCHANGED <<nextId, closing, published>>
  BY DEF Output
<1>3. TypeOK' /\ IsFiniteSet(KeysInUse)' /\ RegistryFits'
  BY <1>1, <1>2 DEF TypeOK, KeysInUse, RegistryFits
<1>4. ASSUME NEW c \in Calls  PROVE  CallInv(c)'
  <2>1. CallFits(c)'
    BY <1>1, <1>2 DEF CallFits, Asking, Initializing, Serving
  <2>2. CallHealth(c)'
    BY <1>1, <1>2 DEF CallHealth, Output
  <2>3. IdFits(c)'
    <3>1. Asking(c) => holds[c] \in Calls
      BY <1>1 DEF CallFits, Initializing, Serving, SessionsTyped
    <3>2. \A q \in Calls : Sent(q)' \subseteq Sent(q)
      BY DEF Output
    <3>3. QED
      BY <1>1, <1>2, <3>1, <3>2 DEF IdFits, Asking
  <2>4. QED
    BY <2>1, <2>2, <2>3 DEF CallInv
<1>5. ASSUME NEW p \in Calls  PROVE  ProcessInv(p)'
  <2>1. SentFits(p)'
    BY <1>1, <1>2 DEF ProcessInv, SentFits, Output
  <2>2. ProcessHealth(p)'
    <3>1. p \in broken' \cup closing' => p \in spent'
      BY <1>1, <1>2 DEF ProcessInv, ProcessHealth, Output
    <3>2. child'[p] = "exited" \/ Garbage \in Lines(p)' => p \in spent'
      BY <1>1 DEF ProcessInv, ProcessHealth, Output
    <3>3. p \in published' \ spent' => p \in Registered' /\ child'[p] = "running"
      BY <1>1, <1>2 DEF ProcessInv, ProcessHealth, Output, Registered
    <3>4. QED
      BY <3>1, <3>2, <3>3 DEF ProcessHealth, Garbage, Line
  <2>3. QED
    BY <2>1, <2>2 DEF ProcessInv
<1>6. OwnAnswer'
  BY <1>1, <1>2 DEF OwnAnswer, Output
<1>7. QED
  BY <1>3, <1>4, <1>5, <1>6 DEF McpInv

LEMMA ReplyEffect ==
  ASSUME ThreadsTyped, NEW p \in Calls, NEW r \in requests[p], NEW kind \in {"answer", "noResult"},
         Reply(p, r, kind)
  PROVE  /\ requests' \in [Calls -> SUBSET (Nat \X Calls)]
         /\ stdout' \in [Calls -> Seq(Responses \cup {Garbage})]
         /\ \A q \in Calls : Sent(q)' \subseteq Sent(q)
         /\ \A q \in Calls : Garbage \in Lines(q)' => Garbage \in Lines(q)
<1> DEFINE line == Line(r[1], r[2], kind)
<1>1. r \in Nat \X Calls /\ r = <<r[1], r[2]>> /\ r[1] \in Nat /\ r[2] \in Calls
  BY DEF ThreadsTyped
<1>2. line \in Responses /\ line # Garbage /\ line.id = r[1] /\ line.from = r[2]
  BY <1>1 DEF Line, Responses, Garbage
<1>3. /\ requests' = [requests EXCEPT ![p] = requests[p] \ {r}]
      /\ stdout' = [stdout EXCEPT ![p] = Append(stdout[p], line)]
  BY DEF Reply
<1>4. /\ Append(stdout[p], line) \in Seq(Responses \cup {Garbage})
      /\ {Append(stdout[p], line)[n] : n \in 1..Len(Append(stdout[p], line))} = Lines(p) \cup {line}
  <2>1. stdout[p] \in Seq(Responses \cup {Garbage}) /\ line \in Responses \cup {Garbage}
    BY <1>2 DEF ThreadsTyped
  <2> HIDE DEF line
  <2>2. /\ Append(stdout[p], line) \in Seq(Responses \cup {Garbage})
        /\ LinesOf(Append(stdout[p], line)) = LinesOf(stdout[p]) \cup {line}
    BY <2>1, OneMoreLine
  <2>3. QED
    BY <2>2 DEF LinesOf, Lines
<1>5. /\ requests' \in [Calls -> SUBSET (Nat \X Calls)]
      /\ stdout' \in [Calls -> Seq(Responses \cup {Garbage})]
  BY <1>3, <1>4 DEF ThreadsTyped
<1>6. ASSUME NEW q \in Calls
      PROVE  Lines(q)' = IF q = p THEN Lines(q) \cup {line} ELSE Lines(q)
  <2>1. stdout'[q] = IF q = p THEN Append(stdout[p], line) ELSE stdout[q]
    BY <1>3 DEF ThreadsTyped
  <2>2. QED
    BY <1>4, <2>1 DEF Lines
<1>7. ASSUME NEW q \in Calls  PROVE  Sent(q)' \subseteq Sent(q)
  <2>1. requests'[q] \subseteq requests[q]
    BY <1>3 DEF ThreadsTyped
  <2>2. <<line.id, line.from>> \in requests[p]
    BY <1>1, <1>2
  <2>3. QED
    BY <1>6, <2>1, <2>2 DEF Sent
<1>8. QED
  BY <1>2, <1>5, <1>6, <1>7

(* The channels are as they were, and so is what the calls find in them.   *)
LEMMA SameChannels ==
  ASSUME McpInv, UNCHANGED <<pc, holds, reqId, box, waiters, dispatcher, broken>>,
         \A q \in Calls : child[q] = "killed" => child'[q] = "killed"
  PROVE  NobodyWaitsInVain' /\ \A c \in Calls : WaiterFits(c)' /\ DispatcherFits(c)'
<1>1. NobodyWaitsInVain /\ \A c \in Calls : WaiterFits(c) /\ DispatcherFits(c)
  BY DEF McpInv, CallInv, ProcessInv
<1>2. UNCHANGED <<pc, holds, reqId, box, waiters, dispatcher, broken>>
  OBVIOUS
<1>3. NobodyWaitsInVain'
  BY <1>1, <1>2 DEF NobodyWaitsInVain, Empty, Line
<1>4. ASSUME NEW c \in Calls  PROVE  WaiterFits(c)'
  BY <1>1, <1>2 DEF WaiterFits, Empty, Line
<1>5. ASSUME NEW p \in Calls  PROVE  DispatcherFits(p)'
  BY <1>1, <1>2 DEF DispatcherFits
<1>6. QED
  BY <1>3, <1>4, <1>5

LEMMA ServerKeeps ==
  ASSUME McpInv, NEW p \in Calls, Answer(p) \/ Trouble(p)
  PROVE  McpInv'
<1>1. /\ CallsTyped /\ ThreadsTyped /\ SessionsTyped /\ \A q \in Calls : ProcessHealth(q)
  BY DEF McpInv, TypeOK, ProcessInv
<1>2. ASSUME Answer(p)  PROVE  McpInv'
  <2>1. /\ UNCHANGED <<pc, key, print, holds, victim, reqId, box, result, active, pending, cancelled, asked>>
        /\ UNCHANGED <<registry, lock, child, broken, dispatcher, nextId, waiters, closing, troubles>>
        /\ UNCHANGED <<published, spent>>
    BY <1>2 DEF Answer, callVars, cancelVars
  <2>2. PICK r \in requests[p] : Reply(p, r, "answer")
    BY <1>2 DEF Answer
  <2>3. CallsTyped' /\ SessionsTyped' /\ ThreadsTyped'
    BY <1>1, <2>1, <2>2, ReplyEffect DEF CallsTyped, SessionsTyped, ThreadsTyped
  <2>4. Output
    BY <1>1, <2>1, <2>2, ReplyEffect DEF Output, ProcessHealth, SessionsTyped
  <2>5. NobodyWaitsInVain' /\ \A c \in Calls : WaiterFits(c)' /\ DispatcherFits(c)'
    BY <2>1, SameChannels
  <2>6. QED
    BY <2>3, <2>4, <2>5, OutputKeeps
<1>3. ASSUME Trouble(p)  PROVE  McpInv'
  <2>1. /\ UNCHANGED <<pc, key, print, holds, victim, reqId, box, result, active, pending, cancelled, asked>>
        /\ UNCHANGED <<registry, lock, broken, dispatcher, nextId, waiters, closing, published>>
        /\ child[p] = "running" /\ spent' = spent \cup {p}
        /\ troubles < MaxTroubles /\ troubles' = troubles + 1
    BY <1>3 DEF Trouble, Disturbed, callVars, cancelVars
  <2>2. /\ child' \in [Calls -> Children] /\ requests' \in [Calls -> SUBSET (Nat \X Calls)]
        /\ stdout' \in [Calls -> Seq(Responses \cup {Garbage})]
        /\ \A q \in Calls : /\ Sent(q)' \subseteq Sent(q)
                            /\ Garbage \in Lines(q)' => Garbage \in Lines(q) \/ q = p
                            /\ child'[q] = child[q] \/ q = p
    <3>1. CASE child' = [child EXCEPT ![p] = "exited"] /\ UNCHANGED <<stdout, requests>>
      BY <1>1, <3>1 DEF ThreadsTyped, Children, Sent, Lines
    <3>2. CASE stdout' = [stdout EXCEPT ![p] = Append(@, Garbage)] /\ UNCHANGED <<child, requests>>
      <4>1. /\ Append(stdout[p], Garbage) \in Seq(Responses \cup {Garbage})
            /\ {Append(stdout[p], Garbage)[n] : n \in 1..Len(Append(stdout[p], Garbage))}
                  = Lines(p) \cup {Garbage}
        <5>1. stdout[p] \in Seq(Responses \cup {Garbage}) /\ Garbage \in Responses \cup {Garbage}
          BY <1>1 DEF ThreadsTyped
        <5>2. /\ Append(stdout[p], Garbage) \in Seq(Responses \cup {Garbage})
              /\ LinesOf(Append(stdout[p], Garbage)) = LinesOf(stdout[p]) \cup {Garbage}
          BY <5>1, OneMoreLine
        <5>3. QED
          BY <5>2 DEF LinesOf, Lines
      <4>2. ASSUME NEW q \in Calls
            PROVE  Lines(q)' = IF q = p THEN Lines(q) \cup {Garbage} ELSE Lines(q)
        <5>1. stdout'[q] = IF q = p THEN Append(stdout[p], Garbage) ELSE stdout[q]
          BY <1>1, <3>2 DEF ThreadsTyped
        <5>2. QED
          BY <4>1, <5>1 DEF Lines
      <4>3. stdout' \in [Calls -> Seq(Responses \cup {Garbage})]
        BY <1>1, <3>2, <4>1 DEF ThreadsTyped
      <4>4. \A q \in Calls : Sent(q)' \subseteq Sent(q)
        BY <3>2, <4>2 DEF Sent, Garbage, Line
      <4>5. QED
        BY <1>1, <3>2, <4>2, <4>3, <4>4 DEF ThreadsTyped
    <3>3. CASE (\E r \in requests[p] : Reply(p, r, "noResult")) /\ UNCHANGED child
      BY <1>1, <3>3, ReplyEffect DEF ThreadsTyped
    <3>4. QED
      BY <1>3, <3>1, <3>2, <3>3 DEF Trouble
  <2>3. troubles' \in 0..MaxTroubles
    BY <1>1, <2>1, McpAssumptions DEF SessionsTyped
  <2>4. CallsTyped' /\ SessionsTyped' /\ ThreadsTyped'
    BY <1>1, <2>1, <2>2, <2>3 DEF CallsTyped, SessionsTyped, ThreadsTyped
  <2>5. Output
    BY <1>1, <2>1, <2>2 DEF Output, ProcessHealth, SessionsTyped
  <2>6. NobodyWaitsInVain' /\ \A c \in Calls : WaiterFits(c)' /\ DispatcherFits(c)'
    BY <2>1, <2>2, SameChannels
  <2>7. QED
    BY <2>4, <2>5, <2>6, OutputKeeps
<1>4. QED
  BY <1>2, <1>3

LEMMA WaiterIs ==
  ASSUME McpInv, NEW p \in Calls, NEW w \in waiters[p]
  PROVE  /\ w \in Nat \X Calls /\ w[2] \in Calls /\ pc[w[2]] \in {"recheck", "wait"}
         /\ box[w[2]] = Empty /\ holds[w[2]] = p /\ reqId[w[2]] = w[1]
<1>1. w \in Nat \X Calls /\ w[2] \in Calls
  BY DEF McpInv, TypeOK, SessionsTyped
<1>2. PICK d \in Calls : d = w[2]
  BY <1>1
<1>3. WaiterFits(d)
  BY DEF McpInv, CallInv
<1>4. pc[d] \in {"recheck", "wait"} /\ box[d] = Empty /\ holds[d] = p /\ reqId[d] = w[1]
  BY <1>2, <1>3 DEF WaiterFits
<1>5. QED
  BY <1>1, <1>2, <1>4

(* A line goes to the call that waits under its id, and that is the call   *)
(* whose request it answers.                                               *)
LEMMA DispatchKeeps ==
  ASSUME McpInv, NEW p \in Calls, Dispatch(p)
  PROVE  McpInv'
<1> DEFINE line == Head(stdout[p])
           to == {w \in waiters[p] : w[1] = line.id}
<1>1. /\ CallsTyped /\ ThreadsTyped /\ SessionsTyped /\ NobodyWaitsInVain
      /\ \A q \in Calls : /\ ProcessHealth(q) /\ DispatcherFits(q)
                          /\ CallFits(q) /\ IdFits(q) /\ WaiterFits(q)
  BY DEF McpInv, TypeOK, ProcessInv, CallInv
<1>2. /\ UNCHANGED <<pc, key, print, holds, victim, reqId, result, active, pending, cancelled, asked>>
      /\ UNCHANGED <<registry, lock, child, broken, dispatcher, nextId, requests, closing, troubles>>
      /\ UNCHANGED <<published, spent>>
      /\ stdout[p] # <<>> /\ line # Garbage
      /\ waiters' = [waiters EXCEPT ![p] = waiters[p] \ to]
      /\ box' = [c \in Calls |-> IF \E w \in to : w[2] = c THEN line ELSE box[c]]
      /\ stdout' = [stdout EXCEPT ![p] = Tail(stdout[p])]
  BY DEF Dispatch, cancelVars
<1>3. line \in Lines(p) /\ Tail(stdout[p]) \in Seq(Responses \cup {Garbage})
      /\ {Tail(stdout[p])[n] : n \in 1..Len(Tail(stdout[p]))} \subseteq Lines(p)
  BY <1>1, <1>2, HeadAndTail DEF ThreadsTyped, Lines
<1>4. line \in Responses
  BY <1>1, <1>2, <1>3 DEF ThreadsTyped, Lines
<1>5. CallsTyped' /\ SessionsTyped' /\ ThreadsTyped'
  BY <1>1, <1>2, <1>3, <1>4 DEF CallsTyped, SessionsTyped, ThreadsTyped, Boxes
<1>6. \A q \in Calls : Lines(q)' \subseteq Lines(q)
  <2>1. \A q \in Calls : stdout'[q] = IF q = p THEN Tail(stdout[p]) ELSE stdout[q]
    BY <1>1, <1>2 DEF ThreadsTyped
  <2>2. QED
    BY <1>3, <2>1 DEF Lines
<1>7. \A q \in Calls : Sent(q)' \subseteq Sent(q)
  BY <1>2, <1>6 DEF Sent
<1>8. \A w \in to : w \in Nat \X Calls /\ pc[w[2]] \in {"recheck", "wait"} /\ holds[w[2]] = p
                    /\ reqId[w[2]] = line.id /\ line.from = w[2] /\ line.id = w[1]
  <2>1. SUFFICES ASSUME NEW w \in to
                 PROVE  w \in Nat \X Calls /\ pc[w[2]] \in {"recheck", "wait"} /\ holds[w[2]] = p
                        /\ reqId[w[2]] = line.id /\ line.from = w[2] /\ line.id = w[1]
    OBVIOUS
  <2>2. w \in Nat \X Calls /\ w[2] \in Calls /\ w[1] = line.id
    BY <1>1 DEF SessionsTyped
  <2>3. pc[w[2]] \in {"recheck", "wait"} /\ holds[w[2]] = p /\ reqId[w[2]] = line.id
    BY <2>2, WaiterIs
  <2>4. <<line.id, line.from>> \in Sent(p)
    BY <1>2, <1>3 DEF Sent
  <2>5. line.from = w[2]
    BY <1>1, <2>2, <2>3, <2>4 DEF IdFits, Asking
  <2>6. QED
    BY <2>2, <2>3, <2>5
<1>9. ASSUME NEW c \in Calls, \E w \in to : w[2] = c
      PROVE  box'[c] = line /\ line # Empty /\ (\A q \in Calls : \A w \in waiters'[q] : w[2] # c)
  <2>1. box'[c] = line /\ line # Empty
    BY <1>2, <1>4, <1>9 DEF Responses, Empty, Line
  <2>2. PICK v \in to : v[2] = c
    BY <1>9
  <2>3. ASSUME NEW q \in Calls, NEW w \in waiters'[q], w[2] = c
        PROVE  FALSE
    <3>1. w \in waiters[q] /\ (q = p => w \notin to)
      BY <1>1, <1>2, <2>3 DEF SessionsTyped
    <3>2. holds[c] = q /\ reqId[c] = w[1]
      BY <2>3, <3>1, WaiterIs
    <3>3. q = p /\ w[1] = line.id
      BY <1>8, <2>2, <3>2
    <3>4. QED
      BY <3>1, <3>3
  <2>4. QED
    BY <2>1, <2>3
<1>10. ASSUME NEW c \in Calls, ~(\E w \in to : w[2] = c)
       PROVE  box'[c] = box[c] /\ \A q \in Calls : \A w : w[2] = c => (w \in waiters'[q] <=> w \in waiters[q])
  <2>1. \A q \in Calls : waiters'[q] = IF q = p THEN waiters[p] \ to ELSE waiters[q]
    BY <1>1, <1>2 DEF SessionsTyped
  <2>2. QED
    BY <1>2, <1>10, <2>1
<1>11. ASSUME NEW c \in Calls  PROVE  WaiterFits(c)'
  <2>1. CASE \E w \in to : w[2] = c
    <3>1. pc[c] \in {"recheck", "wait"} /\ line.from = c /\ line.id = reqId[c]
      BY <1>8, <2>1
    <3>2. QED
      BY <1>2, <1>9, <2>1, <3>1 DEF WaiterFits, Empty, Line
  <2>2. CASE ~(\E w \in to : w[2] = c)
    <3>1. <<reqId[c], c>>[2] = c
      OBVIOUS
    <3>2. \A q \in Calls : \A w \in waiters'[q] : w[2] = c =>
             /\ pc[c] \in {"recheck", "wait"} /\ box[c] = Empty /\ holds[c] = q /\ reqId[c] = w[1]
      BY <1>10, <2>2, WaiterIs
    <3>3. pc[c] \in {"recheck", "wait"} /\ box[c] = Empty => <<reqId[c], c>> \in waiters'[holds[c]]
      <4>1. pc[c] \in {"recheck", "wait"} => holds[c] \in Calls
        BY <1>1 DEF CallFits, Asking, Initializing, Serving, SessionsTyped
      <4>2. QED
        BY <1>1, <1>10, <2>2, <3>1, <4>1 DEF WaiterFits
    <3>4. QED
      BY <1>1, <1>2, <1>10, <2>2, <3>2, <3>3 DEF WaiterFits, Empty, Line
  <2>3. QED
    BY <2>1, <2>2
<1>12. NobodyWaitsInVain'
  BY <1>1, <1>2, <1>9, <1>10 DEF NobodyWaitsInVain, Empty, Line
<1>13. Output
  <2>1. ASSUME NEW c \in Calls, result[c] = "answer"  PROVE  box'[c] = box[c]
    BY <1>1, <1>8, <1>10, <2>1 DEF CallFits
  <2>2. QED
    BY <1>1, <1>2, <1>6, <1>7, <2>1 DEF Output, ProcessHealth, SessionsTyped
<1>14. \A q \in Calls : DispatcherFits(q)'
  BY <1>1, <1>2 DEF DispatcherFits
<1>15. QED
  BY <1>5, <1>11, <1>12, <1>13, <1>14, OutputKeeps

(* The transport error is set before the waiters are failed.               *)
LEMMA FailureKeeps ==
  ASSUME McpInv, NEW p \in Calls, TransportFails(p) \/ DrainWaiters(p)
  PROVE  McpInv'
<1>1. /\ CallsTyped /\ ThreadsTyped /\ SessionsTyped /\ NobodyWaitsInVain
      /\ \A q \in Calls : /\ ProcessHealth(q) /\ DispatcherFits(q)
                          /\ CallFits(q) /\ WaiterFits(q)
  BY DEF McpInv, TypeOK, ProcessInv, CallInv
<1>2. ASSUME TransportFails(p)  PROVE  McpInv'
  <2>1. /\ UNCHANGED <<pc, key, print, holds, victim, reqId, box, result, active, pending, cancelled, asked>>
        /\ UNCHANGED <<registry, lock, child, nextId, waiters, requests, stdout, closing, troubles>>
        /\ UNCHANGED <<published, spent>>
        /\ broken' = broken \cup {p} /\ dispatcher' = [dispatcher EXCEPT ![p] = "failing"]
        /\ IF stdout[p] # <<>> THEN Head(stdout[p]) = Garbage ELSE child[p] = "exited"
    BY <1>2 DEF TransportFails, callVars, cancelVars
  <2>2. p \in spent
    <3>1. stdout[p] # <<>> => Head(stdout[p]) \in Lines(p)
      BY <1>1, HeadAndTail DEF ThreadsTyped, Lines
    <3>2. QED
      BY <1>1, <2>1, <3>1 DEF ProcessHealth
  <2>3. CallsTyped' /\ SessionsTyped' /\ ThreadsTyped'
    BY <1>1, <2>1 DEF CallsTyped, SessionsTyped, ThreadsTyped, Dispatchers
  <2>4. Output
    <3>1. \A q \in Calls : Lines(q)' = Lines(q) /\ Sent(q)' = Sent(q)
      BY <2>1 DEF Lines, Sent
    <3>2. QED
      BY <1>1, <2>1, <2>2, <3>1 DEF Output, ProcessHealth, SessionsTyped
  <2>5. NobodyWaitsInVain'
    BY <1>1, <2>1 DEF NobodyWaitsInVain, ThreadsTyped, Empty, Line
  <2>6. \A q \in Calls : DispatcherFits(q)'
    BY <1>1, <2>1 DEF DispatcherFits, ThreadsTyped
  <2>7. \A c \in Calls : WaiterFits(c)'
    BY <1>1, <2>1 DEF WaiterFits, Empty, Line
  <2>8. QED
    BY <2>3, <2>4, <2>5, <2>6, <2>7, OutputKeeps
<1>3. ASSUME DrainWaiters(p)  PROVE  McpInv'
  <2>1. /\ UNCHANGED <<pc, key, print, holds, victim, reqId, result, active, pending, cancelled, asked>>
        /\ UNCHANGED <<registry, lock, child, broken, nextId, requests, stdout, closing, troubles>>
        /\ UNCHANGED <<published, spent>> /\ dispatcher[p] = "failing"
        /\ box' = [c \in Calls |-> IF \E w \in waiters[p] : w[2] = c THEN Failure ELSE box[c]]
        /\ waiters' = [waiters EXCEPT ![p] = {}] /\ dispatcher' = [dispatcher EXCEPT ![p] = "ended"]
    BY <1>3 DEF DrainWaiters, cancelVars
  <2>2. CallsTyped' /\ SessionsTyped' /\ ThreadsTyped'
    BY <1>1, <2>1 DEF CallsTyped, SessionsTyped, ThreadsTyped, Dispatchers, Boxes
  <2>3. \A q \in Calls : waiters'[q] = IF q = p THEN {} ELSE waiters[q]
    BY <1>1, <2>1 DEF SessionsTyped
  <2>4. \A w \in waiters[p] : w[2] \in Calls /\ pc[w[2]] \in {"recheck", "wait"} /\ holds[w[2]] = p
    BY WaiterIs
  <2>5. ASSUME NEW c \in Calls  PROVE  WaiterFits(c)'
    <3>1. CASE \E w \in waiters[p] : w[2] = c
      <4>1. /\ box'[c] = Failure /\ Failure # Empty /\ Failure.kind # "answer"
            /\ pc[c] \in {"recheck", "wait"} /\ holds[c] = p
        BY <2>1, <2>4, <3>1 DEF Failure, Empty, Line
      <4>2. \A q \in Calls : \A w \in waiters'[q] : w[2] # c
        BY <1>1, <2>3, <4>1 DEF WaiterFits
      <4>3. QED
        BY <2>1, <4>1, <4>2 DEF WaiterFits, Empty, Line
    <3>2. CASE ~(\E w \in waiters[p] : w[2] = c)
      <4>1. box'[c] = box[c] /\ \A q \in Calls : \A w \in waiters'[q] : w \in waiters[q]
        BY <2>1, <2>3, <3>2
      <4>2. pc[c] \in {"recheck", "wait"} /\ box[c] = Empty => <<reqId[c], c>> \in waiters'[holds[c]]
        <5>1. pc[c] \in {"recheck", "wait"} => holds[c] \in Calls
          BY <1>1 DEF CallFits, Asking, Initializing, Serving, SessionsTyped
        <5>2. <<reqId[c], c>>[2] = c
          OBVIOUS
        <5>3. QED
          BY <1>1, <2>3, <3>2, <5>1, <5>2 DEF WaiterFits
      <4>3. QED
        BY <1>1, <2>1, <4>1, <4>2 DEF WaiterFits, Empty, Line
    <3>3. QED
      BY <3>1, <3>2
  <2>6. NobodyWaitsInVain'
    <3>1. ASSUME NEW c \in Calls, pc'[c] = "wait", box'[c] = Empty
          PROVE  dispatcher'[holds'[c]] # "ended"
      <4>1. ~(\E w \in waiters[p] : w[2] = c) /\ pc[c] = "wait" /\ box[c] = Empty
        BY <2>1, <3>1 DEF Failure, Empty, Line
      <4>2. holds[c] \in Calls /\ <<reqId[c], c>> \in waiters[holds[c]] /\ <<reqId[c], c>>[2] = c
        BY <1>1, <4>1 DEF CallFits, WaiterFits, Asking, Initializing, Serving,
           SessionsTyped
      <4>3. holds[c] # p
        BY <4>1, <4>2
      <4>4. QED
        BY <1>1, <2>1, <4>1, <4>2, <4>3 DEF NobodyWaitsInVain, ThreadsTyped
    <3>2. QED
      BY <3>1 DEF NobodyWaitsInVain, Empty, Line
  <2>7. Output
    <3>1. \A q \in Calls : Lines(q)' = Lines(q) /\ Sent(q)' = Sent(q)
      BY <2>1 DEF Lines, Sent
    <3>2. ASSUME NEW c \in Calls, result[c] = "answer"  PROVE  box'[c] = box[c]
      BY <1>1, <2>1, <2>4, <3>2 DEF CallFits
    <3>3. QED
      BY <1>1, <2>1, <3>1, <3>2 DEF Output, ProcessHealth, SessionsTyped
  <2>8. \A q \in Calls : DispatcherFits(q)'
    BY <1>1, <2>1 DEF DispatcherFits, ThreadsTyped
  <2>9. QED
    BY <2>2, <2>5, <2>6, <2>7, <2>8, OutputKeeps
<1>4. QED
  BY <1>2, <1>3

-----------------------------------------------------------------------------
(* Together.                                                               *)
LEMMA StdioInit == Init => McpInv
<1> SUFFICES ASSUME Init  PROVE  McpInv
  OBVIOUS
<1>1. PICK use \in Uses : /\ key = [c \in Calls |-> use[c].key] /\ print = [c \in Calls |-> use[c].print]
  BY DEF Init
<1>2. CallsTyped /\ ThreadsTyped /\ SessionsTyped
  BY <1>1, McpAssumptions DEF Init, CallsTyped, ThreadsTyped, SessionsTyped, PC,
     Results, Boxes,
     Children, Dispatchers
<1>3. KeysInUse = {} /\ IsFiniteSet(KeysInUse) /\ Cardinality(KeysInUse) <= MaxSessions
  <2>1. KeysInUse = {}
    BY DEF Init, KeysInUse
  <2>2. QED
    BY <2>1, FS_EmptySet, McpAssumptions
<1>4. RegistryFits
  BY <1>3, McpAssumptions DEF Init, RegistryFits
<1>5. \A p \in Calls : Lines(p) = {} /\ Sent(p) = {}
  <2>1. \A p \in Calls : Lines(p) = {}
    BY DEF Init, Lines
  <2>2. QED
    BY <2>1 DEF Init, Sent
<1>6. ASSUME NEW c \in Calls  PROVE  CallInv(c) /\ ProcessInv(c)
  <2>1. CallFits(c) /\ IdFits(c) /\ CallHealth(c)
    BY DEF Init, CallFits, IdFits, CallHealth, Asking, Initializing, Serving
  <2>2. WaiterFits(c)
    BY DEF Init, WaiterFits
  <2>3. SentFits(c) /\ DispatcherFits(c) /\ ProcessHealth(c)
    BY <1>5 DEF Init, SentFits, DispatcherFits, ProcessHealth
  <2>4. QED
    BY <2>1, <2>2, <2>3 DEF CallInv, ProcessInv
<1>7. OwnAnswer /\ NobodyWaitsInVain
  BY DEF Init, OwnAnswer, NobodyWaitsInVain
<1>8. QED
  BY <1>2, <1>3, <1>4, <1>6, <1>7 DEF McpInv, TypeOK

LEMMA McpStutters == McpInv /\ UNCHANGED vars => McpInv'
<1> SUFFICES ASSUME McpInv, UNCHANGED vars  PROVE  McpInv'
  OBVIOUS
<1>1. /\ UNCHANGED <<pc, key, print, holds, victim, reqId, box, result, active, pending, cancelled, asked>>
      /\ UNCHANGED <<registry, lock, child, broken, dispatcher, nextId, waiters, requests, stdout>>
      /\ UNCHANGED <<closing, troubles, published, spent>>
  BY DEF vars, callVars, cancelVars, procVars
<1>2. /\ CallsTyped /\ ThreadsTyped /\ SessionsTyped /\ \A q \in Calls : ProcessHealth(q)
  BY DEF McpInv, TypeOK, ProcessInv
<1>3. CallsTyped' /\ ThreadsTyped' /\ SessionsTyped'
  BY <1>1, <1>2 DEF CallsTyped, ThreadsTyped, SessionsTyped
<1>4. \A q \in Calls : Lines(q)' = Lines(q) /\ Sent(q)' = Sent(q)
  BY <1>1 DEF Lines, Sent
<1>5. Output
  BY <1>1, <1>2, <1>4 DEF Output, ProcessHealth, SessionsTyped
<1>6. NobodyWaitsInVain' /\ \A c \in Calls : WaiterFits(c)' /\ DispatcherFits(c)'
  BY <1>1, SameChannels
<1>7. QED
  BY <1>3, <1>5, <1>6, OutputKeeps

LEMMA McpStep == McpInv /\ [Next]_vars => McpInv'
<1> SUFFICES ASSUME McpInv, [Next]_vars  PROVE  McpInv'
  OBVIOUS
<1>1. ASSUME NEW c \in Calls, Issue(c) \/ Cancel(c) \/ Step(c)  PROVE  McpInv'
  BY <1>1, QuietCallSteps, LookupKeeps, CloseVictimKeeps, OpenKeeps, PublishKeeps,
     CheckKeeps,
     RecheckAndSendKeeps, WaitEnds, UnlockKeeps, RemoveKeeps DEF Step
<1>2. ASSUME NEW k \in Keys, CloseKey(k)  PROVE  McpInv'
  BY <1>2, CloseKeyKeeps
<1>3. ASSUME NEW p \in Calls,
             CloseProcess(p) \/ Answer(p) \/ Trouble(p) \/ DispatcherStep(p)
      PROVE  McpInv'
  BY <1>3, CloseProcessKeeps, ServerKeeps, DispatchKeeps, FailureKeeps
     DEF DispatcherStep
<1>4. QED
  BY <1>1, <1>2, <1>3, McpStutters DEF Next

(* CallsExact holds for any number of calls, keys and configurations, any  *)
(* MAX_SESSIONS and any number of cancels, closes, exits and bad lines:    *)
(* every call that gets an answer gets its own, no call waits for a        *)
(* dispatcher that is gone, and a healthy published session stays where    *)
(* the next call finds it (mcp_stdio.rs, the whole file).                  *)
THEOREM CallsStayExact == Spec => []CallsExact
<1>1. McpInv => CallsExact
  BY DEF McpInv, CallsExact, HealthyStaysRegistered, ProcessInv, ProcessHealth,
     TypeOK, SessionsTyped
<1>2. QED
  BY <1>1, StdioInit, McpStep, PTL DEF Spec

-----------------------------------------------------------------------------
(***************************************************************************)
(* Authorization of an MCP call: McpAuthorizationSound.                    *)
(***************************************************************************)

AuthSteps == {"done", "failed", "call", "resource", "server", "register"}
Owners == {"", "origin", "user"} \cup Authorities

AuthTypeOK ==
    /\ step \in AuthSteps /\ retried \in BOOLEAN /\ blank \in BOOLEAN
    /\ endpoints \in [authorize : Owners, token : Owners]
    /\ client \in [with : Owners, expired : BOOLEAN]
    /\ found \in Owners /\ left \in 0..3 /\ sent \in Nat
    /\ IsFiniteSet(visited) /\ Cardinality(visited) <= MaxRedirects

\* What the addresses still to be tried may cost, with their redirects.
Cost(n) == IF n = 0 THEN 0 ELSE IF n = 1 THEN 1 + MaxRedirects
           ELSE IF n = 2 THEN 2 * (1 + MaxRedirects) ELSE 3 * (1 + MaxRedirects)

\* Each step of a call leaves enough of its allowance for the ones after it.
BudgetFits ==
    /\ step \in {"done", "failed"} => sent <= MostRequests
    /\ step = "call" /\ ~retried => sent = 0
    /\ step = "call" /\ retried => sent <= MostRequests - 1
    /\ step = "register" => sent <= MostRequests - 2
    /\ step = "resource" => left >= 1 /\ sent + Cost(left) <= 1 + Cost(3) + Cardinality(visited)
    /\ step = "server" => left >= 1 /\ sent + Cost(left) <= 1 + 2 * Cost(3) + Cardinality(visited)

\* A client is registered after the endpoints are known; what a discovery
\* that began without endpoints has put together is of one authority.
AuthorityFits ==
    /\ endpoints = Blank => client.with = ""
    /\ step = "register" => endpoints # Blank
    /\ blank => /\ endpoints.authorize = endpoints.token
                /\ client.with \in {"", endpoints.token}
                /\ step \in MetadataStages => endpoints = Blank
                /\ step = "register" => endpoints.token = Fallback

AuthInv == AuthTypeOK /\ BudgetFits /\ AuthorityFits

LEMMA Costs ==
  /\ MaxRedirects \in Nat /\ Cost(3) \in Nat /\ MostRequests \in Nat /\ MostRequests = 2 * Cost(3) + 3
  /\ \A n \in 1..3 : Cost(n) \in Nat /\ Cost(n) >= 1 + MaxRedirects /\ Cost(n) <= Cost(3)
  /\ \A n \in 2..3 : Cost(n) = Cost(n - 1) + 1 + MaxRedirects
<1>1. MaxRedirects \in Nat
  BY McpAuthorizationAssumption
<1>2. /\ Cost(1) = 1 + MaxRedirects /\ Cost(2) = 2 * (1 + MaxRedirects) /\ Cost(3) = 3 * (1 + MaxRedirects)
  BY DEF Cost
<1>3. MostRequests = 6 * (1 + MaxRedirects) + 3
  BY DEF MostRequests
<1>4. \A n \in 1..3 : n = 1 \/ n = 2 \/ n = 3
  OBVIOUS
<1>5. \A n \in 2..3 : (n = 2 /\ n - 1 = 1) \/ (n = 3 /\ n - 1 = 2)
  OBVIOUS
<1>6. \A n \in 1..3 : Cost(n) \in Nat /\ Cost(n) >= 1 + MaxRedirects /\ Cost(n) <= Cost(3)
  BY <1>1, <1>2, <1>4
<1>7. \A n \in 2..3 : Cost(n) = Cost(n - 1) + 1 + MaxRedirects
  BY <1>1, <1>2, <1>5
<1>8. QED
  BY <1>1, <1>2, <1>3, <1>6, <1>7

LEMMA NoneVisited ==
  IsFiniteSet({}) /\ Cardinality({}) = 0 /\ Cardinality({}) <= MaxRedirects
  BY FS_EmptySet, McpAuthorizationAssumption

\* A request counts while there is an allowance.
LEMMA OneSent ==
  ASSUME AuthInv, Sends
  PROVE  /\ sent \in Nat /\ sent <= MostRequests /\ sent' = sent + 1
         /\ Cardinality(visited) \in Nat /\ Cardinality(visited) <= MaxRedirects
         /\ step \in {"resource", "server"} => left \in 1..3
         /\ step = "resource" => sent' <= 1 + Cost(3)
         /\ step \in {"resource", "server"} => sent' <= 1 + 2 * Cost(3)
<1>1. sent \in Nat /\ Cardinality(visited) \in Nat /\ Cardinality(visited) <= MaxRedirects
  BY FS_CardinalityType DEF AuthInv, AuthTypeOK
<1>2. step \in {"resource", "server"} => left \in 1..3
  BY DEF AuthInv, AuthTypeOK, BudgetFits
<1>3. step = "resource" => sent + 1 <= 1 + Cost(3)
  BY <1>1, <1>2, Costs DEF AuthInv, BudgetFits
<1>4. step = "server" => sent + 1 <= 1 + 2 * Cost(3)
  BY <1>1, <1>2, Costs DEF AuthInv, BudgetFits
<1>5. sent <= MostRequests
  <2>1. step \in {"done", "failed", "register"} \/ step = "call" => sent <= MostRequests
    BY <1>1, Costs DEF AuthInv, AuthTypeOK, BudgetFits
  <2>2. step \in {"resource", "server"} => sent <= MostRequests
    BY <1>1, <1>3, <1>4, Costs
  <2>3. QED
    BY <2>1, <2>2 DEF AuthInv, AuthTypeOK, AuthSteps
<1>6. sent' = sent + 1
  BY <1>1, <1>5, Costs DEF Sends
<1>7. QED
  BY <1>1, <1>2, <1>3, <1>4, <1>5, <1>6, Costs

LEMMA AuthInvInit ==
  ASSUME McpAuthInit
  PROVE  AuthInv
<1>2. AuthTypeOK
  <2>1. endpoints \in [authorize : Owners, token : Owners] /\ client \in [with : Owners, expired : BOOLEAN]
    BY DEF McpAuthInit, Blank, NoClient, Owners
  <2>2. left \in 0..3 /\ sent \in Nat
    <3>1. left = 0 /\ sent = 0
      BY DEF McpAuthInit
    <3>2. QED
      BY <3>1
  <2>3. IsFiniteSet(visited) /\ Cardinality(visited) <= MaxRedirects
    BY NoneVisited DEF McpAuthInit
  <2>4. QED
    BY <2>1, <2>2, <2>3 DEF McpAuthInit, AuthTypeOK, AuthSteps, Owners
<1>3. BudgetFits
  <2>1. step = "done" /\ sent = 0
    BY DEF McpAuthInit
  <2>3. sent <= MostRequests
    <3>1. sent = 0
      BY <2>1
    <3>2. QED
      BY <3>1, Costs
  <2>4. QED
    BY <2>1, <2>3 DEF BudgetFits
<1>4. AuthorityFits
  BY DEF McpAuthInit, AuthorityFits, NoClient
<1>5. QED
  BY <1>2, <1>3, <1>4 DEF AuthInv

\* Steps between calls and steps of a call that no discovery is part of.
LEMMA CallKeeps ==
  ASSUME AuthInv, StartMcpCall \/ CallAnswered \/ CallFails \/ RefusedWhileReady \/ InsufficientScope
  PROVE  AuthInv'
<1>1. MaxRedirects \in Nat
  BY McpAuthorizationAssumption
<1>2. UNCHANGED <<endpoints, client, left, visited, found, blank>>
  BY DEF StartMcpCall, CallAnswered, CallFails, RefusedWhileReady, InsufficientScope, CallEnds
<1>3. step' \in {"call", "done", "failed"} /\ retried' \in BOOLEAN
  BY DEF StartMcpCall, CallAnswered, CallFails, RefusedWhileReady, InsufficientScope, CallEnds, Retry
<1>4. /\ sent' \in Nat
      /\ step' \in {"done", "failed"} => sent' <= MostRequests
      /\ step' = "call" /\ ~retried' => sent' = 0
      /\ step' = "call" /\ retried' => sent' <= MostRequests - 1
  <2>1. CASE StartMcpCall
    BY <2>1 DEF StartMcpCall
  <2>2. CASE CallAnswered \/ CallFails
    BY <2>2, <1>1 DEF CallAnswered, CallFails, CallEnds, Sends, AuthInv, AuthTypeOK, BudgetFits, MostRequests
  <2>3. CASE RefusedWhileReady \/ InsufficientScope
    BY <2>3, <1>1 DEF RefusedWhileReady, InsufficientScope, Retry, Sends, AuthInv, AuthTypeOK, BudgetFits, MostRequests
  <2>4. QED
    BY <2>1, <2>2, <2>3
<1>5. AuthTypeOK'
  BY <1>2, <1>3, <1>4 DEF AuthInv, AuthTypeOK, AuthSteps
<1>6. BudgetFits'
  BY <1>3, <1>4 DEF BudgetFits, MostRequests
<1>7. AuthorityFits'
  BY <1>2, <1>3 DEF AuthInv, AuthorityFits, MetadataStages, Blank
<1>8. QED
  BY <1>5, <1>6, <1>7 DEF AuthInv

LEMMA DiscoveryStartKeeps ==
  ASSUME AuthInv, RefusedStartsDiscovery
  PROVE  AuthInv'
<1>1. MaxRedirects \in Nat
  BY McpAuthorizationAssumption
<1>2. UNCHANGED <<retried, endpoints, client, found>> /\ step' = "resource" /\ left' \in 1..3
      /\ visited' = {} /\ blank' = (endpoints = Blank)
  BY DEF RefusedStartsDiscovery
<1>3. sent' = 1
  BY <1>1 DEF RefusedStartsDiscovery, Sends, AuthInv, BudgetFits, MostRequests
<1>4. Cardinality(visited') = 0 /\ IsFiniteSet(visited')
  BY <1>2, NoneVisited
<1>5. AuthTypeOK'
  BY <1>1, <1>2, <1>3, <1>4 DEF AuthInv, AuthTypeOK, AuthSteps
<1>6. BudgetFits'
  <2>1. Cost(left') \in Nat /\ Cost(left') <= Cost(3) /\ left' >= 1
    BY <1>2, Costs
  <2>2. sent' + Cost(left') <= 1 + Cost(3) + Cardinality(visited')
    BY <2>1, <1>3, <1>4, Costs
  <2>3. QED
    BY <1>2, <2>1, <2>2 DEF BudgetFits
<1>7. AuthorityFits'
  <2>1. CASE endpoints = Blank
    BY <2>1, <1>2 DEF AuthInv, AuthorityFits, Blank, MetadataStages
  <2>2. CASE endpoints # Blank
    BY <2>2, <1>2 DEF AuthorityFits
  <2>3. QED
    BY <2>1, <2>2
<1>8. QED
  BY <1>5, <1>6, <1>7 DEF AuthInv

LEMMA DiscoveryFailsKeeps ==
  ASSUME AuthInv, DiscoveryFails
  PROVE  AuthInv'
<1>1. MaxRedirects \in Nat
  BY McpAuthorizationAssumption
<1>2. UNCHANGED <<endpoints, client, blank>> /\ step' = "failed" /\ retried' = FALSE
      /\ left' = 0 /\ visited' = {} /\ found' = "" /\ step \in {"resource", "server", "register"}
  BY DEF DiscoveryFails, AtRest, MetadataStages
<1>3. Cardinality(visited') = 0 /\ IsFiniteSet(visited')
  BY <1>2, NoneVisited
<1>4. Cardinality(visited) \in Nat /\ Cardinality(visited) <= MaxRedirects
  BY FS_CardinalityType DEF AuthInv, AuthTypeOK
<1>5. sent' \in Nat /\ sent' <= MostRequests
  <2>1. Sends
    BY DEF DiscoveryFails
  <2>2. step = "register" => sent <= MostRequests - 2
    BY DEF AuthInv, BudgetFits
  <2>3. step \in {"resource", "server"} \/ step = "register"
    BY <1>2
  <2>4. CASE step \in {"resource", "server"}
    BY <2>1, <2>4, OneSent, Costs
  <2>5. CASE step = "register"
    BY <2>1, <2>2, <2>5, OneSent, Costs
  <2>6. QED
    BY <2>3, <2>4, <2>5
<1>6. AuthTypeOK'
  <2>1. left' \in 0..3
    <3>1. left' = 0
      BY <1>2
    <3>2. QED
      BY <3>1
  <2>2. QED
    BY <2>1, <1>2, <1>3, <1>5, NoneVisited DEF AuthInv, AuthTypeOK, AuthSteps, Owners
<1>7. BudgetFits'
  BY <1>2, <1>5 DEF BudgetFits
<1>8. AuthorityFits'
  BY <1>2 DEF AuthInv, AuthorityFits, Blank, MetadataStages
<1>9. QED
  BY <1>6, <1>7, <1>8 DEF AuthInv

\* A redirect costs what it adds to the addresses visited.
LEMMA RedirectedKeeps ==
  ASSUME AuthInv, NEW location \in Locations, Redirected(location)
  PROVE  AuthInv'
<1>1. MaxRedirects \in Nat
  BY McpAuthorizationAssumption
<1>2. /\ UNCHANGED <<step, retried, endpoints, client, left, found, blank>>
      /\ visited' = visited \cup {location} /\ location \notin visited
      /\ Cardinality(visited) < MaxRedirects /\ step \in {"resource", "server"}
  BY DEF Redirected, MetadataStages
<1>3. IsFiniteSet(visited') /\ Cardinality(visited') = Cardinality(visited) + 1 /\ Cardinality(visited) \in Nat
  BY <1>2, FS_AddElement, FS_CardinalityType DEF AuthInv, AuthTypeOK
<1>4. sent' = sent + 1 /\ sent \in Nat /\ left \in 1..3
  BY <1>2, OneSent DEF Redirected
<1>5. Cardinality(visited') <= MaxRedirects
  BY <1>1, <1>2, <1>3
<1>6. AuthTypeOK'
  BY <1>2, <1>3, <1>4, <1>5 DEF AuthInv, AuthTypeOK
<1>7. BudgetFits'
  <2>1. /\ step = "resource" => sent + Cost(left) <= 1 + Cost(3) + Cardinality(visited)
        /\ step = "server" => sent + Cost(left) <= 1 + 2 * Cost(3) + Cardinality(visited)
    BY DEF AuthInv, BudgetFits
  <2>2. /\ step = "resource" => sent' + Cost(left) <= 1 + Cost(3) + Cardinality(visited')
        /\ step = "server" => sent' + Cost(left) <= 1 + 2 * Cost(3) + Cardinality(visited')
    BY <2>1, <1>3, <1>4, Costs
  <2>3. left' = left /\ step' = step /\ left >= 1
    BY <1>2, <1>4
  <2>4. Cost(left') = Cost(left)
    BY <2>3
  <2>5. QED
    BY <1>2, <2>2, <2>3, <2>4 DEF BudgetFits
<1>8. AuthorityFits'
  BY <1>2 DEF AuthInv, AuthorityFits, Blank, MetadataStages, Fallback
<1>9. QED
  BY <1>6, <1>7, <1>8 DEF AuthInv

LEMMA UselessKeeps ==
  ASSUME AuthInv, MetadataUseless
  PROVE  AuthInv'
<1>1. MaxRedirects \in Nat
  BY McpAuthorizationAssumption
<1>2. /\ UNCHANGED <<step, retried, endpoints, client, found, blank>> /\ step \in {"resource", "server"}
      /\ left > 1 /\ left' = left - 1 /\ visited' = {}
  BY DEF MetadataUseless, MetadataStages
<1>3. Cardinality(visited') = 0 /\ IsFiniteSet(visited')
  BY <1>2, NoneVisited
<1>4. Cardinality(visited) \in Nat /\ Cardinality(visited) <= MaxRedirects
  BY FS_CardinalityType DEF AuthInv, AuthTypeOK
<1>5. sent' = sent + 1 /\ sent \in Nat /\ left \in 2..3 /\ left' \in 1..3
  <2>1. sent' = sent + 1 /\ sent \in Nat /\ left \in 1..3
    BY <1>2, OneSent DEF MetadataUseless
  <2>2. QED
    BY <1>2, <2>1
<1>6. AuthTypeOK'
  BY <1>1, <1>2, <1>3, <1>5 DEF AuthInv, AuthTypeOK
<1>7. BudgetFits'
  <2>1. /\ step = "resource" => sent + Cost(left) <= 1 + Cost(3) + Cardinality(visited)
        /\ step = "server" => sent + Cost(left) <= 1 + 2 * Cost(3) + Cardinality(visited)
    BY DEF AuthInv, BudgetFits
  <2>2. Cost(left) = Cost(left') + 1 + MaxRedirects /\ Cost(left') \in Nat
    BY <1>2, <1>5, Costs
  <2>3. /\ step = "resource" => sent' + Cost(left') <= 1 + Cost(3) + Cardinality(visited')
        /\ step = "server" => sent' + Cost(left') <= 1 + 2 * Cost(3) + Cardinality(visited')
    BY <2>1, <2>2, <1>3, <1>4, <1>5, Costs
  <2>4. left' >= 1
    BY <1>5
  <2>5. QED
    BY <1>2, <2>3, <2>4 DEF BudgetFits
<1>8. AuthorityFits'
  BY <1>2 DEF AuthInv, AuthorityFits, Blank, MetadataStages, Fallback
<1>9. QED
  BY <1>6, <1>7, <1>8 DEF AuthInv

LEMMA AskServerKeeps ==
  ASSUME AuthInv, ResourceUnknown \/ \E a \in Authorities : ResourceDescribed(a)
  PROVE  AuthInv'
<1>1. MaxRedirects \in Nat
  BY McpAuthorizationAssumption
<1>2. /\ UNCHANGED <<retried, endpoints, client, blank>> /\ step = "resource" /\ step' = "server"
      /\ visited' = {} /\ found' \in {""} \cup Authorities
      /\ left' = 1 \/ left' = 2 \/ left' = 3
  BY DEF ResourceUnknown, ResourceDescribed, AskServer
<1>3. Cardinality(visited') = 0 /\ IsFiniteSet(visited')
  BY <1>2, NoneVisited
<1>4. Cardinality(visited) \in Nat /\ Cardinality(visited) <= MaxRedirects
  BY FS_CardinalityType DEF AuthInv, AuthTypeOK
<1>5. Sends
  BY DEF ResourceUnknown, ResourceDescribed
<1>6. sent' \in Nat /\ sent' <= 1 + Cost(3)
  <2>1. step = "resource"
    BY <1>2
  <2>2. QED
    BY <2>1, <1>5, OneSent
<1>7. AuthTypeOK'
  <2>1. left' \in 0..3
    <3>1. left' = 1 \/ left' = 2 \/ left' = 3
      BY <1>2
    <3>2. QED
      BY <3>1
  <2>2. QED
    BY <2>1, <1>2, <1>3, <1>6, NoneVisited DEF AuthInv, AuthTypeOK, AuthSteps, Owners
<1>8. BudgetFits'
  <2>1. left' \in 1..3
    <3>1. left' = 1 \/ left' = 2 \/ left' = 3
      BY <1>2
    <3>2. QED
      BY <3>1
  <2>2. Cost(left') \in Nat /\ Cost(left') <= Cost(3) /\ left' >= 1
    BY <2>1, Costs
  <2>3. sent' + Cost(left') <= 1 + 2 * Cost(3) + Cardinality(visited')
    BY <2>2, <1>3, <1>6, Costs
  <2>4. QED
    BY <1>2, <2>2, <2>3 DEF BudgetFits
<1>9. AuthorityFits'
  BY <1>2 DEF AuthInv, AuthorityFits, Blank, MetadataStages
<1>10. QED
  BY <1>7, <1>8, <1>9 DEF AuthInv

LEMMA ServerSettledKeeps ==
  ASSUME AuthInv, ServerSettled(Fallback)
  PROVE  AuthInv'
<1>1. MaxRedirects \in Nat
  BY McpAuthorizationAssumption
<1>2. /\ UNCHANGED <<client, blank, manual>> /\ step = "server" /\ left' = 0 /\ visited' = {}
      /\ endpoints' = Configured(Fallback) /\ Sends
  BY DEF ServerSettled
<1>3. \/ HasClientId /\ step' = "call" /\ retried' = TRUE /\ found' = ""
      \/ ~HasClientId /\ step' = "register" /\ retried' = retried /\ found' = found
  BY DEF ServerSettled, Retry
<1>4. Cardinality(visited') = 0 /\ IsFiniteSet(visited')
  BY <1>2, NoneVisited
<1>5. Cardinality(visited) \in Nat /\ Cardinality(visited) <= MaxRedirects
  BY FS_CardinalityType DEF AuthInv, AuthTypeOK
<1>6. sent' \in Nat /\ sent' <= MostRequests - 2 /\ sent' <= MostRequests - 1
  BY <1>2, OneSent, Costs
<1>7. Fallback \in Owners /\ Fallback # ""
  BY DEF Fallback, AuthInv, AuthTypeOK, Owners
<1>8. endpoints' \in [authorize : Owners, token : Owners] /\ endpoints'.token # "" /\ endpoints' # Blank
  <2>1. endpoints.authorize \in Owners /\ endpoints.token \in Owners
    BY DEF AuthInv, AuthTypeOK
  <2>2. QED
    BY <2>1, <1>2, <1>7 DEF Configured, Blank
<1>9. AuthTypeOK'
  <2>1. step' \in AuthSteps /\ retried' \in BOOLEAN /\ found' \in Owners
    BY <1>3 DEF AuthInv, AuthTypeOK, AuthSteps, Owners
  <2>2. left' \in 0..3
    <3>1. left' = 0
      BY <1>2
    <3>2. QED
      BY <3>1
  <2>3. QED
    BY <2>1, <2>2, <1>2, <1>4, <1>6, <1>8, NoneVisited DEF AuthInv, AuthTypeOK
<1>10. BudgetFits'
  BY <1>3, <1>6 DEF BudgetFits
<1>11. AuthorityFits'
  <2>1. CASE blank
    <3>1. endpoints = Blank /\ client.with = ""
      BY <2>1, <1>2 DEF AuthInv, AuthorityFits, MetadataStages
    <3>2. endpoints'.authorize = Fallback /\ endpoints'.token = Fallback
      BY <3>1, <1>2 DEF Configured, Blank
    <3>3. step' = "register" => Fallback' = Fallback
      BY <1>3 DEF Fallback
    <3>4. QED
      BY <1>2, <1>3, <1>8, <3>1, <3>2, <3>3 DEF AuthorityFits, MetadataStages
  <2>2. CASE ~blank
    BY <2>2, <1>2, <1>8 DEF AuthorityFits
  <2>3. QED
    BY <2>1, <2>2
<1>12. QED
  BY <1>9, <1>10, <1>11 DEF AuthInv

LEMMA RegisteredKeeps ==
  ASSUME AuthInv, ClientRegistered
  PROVE  AuthInv'
<1>1. MaxRedirects \in Nat
  BY McpAuthorizationAssumption
<1>2. /\ UNCHANGED <<endpoints, blank>> /\ step = "register" /\ step' = "call" /\ retried' = TRUE
      /\ left' = 0 /\ visited' = {} /\ found' = "" /\ client' = [with |-> Fallback, expired |-> FALSE] /\ Sends
  BY DEF ClientRegistered, AtRest, Retry
<1>3. Cardinality(visited') = 0 /\ IsFiniteSet(visited')
  BY <1>2, NoneVisited
<1>4. sent' \in Nat /\ sent' <= MostRequests - 1
  <2>1. sent <= MostRequests - 2
    BY <1>2 DEF AuthInv, BudgetFits
  <2>2. Sends
    BY <1>2
  <2>3. QED
    BY <2>1, <2>2, OneSent, Costs
<1>5. Fallback \in Owners
  BY DEF Fallback, AuthInv, AuthTypeOK, Owners
<1>6. AuthTypeOK'
  <2>1. client' \in [with : Owners, expired : BOOLEAN]
    BY <1>2, <1>5
  <2>2. left' \in 0..3
    <3>1. left' = 0
      BY <1>2
    <3>2. QED
      BY <3>1
  <2>3. QED
    BY <2>1, <2>2, <1>2, <1>3, <1>4, NoneVisited DEF AuthInv, AuthTypeOK, AuthSteps, Owners
<1>7. BudgetFits'
  BY <1>1, <1>2, <1>4 DEF BudgetFits
<1>8. AuthorityFits'
  BY <1>2 DEF AuthInv, AuthorityFits, MetadataStages
<1>9. QED
  BY <1>6, <1>7, <1>8 DEF AuthInv

LEMMA BetweenCallsKeeps ==
  ASSUME AuthInv,
         \/ SecretExpires
         \/ \E a, t \in {"", "user"}, id \in BOOLEAN : EditConfiguration([authorize |-> a, token |-> t], id)
         \/ UNCHANGED authVars
  PROVE  AuthInv'
<1>1. CASE UNCHANGED authVars
  BY <1>1 DEF authVars, AuthInv, AuthTypeOK, BudgetFits, AuthorityFits, Fallback
<1>2. CASE SecretExpires
  <2>1. UNCHANGED <<step, retried, endpoints, left, visited, found, blank, sent>>
    BY <1>2 DEF SecretExpires
  <2>2. client' \in [with : Owners, expired : BOOLEAN] /\ client'.with = client.with
    BY <1>2 DEF SecretExpires, AuthInv, AuthTypeOK
  <2>3. QED
    BY <2>1, <2>2 DEF AuthInv, AuthTypeOK, BudgetFits, AuthorityFits, Fallback
<1>3. ASSUME NEW a \in {"", "user"}, NEW t \in {"", "user"}, NEW id \in BOOLEAN,
             EditConfiguration([authorize |-> a, token |-> t], id)
      PROVE  AuthInv'
  <2>1. UNCHANGED <<step, retried, left, visited, found, sent>> /\ step \in {"done", "failed"}
    BY <1>3 DEF EditConfiguration
  <2>2. endpoints' \in [authorize : Owners, token : Owners] /\ client' \in [with : Owners, expired : BOOLEAN]
        /\ client'.with = "" /\ blank' = FALSE
    BY <1>3 DEF EditConfiguration, NoClient, Owners
  <2>3. QED
    BY <2>1, <2>2 DEF AuthInv, AuthTypeOK, BudgetFits, AuthorityFits
<1>4. QED
  BY <1>1, <1>2, <1>3

\* However the servers answer, redirect and refuse, and for any limit on the
\* redirects: a call sends a bounded number of requests, and a discovery that
\* began without endpoints takes all it stores from one authority.
THEOREM AuthorizationStaysSound == McpAuthSpec => []McpAuthorizationSound
<1>1. McpAuthInit => AuthInv
  BY AuthInvInit
<1>2. AuthInv /\ [McpAuthNext]_authVars => AuthInv'
  <2> SUFFICES ASSUME AuthInv, [McpAuthNext]_authVars PROVE AuthInv'
    OBVIOUS
  <2>1. CASE StartMcpCall \/ CallAnswered \/ CallFails \/ RefusedWhileReady \/ InsufficientScope
    BY <2>1, CallKeeps
  <2>2. CASE RefusedStartsDiscovery
    BY <2>2, DiscoveryStartKeeps
  <2>3. CASE DiscoveryFails
    BY <2>3, DiscoveryFailsKeeps
  <2>4. ASSUME NEW l \in Locations, Redirected(l) PROVE AuthInv'
    BY <2>4, RedirectedKeeps
  <2>5. CASE MetadataUseless
    BY <2>5, UselessKeeps
  <2>6. CASE ResourceUnknown \/ \E a \in Authorities : ResourceDescribed(a)
    BY <2>6, AskServerKeeps
  <2>7. CASE ServerDescribed \/ ServerUnknown
    BY <2>7, ServerSettledKeeps DEF ServerDescribed, ServerUnknown, Fallback
  <2>8. CASE ClientRegistered
    BY <2>8, RegisteredKeeps
  <2>9. CASE \/ SecretExpires
             \/ \E a, t \in {"", "user"}, id \in BOOLEAN : EditConfiguration([authorize |-> a, token |-> t], id)
             \/ UNCHANGED authVars
    BY <2>9, BetweenCallsKeeps
  <2>10. QED
    BY <2>1, <2>2, <2>3, <2>4, <2>5, <2>6, <2>7, <2>8, <2>9 DEF McpAuthNext
<1>3. AuthInv => McpAuthorizationSound
  <2> SUFFICES ASSUME AuthInv PROVE McpAuthorizationSound
    OBVIOUS
  <2>1. MaxRedirects \in Nat /\ Cardinality(visited) \in Nat
    BY McpAuthorizationAssumption, FS_CardinalityType DEF AuthInv, AuthTypeOK
  <2>2. RequestsBounded
    BY <2>1 DEF AuthInv, AuthTypeOK, AuthSteps, BudgetFits, Cost, MostRequests, RequestsBounded
  <2>3. OneAuthority
    BY DEF AuthInv, AuthorityFits, OneAuthority
  <2>4. QED
    BY <2>2, <2>3 DEF McpAuthorizationSound
<1>4. QED
  BY <1>1, <1>2, <1>3, PTL DEF McpAuthSpec

-----------------------------------------------------------------------------
(***************************************************************************)
(* The renderer's MCP client: McpClientSound.                              *)
(***************************************************************************)

Fps == Settings \cup {"none", CHOOSE s \in Settings : TRUE}
SessionIds == ConnectionIds \cup {0}
Sessions == [fp : Fps, sid : SessionIds, conn : SessionIds, subscribed : BOOLEAN, moved : BOOLEAN]
Remotes == [alive : BOOLEAN, used : BOOLEAN, subscribed : BOOLEAN, unheard : {"none", "sent", "taken"}]
McpPcs == {"idle", "init", "inited", "call", "probe", "closing"}
McpKinds == {"none", "discover", "invoke", "subscribe", "unsubscribe", "disconnect", "delete"}
McpAnswers == {"none", "ok", "challenge", "failed", "gone", "aborted", "rpcError", "has", "has not", "closed"}
McpOperations ==
    [pc : McpPcs, kind : McpKinds, fp : Fps, sid : SessionIds, hist : SessionIds, oauth : BOOLEAN,
     recovered : BOOLEAN, valid : BOOLEAN, faulted : BOOLEAN, aborted : BOOLEAN, left : Nat, answer : McpAnswers]

ClientTypeOK ==
    /\ mcpTransport \in {"http", "stdio"} /\ settings \in Fps
    /\ session \in Sessions /\ remote \in [ConnectionIds -> Remotes]
    /\ process \in SessionIds /\ processes \in 0..MaxConnections
    /\ operation \in McpOperations /\ notice \in [fp : Fps, sid : SessionIds]
    /\ fault \in {"none", "sent", "missed"}
    /\ channel \in [valid : BOOLEAN, fp : Fps, own : BOOLEAN]
    /\ connections \in [ConnectionIds -> {"none", "open", "ended"}]

OneOpen == \A i, j \in ConnectionIds : connections[i] = "open" /\ connections[j] = "open" => i = j

\* An answer belongs to an operation, the channel's owner to a native call; a
\* disconnect has no revision, and there are no notices over STDIO.
AnswersFit ==
    /\ operation.answer # "none" => operation.pc # "idle"
    /\ operation.pc = "closing" => ~operation.valid
    /\ channel.own => mcpTransport = "stdio" /\ operation.pc \in {"call", "probe"}
    /\ mcpTransport = "stdio" => notice = NoNotice

\* Over HTTP: an id was given out once, to one fingerprint; an entry that has
\* subscriptions and was not moved has the id the operation works with.
Calling == operation.pc \in {"init", "inited", "call"}

IdsUsed ==
    /\ session.sid # 0 => remote[session.sid].used
    /\ notice.sid # 0 => remote[notice.sid].used
    /\ Calling /\ operation.sid # 0 => remote[operation.sid].used

IdsOwned ==
    /\ session.sid # 0 /\ session.sid = notice.sid => session.fp = notice.fp
    /\ Calling /\ operation.sid # 0 /\ operation.sid = session.sid => operation.fp = session.fp
    /\ Calling /\ operation.sid # 0 /\ operation.sid = notice.sid => operation.fp = notice.fp

EntryFits ==
    /\ operation.pc \in {"init", "inited"} => ~session.subscribed
    /\ operation.pc = "call" /\ ~session.moved =>
         /\ session.subscribed => session.sid = operation.sid
         /\ operation.sid = 0 => session.sid = 0

SubscribedThere ==
    /\ operation.pc = "call" /\ operation.kind = "subscribe" /\ operation.answer = "ok"
    /\ operation.sid # 0 /\ remote[operation.sid].alive /\ remote[operation.sid].unheard = "none"
    => remote[operation.sid].subscribed

\* What is shown as subscribed is, but for an unsubscribe that was answered.
UnsubscribeAnswered == operation.pc = "call" /\ operation.kind = "unsubscribe" /\ operation.answer = "ok"
ShownFits ==
    /\ session.sid # 0 /\ session.subscribed /\ ~session.moved /\ ~UnsubscribeAnswered
    /\ remote[session.sid].alive /\ remote[session.sid].unheard = "none"
    => remote[session.sid].subscribed

HttpFits ==
    mcpTransport = "http" =>
        IdsUsed /\ IdsOwned /\ EntryFits /\ SubscribedThere /\ ShownFits

\* Over STDIO: an operation whose revision is old has no entry to renew; what
\* was answered under a close that goes on is noted as missed; and an entry
\* has a process but for a failure that is about to remove it.
Answering == operation.answer \in {"ok", "rpcError", "has"} /\ operation.valid

StdioFits ==
    mcpTransport = "stdio" =>
        /\ operation.pc # "idle" /\ ~operation.valid => session = NoSession
        /\ (session # NoSession \/ Answering) /\ ending # {} => fault # "none"
        /\ Answering /\ ending = {} /\ fault = "none" => process # 0
        /\ session # NoSession /\ ending = {} /\ fault = "none" => process # 0 \/ operation.answer = "failed"

ClientInv == ClientTypeOK /\ OneOpen /\ AnswersFit /\ HttpFits /\ StdioFits

-----------------------------------------------------------------------------
LEMMA EmptyRecords ==
  /\ NoSession \in Sessions /\ NoSession.sid = 0 /\ NoSession.conn = 0 /\ ~NoSession.subscribed
  /\ NoOperation \in McpOperations /\ NoOperation.pc = "idle" /\ NoOperation.answer = "none"
  /\ ~NoOperation.valid /\ NoOperation.sid = 0
  /\ NoNotice \in [fp : Fps, sid : SessionIds] /\ NoNotice.sid = 0
<1>1. "none" \in Fps /\ 0 \in SessionIds /\ 0 \in Nat
  BY DEF Fps, SessionIds
<1>2. NoSession \in Sessions /\ NoSession.sid = 0 /\ NoSession.conn = 0 /\ ~NoSession.subscribed
  BY <1>1 DEF NoSession, Sessions
<1>3. NoOperation \in McpOperations /\ NoOperation.pc = "idle" /\ NoOperation.answer = "none"
      /\ ~NoOperation.valid /\ NoOperation.sid = 0
  BY <1>1 DEF NoOperation, McpOperations, McpPcs, McpKinds, McpAnswers
<1>4. NoNotice \in [fp : Fps, sid : SessionIds] /\ NoNotice.sid = 0
  BY <1>1 DEF NoNotice
<1>5. QED
  BY <1>2, <1>3, <1>4

\* The saved connections an action leaves.
LEMMA FinishedFits ==
  ASSUME ClientInv, NEW i
  PROVE  /\ FinishedConnection(i) \in [ConnectionIds -> {"none", "open", "ended"}]
         /\ \A j, k \in ConnectionIds :
              FinishedConnection(i)[j] = "open" /\ FinishedConnection(i)[k] = "open" => j = k
  BY DEF FinishedConnection, ClientInv, ClientTypeOK, OneOpen

LEMMA RetainedFits ==
  ASSUME NEW i
  PROVE  /\ RetainedConnections(i) \in [ConnectionIds -> {"none", "open", "ended"}]
         /\ \A j, k \in ConnectionIds :
              RetainedConnections(i)[j] = "open" /\ RetainedConnections(i)[k] = "open" => j = k
<1>1. ASSUME NEW j \in ConnectionIds
      PROVE  RetainedConnections(i)[j] \in {"none", "open", "ended"} /\ (RetainedConnections(i)[j] = "open" => j = i)
  BY DEF RetainedConnections, Unsaved
<1>2. QED
  BY <1>1 DEF RetainedConnections

\* How an operation ends or goes on with the next page of a list.
NextPage ==
    [operation EXCEPT !.left = @ - 1, !.pc = "call", !.answer = "none", !.oauth = FALSE,
                      !.recovered = FALSE, !.valid = ~Http, !.faulted = FALSE]

LEMMA NextPageFits ==
  ASSUME ClientInv, operation.left > 1
  PROVE  /\ NextPage \in McpOperations /\ NextPage.pc = "call" /\ NextPage.answer = "none"
         /\ NextPage.sid = operation.sid /\ NextPage.fp = operation.fp /\ NextPage.kind = operation.kind
         /\ NextPage.valid = ~Http
<1>1. operation \in McpOperations
  BY DEF ClientInv, ClientTypeOK
<1>2. operation.left - 1 \in Nat
  <2>1. operation.left \in Nat
    BY <1>1 DEF McpOperations
  <2>2. QED
    BY <2>1
<1>3. (~Http) \in BOOLEAN
  OBVIOUS
<1>4. QED
  BY <1>1, <1>2, <1>3 DEF NextPage, McpOperations, McpPcs, McpAnswers

LEMMA OperationGoesOn ==
  ASSUME ClientInv, NEW live, NextListCall(live) \/ OperationFails(live) \/ OperationEnds \/ OperationCallFails(live)
  PROVE  /\ settings' \in Fps /\ connections' \in [ConnectionIds -> {"none", "open", "ended"}] /\ OneOpen'
         /\ \/ operation' = NoOperation
            \/ /\ operation.left > 1 /\ operation' = NextPage
               /\ NextListCall(live) \/ operation.pc = "call"
<1>1. CASE OperationFails(live)
  <2>1. operation' = NoOperation /\ settings' = settings
    BY <1>1 DEF OperationFails
  <2>2. connections' = connections \/ connections' = FinishedConnection(operation.hist)
    BY <1>1 DEF OperationFails
  <2>3. QED
    BY <2>1, <2>2, FinishedFits DEF ClientInv, ClientTypeOK, OneOpen
<1>2. CASE OperationEnds
  <2>1. operation' = NoOperation /\ settings' = operation.fp /\ connections' = connections
    BY <1>2 DEF OperationEnds
  <2>2. operation.fp \in Fps
    BY DEF ClientInv, ClientTypeOK, McpOperations
  <2>3. QED
    BY <2>1, <2>2 DEF ClientInv, ClientTypeOK, OneOpen
<1>3. CASE NextListCall(live)
  <2>1. CASE operation.left > 1 /\ operation' = NextPage /\ UNCHANGED <<settings, connections>>
    BY <1>3, <2>1 DEF ClientInv, ClientTypeOK, OneOpen
  <2>2. QED
    BY <1>2, <1>3, <2>1 DEF NextListCall, NextPage
<1>4. CASE OperationCallFails(live)
  <2>1. OperationFails(live) \/ (operation.pc = "call" /\ NextListCall(live))
    BY <1>4 DEF OperationCallFails
  <2>2. QED
    BY <1>1, <1>3, <2>1
<1>5. QED
  BY <1>1, <1>2, <1>3, <1>4

LEMMA ClientInvInit ==
  ASSUME McpInit
  PROVE  ClientInv
<1>1. MaxConnections \in Nat
  BY McpClientAssumptions
<1>2. ClientTypeOK
  <2>1. remote \in [ConnectionIds -> Remotes]
    BY DEF McpInit, Remotes, Unused
  <2>2. process \in SessionIds
    BY DEF McpInit, SessionIds
  <2>3. processes \in 0..MaxConnections
    <3>1. processes = 0
      BY DEF McpInit
    <3>2. QED
      BY <1>1, <3>1
  <2>4. settings \in Fps
    BY DEF McpInit, Fps
  <2>5. channel \in [valid : BOOLEAN, fp : Fps, own : BOOLEAN]
    BY DEF McpInit, NoChannel, Fps
  <2>6. connections \in [ConnectionIds -> {"none", "open", "ended"}]
    BY DEF McpInit, Unsaved
  <2>7. session \in Sessions /\ operation \in McpOperations /\ notice \in [fp : Fps, sid : SessionIds]
    BY EmptyRecords DEF McpInit
  <2>8. mcpTransport \in {"http", "stdio"} /\ fault \in {"none", "sent", "missed"}
    BY DEF McpInit
  <2>9. QED
    BY <2>1, <2>2, <2>3, <2>4, <2>5, <2>6, <2>7, <2>8 DEF ClientTypeOK
<1>3. OneOpen
  BY DEF McpInit, OneOpen, Unsaved
<1>4. AnswersFit
  BY EmptyRecords DEF McpInit, AnswersFit, NoChannel
<1>5. HttpFits
  BY EmptyRecords DEF McpInit, HttpFits, IdsUsed, IdsOwned, EntryFits, SubscribedThere, ShownFits, UnsubscribeAnswered, Calling
<1>6. StdioFits
  BY EmptyRecords DEF McpInit, StdioFits, Answering
<1>7. QED
  BY <1>2, <1>3, <1>4, <1>5, <1>6 DEF ClientInv

\* What an operation starts with.
LEMMA FreshFits ==
  ASSUME MayConnect
  PROVE  FreshConnection \in ConnectionIds
<1>1. \E i \in ConnectionIds : \A j \in Saved \cup {session.conn, 0} : j < i
  BY DEF MayConnect
<1>2. QED
  BY <1>1 DEF FreshConnection

LEMMA StartMcpOperationKeeps ==
  ASSUME ClientInv, NEW kind \in {"discover", "invoke"} \cup Toggles, StartMcpOperation(kind)
  PROVE  ClientInv'
<1> DEFINE hist == HistoryFor
           reuse == Current(settings)
           op == [NoOperation EXCEPT !.pc = IF Http /\ ~reuse THEN "init" ELSE "call", !.kind = kind,
                    !.fp = settings, !.sid = IF Http /\ reuse THEN session.sid ELSE 0, !.hist = hist,
                    !.valid = ~Http, !.left = IF kind = "discover" THEN MaxListCalls ELSE 1]
<1>1. /\ operation = NoOperation /\ operation' = op
      /\ session' = IF Http /\ ~reuse THEN NoSession ELSE session
      /\ channel' = [channel EXCEPT !.own = FALSE]
      /\ connections' = connections \/ connections' = RetainedConnections(hist)
      /\ UNCHANGED <<mcpTransport, settings, changes, remote, process, processes, notice, ending, fault>>
  BY DEF StartMcpOperation
<1>2. hist \in SessionIds
  <2>1. CASE reuse
    BY <2>1 DEF HistoryFor, ClientInv, ClientTypeOK, Sessions
  <2>2. CASE ~reuse
    <3>1. MayConnect
      BY <2>2 DEF StartMcpOperation
    <3>2. QED
      BY <2>2, <3>1, FreshFits DEF HistoryFor, SessionIds
  <2>3. QED
    BY <2>1, <2>2
<1>3. session \in Sessions /\ session.sid \in SessionIds /\ settings \in Fps /\ 0 \in SessionIds
  BY DEF ClientInv, ClientTypeOK, Sessions, SessionIds
<1> HIDE DEF hist
<1>4. /\ op \in McpOperations /\ op.kind = kind /\ op.fp = settings /\ op.valid = ~Http /\ op.answer = "none"
      /\ op.pc = IF Http /\ ~reuse THEN "init" ELSE "call"
      /\ op.sid = IF Http /\ reuse THEN session.sid ELSE 0
  <2>1. (IF kind = "discover" THEN MaxListCalls ELSE 1) \in Nat
    BY McpClientAssumptions
  <2>2. (IF Http /\ ~reuse THEN "init" ELSE "call") \in McpPcs /\ kind \in McpKinds
    BY DEF McpPcs, McpKinds, Toggles
  <2>3. (IF Http /\ reuse THEN session.sid ELSE 0) \in SessionIds
    BY <1>3
  <2>4. (~Http) \in BOOLEAN
    OBVIOUS
  <2>5. NoOperation \in McpOperations /\ NoOperation.answer = "none"
    BY EmptyRecords
  <2>6. QED
    BY <2>1, <2>2, <2>3, <2>4, <2>5, <1>2, <1>3 DEF McpOperations
<1> HIDE DEF op
<1>5. ClientTypeOK'
  <2>1. session' \in Sessions
    BY <1>1, <1>3, EmptyRecords
  <2>2. connections' \in [ConnectionIds -> {"none", "open", "ended"}]
    BY <1>1, RetainedFits DEF ClientInv, ClientTypeOK
  <2>3. channel' \in [valid : BOOLEAN, fp : Fps, own : BOOLEAN]
    BY <1>1 DEF ClientInv, ClientTypeOK
  <2>4. QED
    BY <1>1, <1>4, <2>1, <2>2, <2>3 DEF ClientInv, ClientTypeOK
<1>6. OneOpen'
  BY <1>1, RetainedFits DEF ClientInv, OneOpen
<1>7. AnswersFit'
  BY <1>1, <1>4 DEF AnswersFit, ClientInv, ClientTypeOK
<1>8. HttpFits'
  <2>1. CASE Http /\ reuse
    <3>1. session' = session /\ operation'.sid = session.sid /\ operation'.fp = session.fp /\ operation'.pc = "call"
      BY <2>1, <1>1, <1>4 DEF Current
    <3>2. QED
      BY <2>1, <3>1, <1>1, <1>4, EmptyRecords DEF ClientInv, HttpFits, IdsUsed, IdsOwned, EntryFits, SubscribedThere, ShownFits, UnsubscribeAnswered, Calling, Http
  <2>2. CASE Http /\ ~reuse
    <3>1. session' = NoSession /\ operation'.sid = 0 /\ operation'.pc = "init"
      BY <2>2, <1>1, <1>4
    <3>2. QED
      BY <2>2, <3>1, <1>1, <1>4, EmptyRecords
      DEF ClientInv, HttpFits, IdsUsed, IdsOwned, EntryFits, SubscribedThere, ShownFits, UnsubscribeAnswered, Calling, Http
  <2>3. CASE ~Http
    BY <2>3, <1>1 DEF HttpFits, Http
  <2>4. QED
    BY <2>1, <2>2, <2>3
<1>9. StdioFits'
  <2>1. CASE ~Http
    <3>1. session' = session /\ operation'.valid /\ operation'.answer = "none"
      BY <2>1, <1>1, <1>4
    <3>2. ~Answering' /\ operation.answer = "none"
      BY <3>1, <1>1, EmptyRecords DEF Answering
    <3>3. QED
      BY <2>1, <3>1, <3>2, <1>1 DEF ClientInv, StdioFits
  <2>2. CASE Http
    BY <2>2, <1>1 DEF StdioFits, Http
  <2>3. QED
    BY <2>1, <2>2
<1>10. QED
  BY <1>5, <1>6, <1>7, <1>8, <1>9 DEF ClientInv

LEMMA ServerAnswersKeeps ==
  ASSUME ClientInv, ServerAnswers
  PROVE  ClientInv'
<1>1. Http /\ operation.pc \in {"init", "inited", "call"} /\ operation.answer = "none"
      /\ UNCHANGED <<mcpTransport, settings, changes, session, process, processes, notice, ending, fault, channel, connections>>
  BY DEF ServerAnswers
<1>2. operation \in McpOperations /\ remote \in [ConnectionIds -> Remotes] /\ session.sid \in SessionIds
      /\ notice.sid \in SessionIds /\ operation.sid \in SessionIds
  BY DEF ClientInv, ClientTypeOK, Sessions, McpOperations
<1>3. \/ \E answer \in {"challenge", "failed", "gone", "ok"} :
           /\ operation' = [operation EXCEPT !.answer = answer] /\ remote' = remote
           /\ answer = "ok" => ~(operation.kind = "subscribe" /\ Toggling) \/ operation.pc # "call"
      \/ operation.pc = "init" /\ operation' = [operation EXCEPT !.answer = "ok", !.sid = 0] /\ remote' = remote
      \/ \E s \in ConnectionIds :
           /\ operation.pc = "init" /\ ~remote[s].used
           /\ remote' = [remote EXCEPT ![s] = GivenOut(TRUE)]
           /\ operation' = [operation EXCEPT !.answer = "ok", !.sid = s]
      \/ /\ Toggling /\ operation.kind = "unsubscribe"
         /\ operation' = [operation EXCEPT !.answer = "failed"]
         /\ remote' = [remote EXCEPT ![operation.sid].unheard = "sent"]
      \/ \E answer \in {"failed", "ok"} :
           /\ Toggling /\ (answer = "failed" => operation.kind = "subscribe")
           /\ operation' = [operation EXCEPT !.answer = answer]
           /\ remote' = [remote EXCEPT ![operation.sid].subscribed = (operation.kind = "subscribe")]
  BY DEF ServerAnswers, Toggled, Unheard, Toggling, Toggles
<1>4. ASSUME NEW answer \in {"challenge", "failed", "gone", "ok"},
             operation' = [operation EXCEPT !.answer = answer], remote' = remote,
             answer = "ok" => ~(operation.kind = "subscribe" /\ Toggling) \/ operation.pc # "call"
      PROVE  ClientInv'
  <2>2. /\ operation' \in McpOperations /\ operation'.pc = operation.pc /\ operation'.sid = operation.sid
        /\ operation'.fp = operation.fp /\ operation'.kind = operation.kind /\ operation'.answer = answer
    BY <1>2, <1>4 DEF McpOperations, McpAnswers
  <2>3. ClientTypeOK' /\ OneOpen' /\ AnswersFit' /\ StdioFits'
    BY <1>1, <1>4, <2>2 DEF ClientInv, ClientTypeOK, OneOpen, AnswersFit, StdioFits, Http
  <2>4. HttpFits'
    BY <1>1, <1>4, <2>2 DEF ClientInv, HttpFits, IdsUsed, IdsOwned, EntryFits, SubscribedThere, ShownFits, UnsubscribeAnswered, Calling, Toggling, Toggles
  <2>5. QED
    BY <2>3, <2>4 DEF ClientInv
<1>5. CASE operation.pc = "init" /\ operation' = [operation EXCEPT !.answer = "ok", !.sid = 0] /\ remote' = remote
  <2>1. /\ operation' \in McpOperations /\ operation'.pc = operation.pc /\ operation'.sid = 0
        /\ operation'.fp = operation.fp /\ operation'.kind = operation.kind
    BY <1>2, <1>5 DEF McpOperations, McpAnswers, SessionIds
  <2>2. ClientTypeOK' /\ OneOpen' /\ AnswersFit' /\ StdioFits'
    BY <1>1, <1>5, <2>1 DEF ClientInv, ClientTypeOK, OneOpen, AnswersFit, StdioFits, Http
  <2>3. HttpFits'
    BY <1>1, <1>5, <2>1 DEF ClientInv, HttpFits, IdsUsed, IdsOwned, EntryFits, SubscribedThere, ShownFits, UnsubscribeAnswered, Calling
  <2>4. QED
    BY <2>2, <2>3 DEF ClientInv
<1>6. ASSUME NEW s \in ConnectionIds, operation.pc = "init", ~remote[s].used,
             remote' = [remote EXCEPT ![s] = GivenOut(TRUE)],
             operation' = [operation EXCEPT !.answer = "ok", !.sid = s]
      PROVE  ClientInv'
  <2>1. /\ operation' \in McpOperations /\ operation'.pc = operation.pc /\ operation'.sid = s
        /\ operation'.fp = operation.fp /\ operation'.kind = operation.kind
    BY <1>2, <1>6 DEF McpOperations, McpAnswers, SessionIds
  <2>2. /\ remote' \in [ConnectionIds -> Remotes] /\ remote'[s].used
        /\ \A i \in ConnectionIds : i # s => remote'[i] = remote[i]
    BY <1>2, <1>6 DEF Remotes, GivenOut
  <2>3. ClientTypeOK' /\ OneOpen' /\ AnswersFit' /\ StdioFits'
    BY <1>1, <1>6, <2>1, <2>2 DEF ClientInv, ClientTypeOK, OneOpen, AnswersFit, StdioFits, Http
  <2>4. /\ session.sid # 0 => session.sid \in ConnectionIds /\ session.sid # s
        /\ notice.sid # 0 => notice.sid \in ConnectionIds /\ notice.sid # s
    BY <1>1, <1>2, <1>6 DEF ClientInv, HttpFits, IdsUsed, Http, SessionIds
  <2>5. HttpFits'
    BY <1>1, <1>6, <2>1, <2>2, <2>4 DEF ClientInv, HttpFits, IdsUsed, IdsOwned, EntryFits, SubscribedThere, ShownFits, UnsubscribeAnswered, Calling, Http
  <2>6. QED
    BY <2>3, <2>5 DEF ClientInv
<1>7. ASSUME NEW answer \in {"failed", "ok"}, Toggling, operation' = [operation EXCEPT !.answer = answer],
             \/ /\ operation.kind = "unsubscribe" /\ answer = "failed"
                /\ remote' = [remote EXCEPT ![operation.sid].unheard = "sent"]
             \/ /\ answer = "failed" => operation.kind = "subscribe"
                /\ remote' = [remote EXCEPT ![operation.sid].subscribed = (operation.kind = "subscribe")]
      PROVE  ClientInv'
  <2>1. /\ operation' \in McpOperations /\ operation'.pc = operation.pc /\ operation'.sid = operation.sid
        /\ operation'.fp = operation.fp /\ operation'.kind = operation.kind /\ operation'.answer = answer
    BY <1>2, <1>7 DEF McpOperations, McpAnswers
  <2>2. operation.sid \in ConnectionIds /\ operation.pc = "call" /\ operation.kind \in Toggles /\ operation.sid # 0
    BY <1>2, <1>7 DEF SessionIds, Toggling
  <2>3. /\ remote' \in [ConnectionIds -> Remotes]
        /\ \A i \in ConnectionIds : /\ remote'[i].used = remote[i].used /\ remote'[i].alive = remote[i].alive
                                    /\ i # operation.sid => remote'[i] = remote[i]
        /\ \/ /\ operation.kind = "unsubscribe" /\ answer = "failed" /\ remote'[operation.sid].unheard = "sent"
           \/ operation.kind = "unsubscribe" /\ answer = "ok"
           \/ operation.kind = "subscribe" /\ remote'[operation.sid].subscribed
    <3>1. CASE /\ operation.kind = "unsubscribe" /\ answer = "failed"
               /\ remote' = [remote EXCEPT ![operation.sid].unheard = "sent"]
      BY <1>2, <2>2, <3>1 DEF Remotes
    <3>2. CASE /\ answer = "failed" => operation.kind = "subscribe"
               /\ remote' = [remote EXCEPT ![operation.sid].subscribed = (operation.kind = "subscribe")]
      <4>1. (operation.kind = "subscribe") \in BOOLEAN
        OBVIOUS
      <4>2. QED
        BY <1>2, <2>2, <3>2, <4>1 DEF Remotes, Toggles
    <3>3. QED
      BY <1>7, <3>1, <3>2
  <2>4. ClientTypeOK' /\ OneOpen' /\ AnswersFit' /\ StdioFits'
    BY <1>1, <2>1, <2>2, <2>3 DEF ClientInv, ClientTypeOK, OneOpen, AnswersFit, StdioFits, Http
  <2>5. /\ session.sid # 0 => session.sid \in ConnectionIds
        /\ notice.sid # 0 => notice.sid \in ConnectionIds
    BY <1>2 DEF SessionIds
  <2>6. HttpFits'
    BY <1>1, <2>1, <2>2, <2>3, <2>5 DEF ClientInv, HttpFits, IdsUsed, IdsOwned, EntryFits, SubscribedThere, ShownFits, UnsubscribeAnswered, Calling, Http
  <2>7. QED
    BY <2>4, <2>6 DEF ClientInv
<1>8. QED
  BY <1>3, <1>4, <1>5, <1>6, <1>7

LEMMA LateUnsubscribeKeeps ==
  ASSUME ClientInv, NEW s \in ConnectionIds, LateUnsubscribe(s)
  PROVE  ClientInv'
<1>1. /\ Http /\ remote' = [remote EXCEPT ![s].unheard = "taken", ![s].subscribed = FALSE]
      /\ UNCHANGED <<mcpTransport, settings, changes, session, process, processes, operation, notice, ending, fault, channel,
                     connections>>
  BY DEF LateUnsubscribe
<1>2. /\ remote' \in [ConnectionIds -> Remotes] /\ remote'[s].unheard = "taken"
      /\ \A i \in ConnectionIds : /\ remote'[i].used = remote[i].used /\ remote'[i].alive = remote[i].alive
                                  /\ i # s => remote'[i] = remote[i]
  BY <1>1 DEF ClientInv, ClientTypeOK, Remotes
<1>3. /\ session.sid # 0 => session.sid \in ConnectionIds
      /\ notice.sid # 0 => notice.sid \in ConnectionIds
      /\ operation.sid # 0 => operation.sid \in ConnectionIds
  BY DEF ClientInv, ClientTypeOK, Sessions, McpOperations, SessionIds
<1>4. ClientTypeOK' /\ OneOpen' /\ AnswersFit' /\ StdioFits'
  BY <1>1, <1>2 DEF ClientInv, ClientTypeOK, OneOpen, AnswersFit, StdioFits, Http
<1>5. HttpFits'
  BY <1>1, <1>2, <1>3 DEF ClientInv, HttpFits, IdsUsed, IdsOwned, EntryFits, SubscribedThere, ShownFits, UnsubscribeAnswered, Calling, Http
<1>6. QED
  BY <1>4, <1>5 DEF ClientInv

LEMMA OAuthRetryKeeps ==
  ASSUME ClientInv, OAuthRetry
  PROVE  ClientInv'
<1>1. Http /\ UNCHANGED <<mcpTransport, changes, session, remote, process, processes, notice, ending, fault, channel>>
      /\ operation.answer = "challenge"
  BY DEF OAuthRetry
<1>2. operation \in McpOperations /\ ~channel.own
  BY <1>1 DEF ClientInv, ClientTypeOK, AnswersFit, Http
<1>3. CASE /\ operation' = [operation EXCEPT !.oauth = TRUE, !.answer = "none"]
           /\ settings' = operation.fp /\ UNCHANGED connections
  <2>1. /\ operation' \in McpOperations /\ operation'.pc = operation.pc /\ operation'.sid = operation.sid
        /\ operation'.fp = operation.fp /\ operation'.kind = operation.kind /\ operation'.answer = "none"
        /\ operation.fp \in Fps
    BY <1>2, <1>3 DEF McpOperations, McpAnswers
  <2>2. ClientTypeOK' /\ OneOpen' /\ AnswersFit' /\ StdioFits'
    BY <1>1, <1>2, <1>3, <2>1 DEF ClientInv, ClientTypeOK, OneOpen, AnswersFit, StdioFits, Http
  <2>3. HttpFits'
    BY <1>1, <1>3, <2>1 DEF ClientInv, HttpFits, IdsUsed, IdsOwned, EntryFits, SubscribedThere, ShownFits, UnsubscribeAnswered, Calling
  <2>4. QED
    BY <2>2, <2>3 DEF ClientInv
<1>4. CASE OperationCallFails(session)
  <2>1. /\ settings' \in Fps /\ connections' \in [ConnectionIds -> {"none", "open", "ended"}] /\ OneOpen'
        /\ \/ operation' = NoOperation
           \/ operation.left > 1 /\ operation' = NextPage
    BY <1>4, OperationGoesOn
  <2>2. operation' = NoOperation \/ (operation' = NextPage /\ operation.pc = "call" /\ operation.left > 1)
    BY <1>4, <2>1 DEF OperationCallFails, OperationFails
  <2>3. CASE operation' = NoOperation
    <3>1. ClientTypeOK' /\ AnswersFit' /\ StdioFits'
      BY <1>1, <1>2, <2>1, <2>3, EmptyRecords DEF ClientInv, ClientTypeOK, AnswersFit, StdioFits, Http
    <3>2. HttpFits'
      BY <1>1, <2>3, EmptyRecords DEF ClientInv, HttpFits, IdsUsed, IdsOwned, EntryFits, SubscribedThere, ShownFits, UnsubscribeAnswered, Calling
    <3>3. QED
      BY <2>1, <3>1, <3>2 DEF ClientInv
  <2>4. CASE operation' = NextPage /\ operation.pc = "call" /\ operation.left > 1
    <3>0. /\ NextPage \in McpOperations /\ NextPage.pc = "call" /\ NextPage.answer = "none"
          /\ NextPage.sid = operation.sid /\ NextPage.fp = operation.fp /\ NextPage.kind = operation.kind
      BY <2>4, NextPageFits
    <3>1. ClientTypeOK' /\ AnswersFit' /\ StdioFits'
      BY <1>1, <1>2, <2>1, <2>4, <3>0 DEF ClientInv, ClientTypeOK, AnswersFit, StdioFits, Http
    <3>2. HttpFits'
      BY <1>1, <2>4, <3>0 DEF ClientInv, HttpFits, IdsUsed, IdsOwned, EntryFits, SubscribedThere, ShownFits, UnsubscribeAnswered, Calling
    <3>3. QED
      BY <2>1, <3>1, <3>2 DEF ClientInv
  <2>5. QED
    BY <2>2, <2>3, <2>4
<1>5. QED
  BY <1>3, <1>4 DEF OAuthRetry

LEMMA RecoverKeeps ==
  ASSUME ClientInv, Recover
  PROVE  ClientInv'
<1>1. /\ Http /\ session' = NoSession /\ channel' = [channel EXCEPT !.valid = FALSE]
      /\ operation' = [operation EXCEPT !.pc = "init", !.recovered = TRUE, !.answer = "none", !.sid = 0,
                         !.oauth = FALSE, !.valid = FALSE]
      /\ UNCHANGED <<mcpTransport, settings, changes, remote, process, processes, notice, ending, fault, connections>>
  BY DEF Recover
<1>2. operation' \in McpOperations /\ operation'.pc = "init" /\ operation'.sid = 0 /\ operation'.answer = "none"
  BY <1>1 DEF ClientInv, ClientTypeOK, McpOperations, McpPcs, McpAnswers, SessionIds
<1>3. channel' \in [valid : BOOLEAN, fp : Fps, own : BOOLEAN] /\ channel'.own = channel.own
  BY <1>1 DEF ClientInv, ClientTypeOK
<1>4. ClientTypeOK' /\ OneOpen' /\ AnswersFit' /\ StdioFits'
  BY <1>1, <1>2, <1>3, EmptyRecords DEF ClientInv, ClientTypeOK, OneOpen, AnswersFit, StdioFits, Http
<1>5. HttpFits'
  BY <1>1, <1>2, EmptyRecords DEF ClientInv, HttpFits, IdsUsed, IdsOwned, EntryFits, SubscribedThere, ShownFits, UnsubscribeAnswered, Calling, Http
<1>6. QED
  BY <1>4, <1>5 DEF ClientInv

\* An operation that ends, or asks for the next page, over HTTP.
LEMMA HttpGoesOn ==
  ASSUME ClientInv, Http, NEW live,
         \/ operation' = NoOperation
         \/ operation' = NextPage /\ operation.pc = "call" /\ operation.left > 1,
         settings' \in Fps, connections' \in [ConnectionIds -> {"none", "open", "ended"}], OneOpen',
         session' \in Sessions, session'.sid # 0 => remote[session'.sid].used,
         session'.sid # 0 /\ session'.sid = notice.sid => session'.fp = notice.fp,
         operation.sid # 0 /\ operation.sid = session'.sid => operation.fp = session'.fp,
         ~session'.moved /\ operation'.pc = "call" =>
           /\ session'.subscribed => session'.sid = operation.sid
           /\ operation.sid = 0 => session'.sid = 0,
         session'.sid # 0 /\ session'.subscribed /\ ~session'.moved /\ remote[session'.sid].alive
           /\ remote[session'.sid].unheard = "none" => remote[session'.sid].subscribed,
         UNCHANGED <<mcpTransport, changes, remote, process, processes, notice, ending, fault, channel>>
  PROVE  ClientInv'
<1>1. ~channel.own
  BY DEF ClientInv, AnswersFit, Http
<1>2. CASE operation' = NoOperation
  <2>1. ClientTypeOK' /\ AnswersFit' /\ StdioFits'
    BY <1>1, <1>2, EmptyRecords DEF ClientInv, ClientTypeOK, AnswersFit, StdioFits, Http
  <2>2. HttpFits'
    BY <1>2, EmptyRecords DEF ClientInv, HttpFits, IdsUsed, IdsOwned, EntryFits, SubscribedThere, ShownFits, UnsubscribeAnswered, Calling, Http
  <2>3. QED
    BY <2>1, <2>2 DEF ClientInv
<1>3. CASE operation' = NextPage /\ operation.pc = "call" /\ operation.left > 1
  <2>0. /\ NextPage \in McpOperations /\ NextPage.pc = "call" /\ NextPage.answer = "none"
        /\ NextPage.sid = operation.sid /\ NextPage.fp = operation.fp /\ NextPage.kind = operation.kind
    BY <1>3, NextPageFits
  <2>1. ClientTypeOK' /\ AnswersFit' /\ StdioFits'
    BY <1>1, <1>3, <2>0 DEF ClientInv, ClientTypeOK, AnswersFit, StdioFits, Http
  <2>2. HttpFits'
    BY <1>3, <2>0 DEF ClientInv, HttpFits, IdsUsed, IdsOwned, EntryFits, SubscribedThere, ShownFits, UnsubscribeAnswered, Calling, Http
  <2>3. QED
    BY <2>1, <2>2 DEF ClientInv
<1>4. QED
  BY <1>2, <1>3

LEMMA HttpRepliesKeeps ==
  ASSUME ClientInv, HttpReplies
  PROVE  ClientInv'
<1> DEFINE entry == Remembered(session, operation.fp, operation.sid, operation.hist)
<1>1. Http /\ UNCHANGED <<mcpTransport, changes, remote, process, processes, notice, ending, fault, channel>>
  BY DEF HttpReplies
<1>2. /\ operation \in McpOperations /\ session \in Sessions /\ operation.fp \in Fps
      /\ operation.sid \in SessionIds /\ operation.hist \in SessionIds
  BY DEF ClientInv, ClientTypeOK, McpOperations
<1>3. /\ entry \in Sessions /\ entry.fp = operation.fp /\ entry.sid = operation.sid
      /\ \/ session # NoSession /\ session.fp = operation.fp /\ entry.subscribed = session.subscribed /\ entry.moved = session.moved
         \/ ~(session # NoSession /\ session.fp = operation.fp) /\ entry.subscribed = FALSE /\ entry.moved = FALSE
  BY <1>2 DEF Remembered, Sessions
<1>4. CASE operation.pc = "init" /\ operation.answer = "ok"
           /\ operation' = [operation EXCEPT !.pc = "inited", !.answer = "none", !.oauth = FALSE]
           /\ UNCHANGED <<session, settings, connections>>
  <2>1. /\ operation' \in McpOperations /\ operation'.pc = "inited" /\ operation'.sid = operation.sid
        /\ operation'.fp = operation.fp /\ operation'.answer = "none"
    BY <1>2, <1>4 DEF McpOperations, McpAnswers, McpPcs
  <2>2. ClientTypeOK' /\ OneOpen' /\ AnswersFit' /\ StdioFits'
    BY <1>1, <1>4, <2>1 DEF ClientInv, ClientTypeOK, OneOpen, AnswersFit, StdioFits, Http
  <2>3. HttpFits'
    BY <1>1, <1>4, <2>1 DEF ClientInv, HttpFits, IdsUsed, IdsOwned, EntryFits, SubscribedThere, ShownFits, UnsubscribeAnswered, Calling
  <2>4. QED
    BY <2>2, <2>3 DEF ClientInv
<1>5. CASE /\ operation.pc = "inited" /\ operation.answer = "ok" /\ session' = entry
           /\ operation' = [operation EXCEPT !.pc = "call", !.answer = "none", !.oauth = FALSE]
           /\ UNCHANGED <<settings, connections>>
  <2>1. /\ operation' \in McpOperations /\ operation'.pc = "call" /\ operation'.sid = operation.sid
        /\ operation'.fp = operation.fp /\ operation'.answer = "none"
    BY <1>2, <1>5 DEF McpOperations, McpAnswers, McpPcs
  <2>2. ClientTypeOK' /\ OneOpen' /\ AnswersFit' /\ StdioFits'
    BY <1>1, <1>3, <1>5, <2>1 DEF ClientInv, ClientTypeOK, OneOpen, AnswersFit, StdioFits, Http
  <2>3. ~entry.subscribed
    BY <1>1, <1>3, <1>5 DEF ClientInv, HttpFits, EntryFits, Http
  <2> HIDE DEF entry
  <2>4. HttpFits'
    BY <1>1, <1>3, <1>5, <2>1, <2>3 DEF ClientInv, HttpFits, IdsUsed, IdsOwned, EntryFits, SubscribedThere, ShownFits, UnsubscribeAnswered, Calling
  <2>5. QED
    BY <2>2, <2>4 DEF ClientInv
<1>6. CASE operation.pc = "call" /\ operation.answer = "ok"
  <2> DEFINE live == IF operation.sid = 0 THEN session ELSE entry
  <2>1. \/ /\ operation.kind \in Toggles /\ live.fp = operation.fp
           /\ session' = [live EXCEPT !.subscribed = (operation.kind = "subscribe")] /\ OperationEnds
        \/ /\ operation.kind \notin Toggles \/ operation.sid = 0
           /\ session' = live /\ (NextListCall(live) \/ OperationFails(live))
    <3>1. CASE operation.kind \in Toggles
      <4>1. ToggleEnds(live)
        BY <1>6, <3>1 DEF HttpReplies
      <4>2. operation.sid # 0 => live # NoSession /\ live.fp = operation.fp
        BY <1>3, EmptyRecords
      <4>3. QED
        BY <3>1, <4>1, <4>2 DEF ToggleEnds
    <3>2. CASE operation.kind \notin Toggles
      BY <1>6, <3>2 DEF HttpReplies
    <3>3. QED
      BY <3>1, <3>2
  <2>2. live \in Sessions /\ (operation.sid # 0 => live.sid = operation.sid /\ live.fp = operation.fp)
    BY <1>2, <1>3
  <2>3. /\ live.sid # 0 => remote[live.sid].used
        /\ live.sid # 0 /\ live.sid = notice.sid => live.fp = notice.fp
        /\ operation.sid # 0 /\ operation.sid = live.sid => operation.fp = live.fp
    BY <1>1, <1>3, <1>6 DEF ClientInv, HttpFits, IdsUsed, IdsOwned, Calling, Http
  <2>4. ~live.moved => /\ live.subscribed => live.sid = operation.sid
                       /\ operation.sid = 0 => live.sid = 0
    BY <1>1, <1>3, <1>6 DEF ClientInv, HttpFits, EntryFits, Http
  <2>5. /\ operation.kind \notin Toggles \/ operation.sid = 0
        /\ live.sid # 0 /\ live.subscribed /\ ~live.moved /\ remote[live.sid].alive /\ remote[live.sid].unheard = "none"
        => remote[live.sid].subscribed
    <3>1. CASE operation.sid = 0
      BY <2>4, <3>1
    <3>2. CASE operation.sid # 0 /\ live.subscribed /\ ~live.moved /\ operation.kind \notin Toggles
      <4>1. session.subscribed /\ ~session.moved
        BY <1>3, <3>2
      <4>2. session.sid = operation.sid /\ live.sid = operation.sid
        BY <1>1, <1>6, <2>2, <3>2, <4>1 DEF ClientInv, HttpFits, EntryFits, Http
      <4>3. QED
        BY <1>1, <3>2, <4>1, <4>2 DEF ClientInv, HttpFits, Http, ShownFits, UnsubscribeAnswered, Toggles
    <3>3. QED
      BY <3>1, <3>2
  <2> HIDE DEF live
  <2>6. CASE /\ operation.kind \in Toggles /\ live.fp = operation.fp
             /\ session' = [live EXCEPT !.subscribed = (operation.kind = "subscribe")] /\ OperationEnds
    <3>0. (operation.kind = "subscribe") \in BOOLEAN
      OBVIOUS
    <3>1. /\ session' \in Sessions /\ session'.sid = live.sid /\ session'.fp = live.fp /\ session'.moved = live.moved
          /\ session'.subscribed = (operation.kind = "subscribe")
      BY <2>2, <2>6, <3>0 DEF Sessions
    <3>2. operation' = NoOperation
      BY <2>6 DEF OperationEnds
    <3>3. settings' \in Fps /\ connections' \in [ConnectionIds -> {"none", "open", "ended"}] /\ OneOpen'
      BY <2>6, OperationGoesOn
    <3>4. /\ live.sid # 0 /\ ~live.moved /\ remote[live.sid].alive /\ remote[live.sid].unheard = "none"
          /\ operation.kind = "subscribe"
          => remote[live.sid].subscribed
      <4>1. CASE operation.sid = 0
        BY <2>4, <4>1
      <4>2. CASE operation.sid # 0
        BY <1>1, <1>6, <2>2, <2>6, <4>2 DEF ClientInv, HttpFits, SubscribedThere, Http
      <4>3. QED
        BY <4>1, <4>2
    <3>5. operation'.pc # "call"
      BY <3>2, EmptyRecords
    <3>6. QED
      BY <1>1, <2>3, <3>1, <3>2, <3>3, <3>4, <3>5, HttpGoesOn
  <2>7. CASE /\ operation.kind \notin Toggles \/ operation.sid = 0
             /\ session' = live /\ (NextListCall(live) \/ OperationFails(live))
    <3>1. /\ settings' \in Fps /\ connections' \in [ConnectionIds -> {"none", "open", "ended"}] /\ OneOpen'
          /\ \/ operation' = NoOperation
             \/ operation.left > 1 /\ operation' = NextPage
      BY <2>7, OperationGoesOn
    <3>2. QED
      BY <1>1, <1>6, <2>2, <2>3, <2>4, <2>5, <2>7, <3>1, HttpGoesOn
  <2>8. QED
    BY <2>1, <2>6, <2>7
<1>7. CASE OperationCallFails(session) /\ UNCHANGED session /\ operation.answer \notin {"none", "ok"}
  <2>1. /\ settings' \in Fps /\ connections' \in [ConnectionIds -> {"none", "open", "ended"}] /\ OneOpen'
        /\ \/ operation' = NoOperation
           \/ operation.left > 1 /\ operation' = NextPage
    BY <1>7, OperationGoesOn
  <2>2. operation' = NoOperation \/ (operation' = NextPage /\ operation.pc = "call" /\ operation.left > 1)
    BY <1>7, <2>1 DEF OperationCallFails, OperationFails
  <2>3. CASE operation' = NoOperation
    <3>1. ~channel.own
      BY <1>1 DEF ClientInv, AnswersFit, Http
    <3>2. ClientTypeOK' /\ AnswersFit' /\ StdioFits'
      BY <1>1, <1>7, <2>1, <2>3, <3>1, EmptyRecords DEF ClientInv, ClientTypeOK, AnswersFit, StdioFits, Http
    <3>3. HttpFits'
      BY <1>1, <1>7, <2>3, EmptyRecords DEF ClientInv, HttpFits, IdsUsed, IdsOwned, EntryFits, SubscribedThere, ShownFits, UnsubscribeAnswered, Calling
    <3>4. QED
      BY <2>1, <3>2, <3>3 DEF ClientInv
  <2>4. CASE operation' = NextPage /\ operation.pc = "call" /\ operation.left > 1
    <3>1. /\ session.sid # 0 => remote[session.sid].used
          /\ session.sid # 0 /\ session.sid = notice.sid => session.fp = notice.fp
          /\ operation.sid # 0 /\ operation.sid = session.sid => operation.fp = session.fp
      BY <1>1, <2>4 DEF ClientInv, HttpFits, IdsUsed, IdsOwned, Calling, Http
    <3>2. /\ ~session.moved => /\ session.subscribed => session.sid = operation.sid
                               /\ operation.sid = 0 => session.sid = 0
          /\ session.sid # 0 /\ session.subscribed /\ ~session.moved /\ remote[session.sid].alive
             /\ remote[session.sid].unheard = "none" => remote[session.sid].subscribed
      BY <1>1, <1>7, <2>4 DEF ClientInv, HttpFits, EntryFits, Http, ShownFits, UnsubscribeAnswered
    <3>3. QED
      BY <1>1, <1>2, <1>7, <2>1, <2>4, <3>1, <3>2, HttpGoesOn
  <2>5. QED
    BY <2>2, <2>3, <2>4
<1>8. QED
  BY <1>4, <1>5, <1>6, <1>7 DEF HttpReplies

LEMMA StartNoticeKeeps ==
  ASSUME ClientInv, StartNotice
  PROVE  ClientInv'
<1>1. /\ Http /\ Current(settings) /\ notice' = [fp |-> settings, sid |-> session.sid]
      /\ UNCHANGED <<mcpTransport, settings, changes, session, remote, process, processes, operation, ending, fault, channel,
                     connections>>
  BY DEF StartNotice
<1>2. notice' \in [fp : Fps, sid : SessionIds] /\ notice'.sid = session.sid /\ notice'.fp = session.fp
  BY <1>1 DEF ClientInv, ClientTypeOK, Sessions, Current
<1>3. ClientTypeOK' /\ OneOpen' /\ AnswersFit' /\ StdioFits'
  BY <1>1, <1>2 DEF ClientInv, ClientTypeOK, OneOpen, AnswersFit, StdioFits, Http
<1>4. HttpFits'
  BY <1>1, <1>2 DEF ClientInv, HttpFits, IdsUsed, IdsOwned, EntryFits, SubscribedThere, ShownFits, UnsubscribeAnswered, Calling, Http
<1>5. QED
  BY <1>3, <1>4 DEF ClientInv

LEMMA NoticeRepliesKeeps ==
  ASSUME ClientInv, NoticeReplies
  PROVE  ClientInv'
<1>0. Http
  BY DEF NoticeReplies, ClientInv, ClientTypeOK, AnswersFit, Http
<1> DEFINE entry == Remembered(session, notice.fp, notice.sid, 0)
           new == [entry EXCEPT !.moved = @ \/ session.sid # notice.sid]
<1>1. /\ notice' = NoNotice
      /\ UNCHANGED <<mcpTransport, changes, remote, process, processes, operation, ending, fault, channel, connections>>
  BY DEF NoticeReplies
<1>2. session \in Sessions /\ notice.fp \in Fps /\ notice.sid \in SessionIds /\ 0 \in SessionIds /\ settings \in Fps
  BY DEF ClientInv, ClientTypeOK, SessionIds
<1>3. session' \in {session, new} /\ settings' \in {settings, notice.fp}
  BY DEF NoticeReplies
<1>4. CASE session' = session
  <2>1. ClientTypeOK' /\ OneOpen' /\ AnswersFit' /\ StdioFits'
    BY <1>0, <1>1, <1>2, <1>3, <1>4, EmptyRecords DEF ClientInv, ClientTypeOK, OneOpen, AnswersFit, StdioFits, Http
  <2>2. HttpFits'
    BY <1>0, <1>1, <1>4, EmptyRecords DEF ClientInv, HttpFits, IdsUsed, IdsOwned, EntryFits, SubscribedThere, ShownFits, UnsubscribeAnswered, Calling, Http
  <2>3. QED
    BY <2>1, <2>2 DEF ClientInv
<1>5. CASE session' = new
  <2>1. /\ entry \in Sessions /\ entry.fp = notice.fp /\ entry.sid = notice.sid
        /\ \/ session # NoSession /\ session.fp = notice.fp /\ entry.subscribed = session.subscribed /\ entry.moved = session.moved
           \/ ~(session # NoSession /\ session.fp = notice.fp) /\ entry.subscribed = FALSE /\ entry.moved = FALSE
    BY <1>2 DEF Remembered, Sessions
  <2> HIDE DEF entry
  <2>2. (entry.moved \/ session.sid # notice.sid) \in BOOLEAN
    BY <2>1 DEF Sessions
  <2>3. /\ new \in Sessions /\ new.fp = notice.fp /\ new.sid = notice.sid /\ new.subscribed = entry.subscribed
        /\ new.moved = (entry.moved \/ session.sid # notice.sid)
    BY <2>1, <2>2 DEF Sessions
  <2> HIDE DEF new
  <2>4. new.subscribed => session.subscribed
    BY <2>1, <2>3
  <2>5. ~new.moved => new.sid = session.sid /\ (new.subscribed => ~session.moved)
    BY <2>1, <2>3
  <2>6. ClientTypeOK' /\ OneOpen' /\ AnswersFit' /\ StdioFits'
    BY <1>0, <1>1, <1>2, <1>3, <1>5, <2>3, EmptyRecords DEF ClientInv, ClientTypeOK, OneOpen, AnswersFit, StdioFits, Http
  <2>7. IdsUsed' /\ IdsOwned' /\ SubscribedThere'
    BY <1>0, <1>1, <1>5, <2>3, EmptyRecords DEF Http, ClientInv, HttpFits, IdsUsed, IdsOwned, SubscribedThere, ShownFits, UnsubscribeAnswered, Calling
  <2>8. EntryFits'
    <3>1. operation.pc \in {"init", "inited"} => ~new.subscribed
      BY <1>0, <2>4 DEF Http, ClientInv, HttpFits, EntryFits
    <3>2. ASSUME operation.pc = "call", ~new.moved
          PROVE  /\ new.subscribed => new.sid = operation.sid
                 /\ operation.sid = 0 => new.sid = 0
      <4>1. new.subscribed => new.sid = operation.sid
        BY <1>0, <3>2, <2>4, <2>5 DEF Http, ClientInv, HttpFits, EntryFits
      <4>2. CASE ~session.moved
        BY <1>0, <3>2, <2>5, <4>1, <4>2 DEF Http, ClientInv, HttpFits, EntryFits
      <4>3. CASE session.moved
        <5>1. ~entry.moved /\ session.sid = notice.sid /\ new.sid = notice.sid
          BY <3>2, <2>1, <2>3
        <5>2. ~(session # NoSession /\ session.fp = notice.fp)
          BY <2>1, <4>3, <5>1
        <5>3. session.sid # 0 => session.fp = notice.fp
          BY <1>0, <5>1 DEF Http, ClientInv, HttpFits, IdsOwned
        <5>4. new.sid = 0
          BY <5>1, <5>2, <5>3, EmptyRecords
        <5>5. QED
          BY <4>1, <5>4
      <4>4. QED
        BY <4>1, <4>2, <4>3
    <3>3. QED
      BY <1>1, <1>5, <3>1, <3>2 DEF EntryFits
  <2>9. ShownFits'
    BY <1>0, <1>1, <1>5, <2>4, <2>5 DEF Http, ClientInv, HttpFits, ShownFits, UnsubscribeAnswered
  <2>10. HttpFits'
    BY <1>1, <1>5, <2>7, <2>8, <2>9 DEF HttpFits
  <2>11. QED
    BY <2>6, <2>10 DEF ClientInv
<1>6. QED
  BY <1>3, <1>4, <1>5

LEMMA SessionExpiresKeeps ==
  ASSUME ClientInv, NEW s \in ConnectionIds, SessionExpires(s)
  PROVE  ClientInv'
<1>1. /\ Http /\ remote' = [remote EXCEPT ![s] = GivenOut(FALSE)]
      /\ UNCHANGED <<mcpTransport, settings, changes, session, process, processes, operation, notice, ending, fault, channel,
                     connections>>
  BY DEF SessionExpires
<1>2. remote' \in [ConnectionIds -> Remotes] /\ remote'[s].used /\ ~remote'[s].alive
      /\ \A i \in ConnectionIds : i # s => remote'[i] = remote[i]
  BY <1>1 DEF ClientInv, ClientTypeOK, Remotes, GivenOut
<1>3. /\ session.sid # 0 => session.sid \in ConnectionIds
      /\ notice.sid # 0 => notice.sid \in ConnectionIds
      /\ operation.sid # 0 => operation.sid \in ConnectionIds
  BY DEF ClientInv, ClientTypeOK, Sessions, McpOperations, SessionIds
<1>4. ClientTypeOK' /\ OneOpen' /\ AnswersFit' /\ StdioFits'
  BY <1>1, <1>2 DEF ClientInv, ClientTypeOK, OneOpen, AnswersFit, StdioFits, Http
<1>5. HttpFits'
  BY <1>1, <1>2, <1>3 DEF ClientInv, HttpFits, IdsUsed, IdsOwned, EntryFits, SubscribedThere, ShownFits, UnsubscribeAnswered, Calling, Http
<1>6. QED
  BY <1>4, <1>5 DEF ClientInv

LEMMA NativeAnswersKeeps ==
  ASSUME ClientInv, NativeAnswers
  PROVE  ClientInv'
<1>1. /\ ~Http /\ operation.answer = "none" /\ operation.pc \in {"call", "probe"}
      /\ UNCHANGED <<mcpTransport, settings, changes, session, remote, notice, ending, connections>>
  BY DEF NativeAnswers
<1>2. operation \in McpOperations /\ process \in SessionIds /\ processes \in 0..MaxConnections
      /\ MaxConnections \in Nat /\ mcpTransport = "stdio" /\ operation.fp \in Fps /\ operation.valid \in BOOLEAN
  <2>1. operation \in McpOperations /\ process \in SessionIds /\ processes \in 0..MaxConnections
    BY DEF ClientInv, ClientTypeOK
  <2>2. mcpTransport = "stdio"
    BY <1>1 DEF ClientInv, ClientTypeOK, Http
  <2>3. operation.fp \in Fps /\ operation.valid \in BOOLEAN
    BY <2>1 DEF McpOperations
  <2>4. MaxConnections \in Nat
    BY McpClientAssumptions
  <2>5. QED
    BY <2>1, <2>2, <2>3, <2>4
<1> DEFINE kept == process # 0 /\ channel.fp = operation.fp
<1>3. \/ /\ operation.pc = "call" /\ (kept \/ processes < MaxConnections)
         /\ process' = IF kept THEN process ELSE processes + 1
         /\ processes' = IF kept THEN processes ELSE processes + 1
         /\ fault' = IF kept \/ ending # {} THEN Overtaken ELSE "none"
         /\ \E answer \in {"ok", "rpcError"} : operation' = [operation EXCEPT !.answer = answer]
         /\ channel' = [valid |-> operation.valid, fp |-> operation.fp, own |-> TRUE]
      \/ /\ process' = 0 /\ operation' = [operation EXCEPT !.answer = "failed"]
         /\ UNCHANGED <<processes, fault, channel>>
      \/ /\ operation.pc = "probe"
         /\ operation' = [operation EXCEPT !.answer = IF process # 0 THEN "has" ELSE "has not"]
         /\ fault' = Overtaken
         /\ UNCHANGED <<process, processes, channel>>
  BY DEF NativeAnswers
<1>4. /\ Overtaken \in {"none", "sent", "missed"}
      /\ ending # {} /\ operation.valid => Overtaken # "none"
      /\ ending = {} => Overtaken = fault
      /\ fault # "none" => Overtaken # "none"
  BY DEF Overtaken, ClientInv, ClientTypeOK
<1> HIDE DEF kept
<1>5. CASE /\ operation.pc = "call" /\ (kept \/ processes < MaxConnections)
           /\ process' = IF kept THEN process ELSE processes + 1
           /\ processes' = IF kept THEN processes ELSE processes + 1
           /\ fault' = IF kept \/ ending # {} THEN Overtaken ELSE "none"
           /\ \E answer \in {"ok", "rpcError"} : operation' = [operation EXCEPT !.answer = answer]
           /\ channel' = [valid |-> operation.valid, fp |-> operation.fp, own |-> TRUE]
  <2>1. process' # 0 /\ process' \in SessionIds /\ processes' \in 0..MaxConnections
    <3>1. CASE kept
      BY <1>2, <1>5, <3>1 DEF kept
    <3>2. CASE ~kept
      <4>1. processes < MaxConnections /\ process' = processes + 1 /\ processes' = processes + 1
        BY <1>5, <3>2
      <4>2. processes + 1 \in 1..MaxConnections /\ processes + 1 \in 0..MaxConnections /\ processes + 1 # 0
        BY <1>2, <4>1
      <4>3. QED
        BY <4>1, <4>2 DEF SessionIds, ConnectionIds
    <3>3. QED
      BY <3>1, <3>2
  <2>2. operation' \in McpOperations /\ operation'.pc = operation.pc /\ operation'.valid = operation.valid
        /\ operation'.sid = operation.sid /\ operation'.fp = operation.fp
    BY <1>2, <1>5 DEF McpOperations, McpAnswers
  <2>3. channel' \in [valid : BOOLEAN, fp : Fps, own : BOOLEAN]
    BY <1>2, <1>5
  <2>4. fault' \in {"none", "sent", "missed"} /\ (ending # {} => fault' = Overtaken)
    BY <1>4, <1>5
  <2>5. ClientTypeOK' /\ OneOpen' /\ AnswersFit' /\ HttpFits'
    BY <1>1, <1>2, <1>5, <2>1, <2>2, <2>3, <2>4 DEF ClientInv, ClientTypeOK, OneOpen, AnswersFit, HttpFits
  <2>6. StdioFits'
    <3>1. operation'.pc # "idle" /\ ~operation'.valid => session' = NoSession
      BY <1>1, <1>2, <2>2 DEF ClientInv, StdioFits
    <3>2. session' # NoSession \/ Answering' => operation.valid
      BY <1>1, <1>2, <2>2 DEF ClientInv, StdioFits, Answering
    <3>3. (session' # NoSession \/ Answering') /\ ending' # {} => fault' # "none"
      BY <1>1, <1>4, <2>4, <3>2
    <3>4. QED
      BY <2>1, <3>1, <3>3 DEF StdioFits
  <2>7. QED
    BY <2>5, <2>6 DEF ClientInv
<1>6. CASE /\ process' = 0 /\ operation' = [operation EXCEPT !.answer = "failed"]
           /\ UNCHANGED <<processes, fault, channel>>
  <2>1. operation' \in McpOperations /\ operation'.pc = operation.pc /\ operation'.valid = operation.valid
        /\ operation'.answer = "failed"
    BY <1>2, <1>6 DEF McpOperations, McpAnswers
  <2>2. process' \in SessionIds
    BY <1>6 DEF SessionIds
  <2>3. ClientTypeOK' /\ OneOpen' /\ AnswersFit' /\ HttpFits'
    BY <1>1, <1>2, <1>6, <2>1, <2>2 DEF ClientInv, ClientTypeOK, OneOpen, AnswersFit, HttpFits
  <2>4. StdioFits'
    BY <1>1, <1>2, <1>6, <2>1 DEF ClientInv, StdioFits, Answering
  <2>5. QED
    BY <2>3, <2>4 DEF ClientInv
<1>7. CASE /\ operation.pc = "probe"
           /\ operation' = [operation EXCEPT !.answer = IF process # 0 THEN "has" ELSE "has not"]
           /\ fault' = Overtaken
           /\ UNCHANGED <<process, processes, channel>>
  <2>1. operation' \in McpOperations /\ operation'.pc = operation.pc /\ operation'.valid = operation.valid
        /\ operation'.answer = IF process # 0 THEN "has" ELSE "has not"
    BY <1>2, <1>7 DEF McpOperations, McpAnswers
  <2>2. ClientTypeOK' /\ OneOpen' /\ AnswersFit' /\ HttpFits'
    BY <1>1, <1>2, <1>4, <1>7, <2>1 DEF ClientInv, ClientTypeOK, OneOpen, AnswersFit, HttpFits
  <2>3. StdioFits'
    <3>1. operation'.pc # "idle" /\ ~operation'.valid => session' = NoSession
      BY <1>1, <1>2, <2>1 DEF ClientInv, StdioFits
    <3>2. (session' # NoSession \/ Answering') /\ ending' # {} => fault' # "none"
      BY <1>1, <1>2, <1>4, <1>7, <2>1, <3>1 DEF ClientInv, StdioFits, Answering
    <3>3. Answering' => process' # 0
      <4>1. process = 0 => operation'.answer = "has not"
        BY <2>1
      <4>2. process' = process
        BY <1>7
      <4>3. QED
        BY <4>1, <4>2 DEF Answering
    <3>4. session' # NoSession /\ ending' = {} /\ fault' = "none" => process' # 0 \/ operation'.answer = "failed"
      BY <1>1, <1>2, <1>4, <1>7 DEF ClientInv, StdioFits
    <3>5. QED
      BY <3>1, <3>2, <3>3, <3>4 DEF StdioFits
  <2>4. QED
    BY <2>2, <2>3 DEF ClientInv
<1>8. QED
  BY <1>3, <1>5, <1>6, <1>7

\* The entry after an answer over STDIO.
LEMMA StdioGoesOn ==
  ASSUME ClientInv, ~Http, session' \in Sessions,
         \/ session' = NoSession
         \/ session' = session /\ ~operation.answer = "failed"
         \/ Answering,
         \/ operation' = NoOperation
         \/ operation' = NextPage /\ operation.left > 1,
         settings' \in Fps, connections' \in [ConnectionIds -> {"none", "open", "ended"}], OneOpen',
         channel' = [channel EXCEPT !.own = FALSE],
         UNCHANGED <<mcpTransport, changes, remote, process, processes, notice, ending, fault>>
  PROVE  ClientInv'
<1>1. mcpTransport = "stdio"
  BY DEF ClientInv, ClientTypeOK, Http
<1>2. channel' \in [valid : BOOLEAN, fp : Fps, own : BOOLEAN] /\ ~channel'.own
  BY DEF ClientInv, ClientTypeOK
<1>3. /\ operation' \in McpOperations /\ operation'.answer = "none"
      /\ operation'.pc = "idle" \/ (operation'.pc = "call" /\ operation'.valid)
  <2>1. CASE operation' = NoOperation
    BY <2>1, EmptyRecords
  <2>2. CASE operation' = NextPage /\ operation.left > 1
    <3>1. NextPage \in McpOperations /\ NextPage.answer = "none" /\ NextPage.valid = ~Http /\ NextPage.pc = "call"
      BY <2>2, NextPageFits
    <3>2. QED
      BY <2>2, <3>1
  <2>3. QED
    BY <2>1, <2>2
<1>4. ClientTypeOK' /\ AnswersFit' /\ HttpFits'
  BY <1>1, <1>2, <1>3 DEF ClientInv, ClientTypeOK, AnswersFit, HttpFits
<1>5. ~Answering'
  BY <1>3 DEF Answering
<1>6. session' # NoSession => (session # NoSession \/ Answering)
  OBVIOUS
<1>7. session' # NoSession /\ ending' # {} => fault' # "none"
  BY <1>1, <1>6 DEF ClientInv, StdioFits
<1>8. session' # NoSession /\ ending' = {} /\ fault' = "none" => process' # 0
  BY <1>1 DEF ClientInv, StdioFits
<1>9. StdioFits'
  BY <1>3, <1>5, <1>7, <1>8 DEF StdioFits
<1>10. QED
  BY <1>4, <1>9 DEF ClientInv

LEMMA StdioRepliesKeeps ==
  ASSUME ClientInv, StdioReplies
  PROVE  ClientInv'
<1>1. /\ ~Http /\ channel' = [channel EXCEPT !.own = FALSE]
      /\ UNCHANGED <<mcpTransport, changes, remote, process, processes, notice, ending, fault>>
  BY DEF StdioReplies
<1>2. operation \in McpOperations /\ session \in Sessions /\ mcpTransport = "stdio" /\ operation.fp \in Fps
      /\ operation.hist \in SessionIds /\ 0 \in SessionIds
  BY <1>1 DEF ClientInv, ClientTypeOK, McpOperations, Http, SessionIds
<1>3. RememberedStdio \in Sessions /\ (~operation.valid => RememberedStdio = session)
  BY <1>2 DEF RememberedStdio, Remembered, Sessions
<1>4. ASSUME operation.answer \in {"ok", "rpcError", "has", "failed", "has not"},
             NextListCall(session') \/ OperationFails(session') \/ OperationCallFails(session'),
             \/ session' \in {session, RememberedStdio} /\ operation.answer \in {"ok", "rpcError", "has"}
             \/ session' = (IF operation.valid THEN NoSession ELSE session)
      PROVE  ClientInv'
  <2>1. /\ settings' \in Fps /\ connections' \in [ConnectionIds -> {"none", "open", "ended"}] /\ OneOpen'
        /\ \/ operation' = NoOperation
           \/ operation.left > 1 /\ operation' = NextPage
    BY <1>4, OperationGoesOn
  <2>2. session' \in Sessions
    BY <1>2, <1>3, <1>4, EmptyRecords
  <2>3. ~operation.valid => session = NoSession
    <3>1. operation.pc # "idle"
      BY <1>4 DEF ClientInv, AnswersFit
    <3>2. QED
      BY <1>2, <3>1 DEF ClientInv, StdioFits
  <2>4. \/ session' = NoSession
        \/ session' = session /\ ~operation.answer = "failed"
        \/ Answering
    BY <1>3, <1>4, <2>3 DEF Answering
  <2>5. QED
    BY <1>1, <2>1, <2>2, <2>4, StdioGoesOn
<1>5. CASE operation.answer = "ok"
  <2> DEFINE live == IF operation.faulted THEN session ELSE RememberedStdio
  <2>1. \/ operation.kind \in Toggles /\ ToggleEnds(live)
        \/ session' = live /\ (OperationFails(session') \/ NextListCall(session'))
    BY <1>5 DEF StdioReplies
  <2>2. CASE session' = live /\ (OperationFails(session') \/ NextListCall(session'))
    BY <1>4, <1>5, <2>2
  <2>3. CASE session' = live /\ OperationFails(live)
    BY <2>2, <2>3
  <2>4. CASE live # NoSession /\ session' = [live EXCEPT !.subscribed = (operation.kind = "subscribe")] /\ OperationEnds
    <3>1. /\ settings' \in Fps /\ connections' \in [ConnectionIds -> {"none", "open", "ended"}] /\ OneOpen'
          /\ operation' = NoOperation
      BY <2>4, OperationGoesOn DEF OperationEnds
    <3>2. session' \in Sessions
      <4>1. live \in Sessions /\ (operation.kind = "subscribe") \in BOOLEAN
        BY <1>2, <1>3
      <4>2. QED
        BY <2>4, <4>1 DEF Sessions
    <3>3. Answering
      <4>1. operation.pc # "idle"
        BY <1>5 DEF ClientInv, AnswersFit
      <4>2. ~operation.valid => session = NoSession
        BY <1>2, <4>1 DEF ClientInv, StdioFits
      <4>3. QED
        BY <1>3, <1>5, <2>4, <4>2 DEF Answering
    <3>4. QED
      BY <1>1, <3>1, <3>2, <3>3, StdioGoesOn
  <2>5. QED
    BY <2>1, <2>2, <2>3, <2>4 DEF ToggleEnds
<1>6. CASE operation.answer = "rpcError" /\ session' = RememberedStdio /\ OperationCallFails(session')
  BY <1>4, <1>6
<1>7. CASE /\ operation.answer \in {"failed", "has not"}
           /\ session' = IF operation.valid THEN NoSession ELSE session
           /\ OperationCallFails(session') \/ OperationFails(session')
  BY <1>4, <1>7
<1>8. CASE operation.answer = "has" /\ session' = RememberedStdio /\ OperationFails(session')
  BY <1>4, <1>8
<1>9. CASE /\ operation.answer = "aborted"
           /\ operation' = [operation EXCEPT !.pc = "probe", !.answer = "none"]
           /\ UNCHANGED <<session, settings, connections>>
  <2>1. operation' \in McpOperations /\ operation'.pc = "probe" /\ operation'.valid = operation.valid
        /\ operation'.answer = "none"
    BY <1>2, <1>9 DEF McpOperations, McpAnswers, McpPcs
  <2>2. channel' \in [valid : BOOLEAN, fp : Fps, own : BOOLEAN] /\ ~channel'.own
    BY <1>1 DEF ClientInv, ClientTypeOK
  <2>3. ClientTypeOK' /\ OneOpen' /\ AnswersFit' /\ HttpFits'
    BY <1>1, <1>2, <1>9, <2>1, <2>2 DEF ClientInv, ClientTypeOK, OneOpen, AnswersFit, HttpFits
  <2>4. ~operation.valid => session = NoSession
    <3>1. operation.pc # "idle"
      BY <1>9 DEF ClientInv, AnswersFit
    <3>2. QED
      BY <1>2, <3>1 DEF ClientInv, StdioFits
  <2>5. StdioFits'
    BY <1>1, <1>2, <1>9, <2>1, <2>4 DEF ClientInv, StdioFits, Answering
  <2>6. QED
    BY <2>3, <2>5 DEF ClientInv
<1>10. QED
  BY <1>5, <1>6, <1>7, <1>8, <1>9 DEF StdioReplies

LEMMA DisconnectDoneKeeps ==
  ASSUME ClientInv, DisconnectDone
  PROVE  ClientInv'
<1>1. /\ operation.pc = "closing" /\ operation' = NoOperation
      /\ UNCHANGED <<mcpTransport, settings, changes, session, remote, process, processes, notice, ending, fault, channel>>
  BY DEF DisconnectDone
<1>2. \/ connections' = FinishedConnection(operation.hist)
      \/ connections' = [i \in ConnectionIds |-> IF i = operation.hist THEN Unsaved ELSE connections[i]]
  BY DEF DisconnectDone
<1>3. connections' \in [ConnectionIds -> {"none", "open", "ended"}] /\ OneOpen'
  <2>1. CASE connections' = FinishedConnection(operation.hist)
    BY <2>1, FinishedFits DEF OneOpen
  <2>2. CASE connections' = [i \in ConnectionIds |-> IF i = operation.hist THEN Unsaved ELSE connections[i]]
    BY <2>2 DEF ClientInv, ClientTypeOK, OneOpen, Unsaved
  <2>3. QED
    BY <1>2, <2>1, <2>2
<1>4. ~channel.own
  BY <1>1 DEF ClientInv, AnswersFit
<1>5. ClientTypeOK' /\ AnswersFit'
  BY <1>1, <1>3, <1>4, EmptyRecords DEF ClientInv, ClientTypeOK, AnswersFit
<1>6. HttpFits'
  BY <1>1, EmptyRecords DEF ClientInv, HttpFits, IdsUsed, IdsOwned, EntryFits, SubscribedThere, ShownFits, UnsubscribeAnswered, Calling
<1>7. StdioFits'
  <2>1. mcpTransport = "stdio" => session = NoSession
    BY <1>1 DEF ClientInv, AnswersFit, StdioFits
  <2>2. QED
    BY <2>1, <1>1, EmptyRecords DEF StdioFits, Answering
<1>8. QED
  BY <1>3, <1>5, <1>6, <1>7 DEF ClientInv

LEMMA RemoteClosesKeeps ==
  ASSUME ClientInv, NEW x \in ConnectionIds, RemoteCloses(x)
  PROVE  ClientInv'
<1>1. /\ ending # {} /\ UNCHANGED <<mcpTransport, settings, changes, session, processes, notice, channel, connections, fault>>
      /\ operation' = IF operation.pc = "closing" /\ operation.sid = x THEN [operation EXCEPT !.answer = "closed"]
                      ELSE operation
      /\ IF Http THEN remote' \in {remote, [remote EXCEPT ![x] = GivenOut(FALSE)]} /\ process' = process
         ELSE process' = 0 /\ remote' = remote
  BY DEF RemoteCloses
<1>2. /\ operation' \in McpOperations /\ operation'.pc = operation.pc /\ operation'.sid = operation.sid
      /\ operation'.fp = operation.fp /\ operation'.kind = operation.kind /\ operation'.valid = operation.valid
      /\ operation'.answer = operation.answer \/ operation.pc = "closing"
  BY <1>1 DEF ClientInv, ClientTypeOK, McpOperations, McpAnswers
<1>3. /\ remote' \in [ConnectionIds -> Remotes]
      /\ \A i \in ConnectionIds : /\ remote[i].used => remote'[i].used
                                  /\ remote'[i].alive => remote'[i] = remote[i]
  <2>1. remote \in [ConnectionIds -> Remotes]
    BY DEF ClientInv, ClientTypeOK
  <2>2. CASE remote' = remote
    BY <2>1, <2>2
  <2>3. CASE remote' = [remote EXCEPT ![x] = GivenOut(FALSE)]
    <3>1. GivenOut(FALSE) \in Remotes /\ GivenOut(FALSE).used /\ ~GivenOut(FALSE).alive
      BY DEF Remotes, GivenOut
    <3>2. QED
      BY <2>1, <2>3, <3>1
  <2>4. QED
    BY <1>1, <2>2, <2>3
<1>4. /\ session.sid # 0 => session.sid \in ConnectionIds
      /\ notice.sid # 0 => notice.sid \in ConnectionIds
      /\ operation.sid # 0 => operation.sid \in ConnectionIds
  BY DEF ClientInv, ClientTypeOK, Sessions, McpOperations, SessionIds
<1>5. process' \in SessionIds
  BY <1>1 DEF ClientInv, ClientTypeOK, SessionIds
<1>6. ClientTypeOK' /\ OneOpen' /\ AnswersFit'
  BY <1>1, <1>2, <1>3, <1>5 DEF ClientInv, ClientTypeOK, OneOpen, AnswersFit
<1>7. HttpFits'
  BY <1>1, <1>2, <1>3, <1>4 DEF ClientInv, HttpFits, IdsUsed, IdsOwned, EntryFits, SubscribedThere, ShownFits, UnsubscribeAnswered, Calling
<1>8. StdioFits'
  <2>1. Answering' => Answering
    BY <1>2 DEF Answering, ClientInv, AnswersFit
  <2>2. QED
    BY <2>1, <1>1, <1>2 DEF ClientInv, StdioFits
<1>9. QED
  BY <1>6, <1>7, <1>8 DEF ClientInv

LEMMA AbortingFits ==
  ASSUME ClientInv, Abortable
  PROVE  /\ Aborting \in McpOperations /\ Aborting.pc = operation.pc /\ Aborting.sid = operation.sid
         /\ Aborting.fp = operation.fp /\ Aborting.kind = operation.kind /\ Aborting.valid = operation.valid
         /\ operation.kind \notin Toggles /\ operation.pc \in {"init", "inited", "call"}
         /\ ~Http => Aborting.answer = operation.answer \/ (Aborting.answer = "aborted" /\ operation.answer = "none")
<1>1. operation \in McpOperations
  BY DEF ClientInv, ClientTypeOK
<1>2. operation.kind \notin Toggles /\ operation.pc \in {"init", "inited", "call"}
  BY DEF Abortable, Cancelable, Toggles
<1>3. CASE Http \/ operation.answer = "none"
  <2>1. Aborting = [operation EXCEPT !.aborted = TRUE, !.answer = "aborted"]
    BY <1>3 DEF Aborting
  <2>2. QED
    BY <1>1, <1>2, <1>3, <2>1 DEF McpOperations, McpAnswers
<1>4. CASE ~(Http \/ operation.answer = "none")
  <2>1. Aborting = [operation EXCEPT !.aborted = TRUE, !.answer = operation.answer]
    BY <1>4 DEF Aborting
  <2>2. operation.answer \in McpAnswers
    BY <1>1 DEF McpOperations
  <2>3. Aborting \in McpOperations
    BY <1>1, <2>1, <2>2 DEF McpOperations
  <2>4. /\ Aborting.pc = operation.pc /\ Aborting.sid = operation.sid /\ Aborting.fp = operation.fp
        /\ Aborting.kind = operation.kind /\ Aborting.valid = operation.valid
        /\ Aborting.answer = operation.answer
    BY <1>1, <2>1 DEF McpOperations
  <2>5. QED
    BY <1>2, <2>3, <2>4
<1>5. QED
  BY <1>3, <1>4

LEMMA CancelMcpOperationKeeps ==
  ASSUME ClientInv, CancelMcpOperation
  PROVE  ClientInv'
<1>1. /\ Abortable /\ operation' = Aborting
      /\ UNCHANGED <<mcpTransport, settings, changes, session, remote, process, processes, notice, ending, fault, channel,
                     connections>>
  BY DEF CancelMcpOperation
<1>2. ClientTypeOK' /\ OneOpen' /\ AnswersFit'
  BY <1>1, AbortingFits DEF ClientInv, ClientTypeOK, OneOpen, AnswersFit
<1>3. HttpFits'
  BY <1>1, AbortingFits DEF ClientInv, HttpFits, IdsUsed, IdsOwned, EntryFits, SubscribedThere, ShownFits, UnsubscribeAnswered, Calling, Toggles
<1>4. StdioFits'
  <2>1. CASE Http
    BY <2>1, <1>1 DEF StdioFits, Http
  <2>2. CASE ~Http
    BY <2>2, <1>1, AbortingFits DEF ClientInv, StdioFits, Answering
  <2>3. QED
    BY <2>1, <2>2
<1>5. QED
  BY <1>2, <1>3, <1>4 DEF ClientInv

LEMMA StartDisconnectKeeps ==
  ASSUME ClientInv, NEW kind \in {"disconnect", "delete"}, StartDisconnect(kind)
  PROVE  ClientInv'
<1>1. /\ operation = NoOperation /\ session' = NoSession
      /\ operation' = [NoOperation EXCEPT !.pc = "closing", !.kind = kind, !.hist = session.conn, !.sid = Target]
      /\ channel' = [channel EXCEPT !.valid = FALSE]
      /\ UNCHANGED <<mcpTransport, settings, changes, remote, process, processes, notice, fault, connections>>
  BY DEF StartDisconnect, Disconnects
<1>2. session.conn \in SessionIds /\ Target \in SessionIds
  BY DEF ClientInv, ClientTypeOK, Sessions, Target
<1>3. operation' \in McpOperations /\ operation'.pc = "closing" /\ ~operation'.valid /\ operation'.answer = "none"
  BY <1>1, <1>2, EmptyRecords DEF McpOperations, McpPcs, McpKinds
<1>4. channel' \in [valid : BOOLEAN, fp : Fps, own : BOOLEAN] /\ channel'.own = channel.own
  BY <1>1 DEF ClientInv, ClientTypeOK
<1>5. ~channel.own
  BY <1>1, EmptyRecords DEF ClientInv, AnswersFit
<1>6. ClientTypeOK' /\ OneOpen' /\ AnswersFit'
  BY <1>1, <1>3, <1>4, <1>5, EmptyRecords DEF ClientInv, ClientTypeOK, OneOpen, AnswersFit
<1>7. HttpFits'
  BY <1>1, <1>3, EmptyRecords DEF ClientInv, HttpFits, IdsUsed, IdsOwned, EntryFits, SubscribedThere, ShownFits, UnsubscribeAnswered, Calling
<1>8. StdioFits'
  BY <1>1, <1>3 DEF StdioFits, Answering
<1>9. QED
  BY <1>6, <1>7, <1>8 DEF ClientInv

\* What has no entry any more and an old revision is in order.
LEMMA Invalidated ==
  ASSUME ClientInv, NEW op \in McpOperations, Invalidates(op), session' = NoSession,
         op.pc = operation.pc, op.sid = operation.sid, op.fp = operation.fp, op.kind = operation.kind,
         op.answer = operation.answer \/ (operation.pc # "idle" /\ operation.kind \notin Toggles),
         settings' \in Fps, connections' \in [ConnectionIds -> {"none", "open", "ended"}], OneOpen',
         fault' \in {"none", "sent", "missed"},
         UNCHANGED <<mcpTransport, remote, process, processes, notice>>
  PROVE  ClientInv'
<1>1. operation' = [op EXCEPT !.valid = FALSE] /\ channel' = [channel EXCEPT !.valid = FALSE]
  BY DEF Invalidates
<1>2. /\ operation' \in McpOperations /\ operation'.pc = operation.pc /\ operation'.sid = operation.sid
      /\ operation'.fp = operation.fp /\ operation'.kind = operation.kind /\ ~operation'.valid
      /\ operation'.answer = op.answer
  BY <1>1 DEF McpOperations
<1>3. channel' \in [valid : BOOLEAN, fp : Fps, own : BOOLEAN] /\ channel'.own = channel.own
  BY <1>1 DEF ClientInv, ClientTypeOK
<1>4. ClientTypeOK' /\ AnswersFit'
  BY <1>2, <1>3, EmptyRecords DEF ClientInv, ClientTypeOK, AnswersFit
<1>5. HttpFits'
  BY <1>2, EmptyRecords DEF ClientInv, HttpFits, IdsUsed, IdsOwned, EntryFits, SubscribedThere, ShownFits, UnsubscribeAnswered, Calling, Toggles
<1>6. StdioFits'
  BY <1>2 DEF StdioFits, Answering
<1>7. QED
  BY <1>4, <1>5, <1>6 DEF ClientInv

LEMMA InvalidateActiveSessionKeeps ==
  ASSUME ClientInv, NEW s \in Settings, InvalidateActiveSession(s)
  PROVE  ClientInv'
<1> DEFINE op == IF Abortable THEN Aborting ELSE operation
<1>1. /\ session' = NoSession /\ Invalidates(op) /\ settings' = s
      /\ connections' = connections \/ connections' = FinishedConnection(session.conn)
      /\ UNCHANGED <<mcpTransport, remote, process, processes, notice, fault>>
  BY DEF InvalidateActiveSession, Disconnects
<1>2. operation \in McpOperations
  BY DEF ClientInv, ClientTypeOK
<1>3. /\ op \in McpOperations /\ op.pc = operation.pc /\ op.sid = operation.sid /\ op.fp = operation.fp
      /\ op.kind = operation.kind
      /\ op.answer = operation.answer \/ (operation.pc # "idle" /\ operation.kind \notin Toggles)
  BY <1>2, AbortingFits
<1>4. connections' \in [ConnectionIds -> {"none", "open", "ended"}] /\ OneOpen'
  <2>1. CASE connections' = connections
    BY <2>1 DEF ClientInv, ClientTypeOK, OneOpen
  <2>2. CASE connections' = FinishedConnection(session.conn)
    BY <2>2, FinishedFits DEF OneOpen
  <2>3. QED
    BY <1>1, <2>1, <2>2
<1>5. settings' \in Fps /\ fault' \in {"none", "sent", "missed"}
  BY <1>1 DEF Fps, ClientInv, ClientTypeOK
<1> HIDE DEF op
<1>6. QED
  BY <1>1, <1>3, <1>4, <1>5, Invalidated

LEMMA ProcessDiesKeeps ==
  ASSUME ClientInv, ProcessDies
  PROVE  ClientInv'
<1>1. /\ process' = 0 /\ fault' = "sent"
      /\ UNCHANGED <<mcpTransport, settings, changes, session, remote, processes, operation, notice, ending, channel,
                     connections>>
  BY DEF ProcessDies
<1>2. process' \in SessionIds
  BY <1>1 DEF SessionIds
<1>3. ClientTypeOK' /\ OneOpen' /\ AnswersFit'
  BY <1>1, <1>2 DEF ClientInv, ClientTypeOK, OneOpen, AnswersFit
<1>4. HttpFits' /\ StdioFits'
  BY <1>1 DEF ClientInv, HttpFits, IdsUsed, IdsOwned, EntryFits, SubscribedThere, ShownFits, UnsubscribeAnswered, Calling, StdioFits, Answering
<1>5. QED
  BY <1>3, <1>4 DEF ClientInv

LEMMA TransportErrorKeeps ==
  ASSUME ClientInv, TransportError
  PROVE  ClientInv'
<1> DEFINE op == IF channel.own THEN [operation EXCEPT !.faulted = TRUE] ELSE operation
<1>1. UNCHANGED <<mcpTransport, settings, changes, remote, process, processes, notice, ending, connections>>
  BY DEF TransportError
<1>2. /\ op \in McpOperations /\ op.pc = operation.pc /\ op.sid = operation.sid /\ op.fp = operation.fp
      /\ op.kind = operation.kind /\ op.answer = operation.answer /\ op.valid = operation.valid
  BY DEF ClientInv, ClientTypeOK, McpOperations
<1>3. \/ session' = NoSession /\ fault' = "none" /\ Invalidates(op)
      \/ session' = session /\ fault' = "missed" /\ operation' = op /\ channel' = channel
  BY DEF TransportError
<1> HIDE DEF op
<1>4. CASE session' = NoSession /\ fault' = "none" /\ Invalidates(op)
  <2>1. settings' \in Fps /\ connections' \in [ConnectionIds -> {"none", "open", "ended"}] /\ OneOpen'
    BY <1>1 DEF ClientInv, ClientTypeOK, OneOpen
  <2>2. fault' \in {"none", "sent", "missed"}
    BY <1>4
  <2>3. QED
    BY <1>1, <1>2, <1>4, <2>1, <2>2, Invalidated
<1>5. CASE session' = session /\ fault' = "missed" /\ operation' = op /\ channel' = channel
  <2>1. ClientTypeOK' /\ OneOpen' /\ AnswersFit'
    BY <1>1, <1>2, <1>5 DEF ClientInv, ClientTypeOK, OneOpen, AnswersFit
  <2>2. HttpFits'
    BY <1>1, <1>2, <1>5 DEF ClientInv, HttpFits, IdsUsed, IdsOwned, EntryFits, SubscribedThere, ShownFits, UnsubscribeAnswered, Calling
  <2>3. StdioFits'
    BY <1>1, <1>2, <1>5 DEF ClientInv, StdioFits, Answering
  <2>4. QED
    BY <2>1, <2>2, <2>3 DEF ClientInv
<1>6. QED
  BY <1>3, <1>4, <1>5

LEMMA ClientStutters ==
  ASSUME ClientInv, UNCHANGED mcpVars
  PROVE  ClientInv'
<1>1. ClientTypeOK' /\ OneOpen' /\ AnswersFit'
  BY DEF mcpVars, ClientInv, ClientTypeOK, OneOpen, AnswersFit
<1>2. HttpFits' /\ StdioFits'
  BY DEF mcpVars, ClientInv, HttpFits, IdsUsed, IdsOwned, EntryFits, SubscribedThere, ShownFits, UnsubscribeAnswered, Calling, StdioFits, Answering
<1>3. QED
  BY <1>1, <1>2 DEF ClientInv

\* A set of which any two members are the same has at most one.
LEMMA AtMostOne ==
  ASSUME NEW S, \A x, y \in S : x = y
  PROVE  Cardinality(S) <= 1
<1>1. CASE S = {}
  BY <1>1, FS_EmptySet
<1>2. CASE S # {}
  <2>1. PICK x \in S : TRUE
    BY <1>2
  <2>2. S = {x}
    BY <2>1
  <2>3. Cardinality(S) = 1
    BY <2>2, FS_Singleton
  <2>4. QED
    BY <2>3
<1>3. QED
  BY <1>1, <1>2

LEMMA ClientInvImplies ==
  ASSUME ClientInv
  PROVE  McpClientSound
<1>1. ConnectedHasProcess
  BY EmptyRecords DEF ClientInv, ClientTypeOK, StdioFits, ConnectedHasProcess, Http
<1>2. SubscriptionsReal
  BY DEF ClientInv, HttpFits, ShownFits, UnsubscribeAnswered, SubscriptionsReal, Http
<1>3. OneOpenConnection
  <2>1. \A i, j \in {k \in ConnectionIds : connections[k] = "open"} : i = j
    BY DEF ClientInv, OneOpen
  <2>2. QED
    BY <2>1, AtMostOne DEF OneOpenConnection
<1>4. QED
  BY <1>1, <1>2, <1>3 DEF McpClientSound

\* Whatever the settings, the server, the process and the user do meanwhile:
\* a client shown as connected has its process, a resource shown as subscribed
\* is subscribed in the client's own session but for an unsubscribe whose answer
\* is not known, and at most one of its saved connections has not ended.
THEOREM ClientStaysSound == McpSpec => []McpClientSound
<1>1. McpInit => ClientInv
  BY ClientInvInit
<1>2. ClientInv /\ [McpNext]_mcpVars => ClientInv'
  <2> SUFFICES ASSUME ClientInv, [McpNext]_mcpVars PROVE ClientInv'
    OBVIOUS
  <2>1. ASSUME NEW kind \in {"discover", "invoke"} \cup Toggles, StartMcpOperation(kind) PROVE ClientInv'
    BY <2>1, StartMcpOperationKeeps
  <2>2. CASE McpReplies
    BY <2>2, HttpRepliesKeeps, StdioRepliesKeeps, OAuthRetryKeeps, RecoverKeeps DEF McpReplies
  <2>3. CASE ServerAnswers \/ NativeAnswers
    BY <2>3, ServerAnswersKeeps, NativeAnswersKeeps
  <2>4. CASE DisconnectDone
    BY <2>4, DisconnectDoneKeeps
  <2>5. ASSUME NEW x \in ConnectionIds, RemoteCloses(x) PROVE ClientInv'
    BY <2>5, RemoteClosesKeeps
  <2>6. CASE CancelMcpOperation
    BY <2>6, CancelMcpOperationKeeps
  <2>7. ASSUME NEW kind \in {"disconnect", "delete"}, StartDisconnect(kind) PROVE ClientInv'
    BY <2>7, StartDisconnectKeeps
  <2>8. ASSUME NEW s \in Settings, InvalidateActiveSession(s) PROVE ClientInv'
    BY <2>8, InvalidateActiveSessionKeeps
  <2>9. CASE StartNotice
    BY <2>9, StartNoticeKeeps
  <2>10. CASE NoticeReplies
    BY <2>10, NoticeRepliesKeeps
  <2>11. ASSUME NEW s \in ConnectionIds, SessionExpires(s) PROVE ClientInv'
    BY <2>11, SessionExpiresKeeps
  <2>15. ASSUME NEW s \in ConnectionIds, LateUnsubscribe(s) PROVE ClientInv'
    BY <2>15, LateUnsubscribeKeeps
  <2>12. CASE ProcessDies \/ TransportError
    BY <2>12, ProcessDiesKeeps, TransportErrorKeeps
  <2>13. CASE UNCHANGED mcpVars
    BY <2>13, ClientStutters
  <2>14. QED
    BY <2>1, <2>2, <2>3, <2>4, <2>5, <2>6, <2>7, <2>8, <2>9, <2>10, <2>11, <2>12, <2>13, <2>15 DEF McpNext
<1>3. ClientInv => McpClientSound
  BY ClientInvImplies
<1>4. QED
  BY <1>1, <1>2, <1>3, PTL DEF McpSpec
=============================================================================
