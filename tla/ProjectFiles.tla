---------------------------- MODULE ProjectFiles ----------------------------
(***************************************************************************)
(* The files of a project (projectWorkspaces.ts) and the records they are  *)
(* stored in (workspacePhysicalStore.ts).  A collection has one request,   *)
(* known by the collection's id; designs may name a generated collection,  *)
(* two of them the same one after an import.  Mock servers and MCP clients *)
(* are the plain files.                                                    *)
(***************************************************************************)
EXTENDS Naturals, Sequences, SequencesExt, Functions

CONSTANTS
    StartProjects,   \* contents a project can be opened with
    CollectionIds, DesignIds, EnvIds, PlainIds,
    HistoryKept      \* 100

VARIABLE shelf       \* the two projects

fileVars == <<shelf>>
Project == 1 .. 2

-----------------------------------------------------------------------------
(* environmentBranch: the environment and what is below it, breadth first. *)
BranchSeq(p, root) ==
    LET walk[n \in 0 .. Len(p.envs)] ==
          IF n = 0 THEN <<root>>
          ELSE IF n > Len(walk[n - 1]) THEN walk[n - 1]
          ELSE walk[n - 1] \o SelectSeq(p.envs, LAMBDA e : p.parent[e] = walk[n - 1][n] /\ e \notin ToSet(walk[n - 1]))
    IN walk[Len(p.envs)]
Branch(p, root) == ToSet(BranchSeq(p, root))
EnvRoots(p) == SelectSeq(p.envs, LAMBDA e : p.parent[e] \notin ToSet(p.envs))
Generated(p) == {p.gen[d] : d \in ToSet(p.designs)} \cap ToSet(p.cols)
Files(p) == (ToSet(p.cols) \ Generated(p)) \cup ToSet(p.designs) \cup ToSet(p.plain) \cup ToSet(EnvRoots(p))
ScopeOf(f) == CASE f \in CollectionIds -> "collection" [] f \in DesignIds -> "design"
                [] f \in EnvIds -> "environment" [] OTHER -> "plain"

(* projectIdentityIds, each with its kind.  A suite is known by the        *)
(* collection it was made for.                                             *)
Tagged(kind, ids) == {<<kind, x>> : x \in ids}
Identities(p) ==
    Tagged("file", ToSet(p.cols) \cup ToSet(p.designs) \cup ToSet(p.envs) \cup ToSet(p.plain))
    \cup Tagged("suite", {s.id : s \in p.suites}) \cup Tagged("result", {r.id : r \in p.results})
    \cup Tagged("entry", {h.id : h \in ToSet(p.history)})

-----------------------------------------------------------------------------
(* splitWorkspacePhysicalStore: every file a record of indexed values.  A  *)
(* generated collection goes with the first design that names it.          *)
Indexed(seq, which) == {<<k, seq[k]>> : k \in {j \in DOMAIN seq : seq[j] \in which}}
FileRecord(p, scope, id, values) == [scope |-> scope, id |-> id, values |-> values, stated |-> id \in p.state]

WithEveryDesign(p, k) == p.gen[p.designs[k]] \in ToSet(p.cols)
FirstDesignOf(p, k) ==
    LET c == p.gen[p.designs[k]] IN c \in ToSet(p.cols) /\ \A j \in 1 .. k - 1 : p.gen[p.designs[j]] # c

EnvRecords(p) ==
    LET roots == EnvRoots(p) \o p.envs
        before(k) == UNION {Branch(p, roots[j]) : j \in 1 .. k - 1}
        first == SelectSeq([k \in DOMAIN roots |-> k], LAMBDA k : roots[k] \notin before(k))
    IN [n \in DOMAIN first |-> FileRecord(p, "environment", roots[first[n]], Indexed(p.envs, Branch(p, roots[first[n]]) \ before(first[n])))]

Split(p) ==
    LET plainCols == SelectSeq(p.cols, LAMBDA c : c \notin Generated(p)) IN
    [k \in DOMAIN plainCols |-> FileRecord(p, "collection", plainCols[k], Indexed(p.cols, {plainCols[k]}))]
    \o [k \in DOMAIN p.designs |->
          FileRecord(p, "design", p.designs[k], Indexed(p.designs, {p.designs[k]})
                      \cup IF FirstDesignOf(p, k) THEN Indexed(p.cols, {p.gen[p.designs[k]]}) ELSE {})]
    \o [k \in DOMAIN p.plain |-> FileRecord(p, "plain", p.plain[k], Indexed(p.plain, {p.plain[k]}))]
    \o EnvRecords(p)
Shell(p) == [p EXCEPT !.cols = <<>>, !.designs = <<>>, !.envs = <<>>, !.plain = <<>>, !.state = @ \ Files(p)]

(* assembleWorkspacePhysicalStore: refused when record ids or the indexes  *)
(* of a kind are repeated; otherwise the values of each kind by index.     *)
RecordsFit(records) ==
    /\ IsInjective([k \in DOMAIN records |-> records[k].id])
    /\ \A k, j \in DOMAIN records : \A v \in records[k].values, w \in records[j].values :
          v[1] = w[1] /\ ScopeOf(v[2]) = ScopeOf(w[2]) => v = w /\ k = j
Assembled(shell, records) ==
    LET of(ids) == {v \in UNION {records[k].values : k \in DOMAIN records} : v[2] \in ids}
        ordered(ids) == LET values == SetToSortSeq(of(ids), LAMBDA a, b : a[1] < b[1])
                        IN [k \in DOMAIN values |-> values[k][2]]
    IN [shell EXCEPT !.cols = ordered(CollectionIds), !.designs = ordered(DesignIds), !.envs = ordered(EnvIds),
                     !.plain = ordered(PlainIds), !.state = @ \cup {records[k].id : k \in {j \in DOMAIN records : records[j].stated}}]

-----------------------------------------------------------------------------
Minus(seq, ids) == SelectSeq(seq, LAMBDA x : x \notin ids)
First(seq, else) == IF seq = <<>> THEN else ELSE seq[1]

(* moveCollectionOwnedResources: the collection c, its suites and their    *)
(* results, and the history of its request; the identities moved.          *)
SuitesOf(p, c) == {s \in p.suites : s.col = c}
ResultsOf(p, c) == {r \in p.results : \E s \in SuitesOf(p, c) : s.id = r.suite}
HistoryOf(p, c) == SelectSeq(p.history, LAMBDA h : h.req = c)
OwnedIds(p, c) == {<<"file", c>>} \cup Tagged("suite", {s.id : s \in SuitesOf(p, c)})
                  \cup Tagged("result", {r.id : r \in ResultsOf(p, c)}) \cup Tagged("entry", {h.id : h \in ToSet(HistoryOf(p, c))})
NoCollision(q, ids) == Identities(q) \cap ids = {}

NewestFirst(h) == SubSeq(SortSeq(h, LAMBDA a, b : a.id > b.id), 1, IF Len(h) < HistoryKept THEN Len(h) ELSE HistoryKept)
LeaveCollectionAlone(p, c) == [p EXCEPT !.cols = Minus(@, {c}), !.suites = @ \ SuitesOf(p, c),
                                        !.history = SelectSeq(@, LAMBDA h : h.req # c)]
LeaveCollection(p, c) == [p EXCEPT !.cols = Minus(@, {c}), !.suites = @ \ SuitesOf(p, c), !.results = @ \ ResultsOf(p, c),
                                   !.history = SelectSeq(@, LAMBDA h : h.req # c)]
EnterCollection(q, p, c) == [q EXCEPT !.cols = Append(@, c), !.suites = @ \cup SuitesOf(p, c), !.results = @ \cup ResultsOf(p, c),
                                      !.history = NewestFirst(HistoryOf(p, c) \o @), !.active = c]
Repaired(p) == [p EXCEPT !.active = IF @ \in ToSet(p.cols) THEN @ ELSE First(p.cols, ""),
                         !.activeEnv = IF @ \in ToSet(p.envs) THEN @ ELSE First(p.envs, "")]

(* moveProjectWorkspace and the saves of moveCatalogProjectWorkspace.      *)
MoveFile(i, j, f) ==
    LET p == shelf[i]
        q == shelf[j]
        c == IF ScopeOf(f) = "design" THEN p.gen[f] ELSE f
        carries == c \in ToSet(p.cols)
        branch == IF ScopeOf(f) = "environment" THEN BranchSeq(p, f) ELSE <<>>
        left == IF carries THEN LeaveCollection(p, c) ELSE p
        entered == IF carries THEN EnterCollection(q, p, c) ELSE q
    IN /\ i # j /\ f \in Files(p)
       /\ NoCollision(q, Tagged("file", {f} \cup ToSet(branch)) \cup IF carries THEN OwnedIds(p, c) ELSE {})
       /\ shelf' = [shelf EXCEPT
            ![i] = Repaired([left EXCEPT !.designs = Minus(@, {f}), !.plain = Minus(@, {f}), !.envs = Minus(@, ToSet(branch)), !.state = @ \ {f},
                           !.gen = [d \in DOMAIN @ |-> IF d = f THEN "" ELSE @[d]],
                           !.parent = [e \in DOMAIN @ |-> IF e \in ToSet(branch) THEN "" ELSE @[e]]]),
            ![j] = [entered EXCEPT !.designs = IF ScopeOf(f) = "design" THEN Append(@, f) ELSE @,
                                   !.gen = IF ScopeOf(f) = "design" THEN [@ EXCEPT ![f] = p.gen[f]] ELSE @,
                                   !.plain = IF ScopeOf(f) = "plain" THEN Append(@, f) ELSE @,
                                   !.envs = @ \o branch, !.activeEnv = IF branch = <<>> THEN @ ELSE f,
                                   !.parent = [e \in DOMAIN @ |-> IF e \in ToSet(branch) THEN p.parent[e] ELSE @[e]],
                                   !.state = @ \cup {f}]]

(* duplicateProjectWorkspace, with ids no project uses.  A copied          *)
(* collection leaves its suites behind, that of a design takes them.       *)
Unused(ids) == {x \in ids : \A i \in Project : <<"file", x>> \notin Identities(shelf[i])}
CopyCollection(q, c, new, suites) ==
    [q EXCEPT !.cols = Append(@, new), !.active = new, !.suites = @ \cup {[id |-> s, col |-> new] : s \in suites}]
DuplicateFile(i, j, f, new) ==
    LET p == shelf[i]
        q == shelf[j]
    IN /\ f \in Files(p)
       /\ \/ /\ ScopeOf(f) = "collection" /\ new \in Unused(CollectionIds)
             /\ shelf' = [shelf EXCEPT ![j] = [CopyCollection(q, f, new, {}) EXCEPT !.state = @ \cup {new}]]
          \/ /\ ScopeOf(f) = "design" /\ p.gen[f] \notin ToSet(p.cols) /\ new \in Unused(DesignIds)
             /\ shelf' = [shelf EXCEPT ![j] = [q EXCEPT !.designs = Append(@, new), !.gen = [@ EXCEPT ![new] = ""], !.state = @ \cup {new}]]
          \/ /\ ScopeOf(f) = "design" /\ p.gen[f] \in ToSet(p.cols) /\ new \in Unused(DesignIds)
             /\ \E c \in Unused(CollectionIds) :
                  shelf' = [shelf EXCEPT ![j] = [CopyCollection(q, p.gen[f], c, {c : s \in SuitesOf(p, p.gen[f])})
                                                    EXCEPT !.designs = Append(@, new), !.gen = [@ EXCEPT ![new] = c], !.state = @ \cup {new}]]
          \/ /\ ScopeOf(f) = "plain" /\ new \in Unused(PlainIds)
             /\ shelf' = [shelf EXCEPT ![j] = [q EXCEPT !.plain = Append(@, new), !.state = @ \cup {new}]]
          \/ /\ ScopeOf(f) = "environment" /\ new \in Unused(EnvIds)
             /\ \E m \in Injection(Branch(p, f), Unused(EnvIds)) :
                  LET copies == [k \in DOMAIN BranchSeq(p, f) |-> m[BranchSeq(p, f)[k]]]
                      up(e) == IF p.parent[e] \in Branch(p, f) THEN m[p.parent[e]] ELSE ""
                  IN /\ m[f] = new
                     /\ shelf' = [shelf EXCEPT ![j] = [q EXCEPT !.envs = @ \o copies, !.activeEnv = new, !.state = @ \cup {new},
                             !.parent = [x \in DOMAIN @ |-> IF x \in ToSet(copies) THEN up(CHOOSE e \in Branch(p, f) : m[e] = x) ELSE @[x]]]]

(* generate: a design's collection is made, or made again under its id.    *)
Generate(i, d) ==
    LET p == shelf[i] IN
    /\ d \in ToSet(p.designs)
    /\ \E c \in IF p.gen[d] # "" THEN {p.gen[d]} ELSE Unused(CollectionIds) :
         shelf' = [shelf EXCEPT ![i] = [p EXCEPT !.cols = IF c \in ToSet(@) THEN @ ELSE Append(@, c), !.active = c, !.gen = [@ EXCEPT ![d] = c]]]

FilesInit == shelf \in [Project -> StartProjects]
FilesNext ==
    \E i, j \in Project :
       \/ \E f \in Files(shelf[i]) : MoveFile(i, j, f) \/ \E new \in CollectionIds \cup DesignIds \cup EnvIds \cup PlainIds : DuplicateFile(i, j, f, new)
       \/ i = j /\ \E d \in DesignIds : Generate(i, d)
FilesSpec == FilesInit /\ [][FilesNext]_fileVars

-----------------------------------------------------------------------------
(* Nothing a project holds is lost or stranded: reading back the records   *)
(* it is stored in gives the project, whatever its designs share, and      *)
(* after every move and copy suites, results and histories belong to a     *)
(* collection of their own project and the active items exist              *)
(* (workspacePhysicalStore.ts; projectWorkspaces.ts, moveProjectWorkspace).*)
SplitsBack(p) == RecordsFit(Split(p)) /\ Assembled(Shell(p), Split(p)) = p
Belongs(p) ==
    /\ \A s \in p.suites : s.col \in ToSet(p.cols)
    /\ \A r \in p.results : \E s \in p.suites : r.suite = s.id
    /\ \A h \in ToSet(p.history) : h.req \in ToSet(p.cols)
    /\ p.active \in ToSet(p.cols) \cup {""} /\ (p.envs # <<>> => p.activeEnv \in ToSet(p.envs))
    /\ p.state \subseteq Files(p)
FilesSound == \A i \in Project : SplitsBack(shelf[i]) /\ Belongs(shelf[i])
=============================================================================
