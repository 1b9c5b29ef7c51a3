---------------------------- MODULE WorkspaceLoad ----------------------------
(***************************************************************************)
(* Reading a project (storage.ts): migrateWorkspace takes whatever a file  *)
(* holds (an older version's project, one another tool or a merge wrote)   *)
(* and makes a project of it that the rest of the program can rely on;     *)
(* secureImportedWorkspace also takes away every authority it brings.      *)
(*                                                                         *)
(* The sections of a document are those whose parts refer to each other:   *)
(* folders and their order, environments and their privacy, members, teams *)
(* and grants, test suites and their requests, and the file states.        *)
(* The fields of a request and the settings are copied or replaced by      *)
(* their defaults one by one; they are left out.                           *)
(***************************************************************************)
EXTENDS Naturals, Sequences, FiniteSets

CONSTANTS
    RawDocuments, \* documents that may be on disk, as a sequence of sets
    EmptyFrom,    \* the first version that may be without collections (42)
    StateFrom     \* the first version that has file states (43)

ASSUME LoadAssumption == EmptyFrom \in Nat /\ StateFrom \in Nat

VARIABLES
    raw,     \* what is on disk
    project, \* what the program has of it, or NoDocument before the load
    mode     \* whether it was opened or imported

loadVars == <<raw, project, mode>>

NoDocument == [version |-> 0]

CurrentVersion == 52

\* The positions of a sequence, and its elements.
Rows(s) == 1..Len(s)
Elements(s) == {s[i] : i \in Rows(s)}

\* The first element of a sequence that has the property, or the other value.
FirstWith(s, P(_), other) ==
    IF \E i \in Rows(s) : P(s[i])
    THEN s[CHOOSE i \in Rows(s) : P(s[i]) /\ \A j \in 1..(i - 1) : ~P(s[j])]
    ELSE other

\* The rows with an id that no earlier row has.
OncePerId(s) ==
    LET keep[i \in 0..Len(s)] ==
            IF i = 0 THEN <<>>
            ELSE IF \E j \in Rows(keep[i - 1]) : keep[i - 1][j].id = s[i].id
            THEN keep[i - 1] ELSE Append(keep[i - 1], s[i])
    IN  keep[Len(s)]

IdsOf(s) == {s[i].id : i \in Rows(s)}

-----------------------------------------------------------------------------
(* Folders and environments: a forest out of any parents.                  *)

\* parentId !== id && ids.has(parentId) ? parentId : ''
KnownParents(rows) ==
    [i \in Rows(rows) |-> [rows[i] EXCEPT !.parent =
        IF rows[i].parent # rows[i].id /\ rows[i].parent \in IdsOf(rows)
        THEN rows[i].parent ELSE ""]]

ByIdOf(rows, id) == rows[CHOOSE i \in Rows(rows) : rows[i].id = id]

\* The walk of one row up its parents: TRUE when it meets a row again.
Circles(rows, i) ==
    LET up[x \in IdsOf(rows), visited \in SUBSET IdsOf(rows)] ==
            LET parent == ByIdOf(rows, x).parent
            IN  /\ parent # ""
                /\ parent \in visited \/ up[parent, visited \cup {parent}]
    IN  up[rows[i].id, {rows[i].id}]

\* The rows one after the other: a row whose walk circles becomes a root, which
\* the walks of the later rows see.
Rooted(rows) ==
    LET at[i \in 0..Len(rows)] ==
            IF i = 0 THEN rows
            ELSE IF Circles(at[i - 1], i) THEN [at[i - 1] EXCEPT ![i].parent = ""]
            ELSE at[i - 1]
    IN  at[Len(rows)]

NormalizeFolders(rows) == Rooted(KnownParents(rows))

\* A pass makes private, one after the other, the children of private rows.
PrivacyPass(rows) ==
    LET at[i \in 0..Len(rows)] ==
            IF i = 0 THEN rows
            ELSE LET r == at[i - 1][i]
                 IN  IF r.parent # "" /\ ByIdOf(at[i - 1], r.parent).private
                     THEN [at[i - 1] EXCEPT ![i].private = TRUE] ELSE at[i - 1]
    IN  at[Len(rows)]

PrivacyPassOnce(rows) == PrivacyPass(rows)

\* As many passes as there are rows.
PrivacyPasses(rows) ==
    LET after[n \in 0..Len(rows)] ==
            IF n = 0 THEN rows ELSE PrivacyPass(after[n - 1])
    IN  after[Len(rows)]

\* The secret rows of what is not private go.
WithoutPublicSecrets(rows) ==
    [i \in Rows(rows) |-> [rows[i] EXCEPT !.secret = @ /\ rows[i].private]]

SeedEnvironment == [id |-> "seed", parent |-> "", private |-> FALSE, secret |-> FALSE]

NormalizeEnvironments(rows, version) ==
    IF rows = <<>> THEN IF version >= EmptyFrom THEN <<>> ELSE <<SeedEnvironment>>
    ELSE WithoutPublicSecrets(PrivacyPasses(Rooted(KnownParents(rows))))

\* resourceOrder: what is listed, then what is not, each resource once.
CompleteOrder(order, folders, requests) ==
    LET there == IdsOf(folders) \cup {requests[i] : i \in Rows(requests)}
        all == SelectSeq(order \o [i \in Rows(folders) |-> folders[i].id] \o requests,
                         LAMBDA x : x \in there)
        keep[i \in 0..Len(all)] ==
            IF i = 0 THEN <<>>
            ELSE IF all[i] \in Elements(keep[i - 1]) THEN keep[i - 1]
            ELSE Append(keep[i - 1], all[i])
    IN  keep[Len(all)]

-----------------------------------------------------------------------------
(* Members, teams and grants (normalizeGovernance).                        *)

DefaultMember == [id |-> "local", role |-> "owner", active |-> TRUE, teams |-> {}]

IsOwner(m) == m.active /\ m.role = "owner"

\* safeMembers: the defaults for none, and an owner if there is none.
SafeMembers(rows) ==
    LET once == OncePerId(rows)
        some == IF once = <<>> THEN <<DefaultMember>> ELSE once
    IN  IF \E i \in Rows(some) : IsOwner(some[i]) THEN some
        ELSE [some EXCEPT ![1].role = "owner", ![1].active = TRUE]

NormalizeGovernance(g) ==
    LET safe    == SafeMembers(g.members)
        teams   == [i \in Rows(OncePerId(g.teams)) |->
                       [OncePerId(g.teams)[i] EXCEPT !.members = @ \cap IdsOf(safe)]]
        members == [i \in Rows(safe) |-> [safe[i] EXCEPT !.teams =
                       (@ \cap IdsOf(teams)) \cup
                       {t \in IdsOf(teams) : safe[i].id \in ByIdOf(teams, t).members}]]
        grants  == {s \in g.grants : s \in IdsOf(members) \cup IdsOf(teams)}
        active(m) == m.active
        named(id, P(_)) == \E i \in Rows(members) : members[i].id = id /\ P(members[i])
    IN  [members |-> members, teams |-> teams, grants |-> grants,
         current |-> IF named(g.current, active) THEN g.current
                     ELSE FirstWith(members, active, members[1]).id,
         owner   |-> IF named(g.owner, IsOwner) THEN g.owner
                     ELSE FirstWith(members, IsOwner, members[1]).id]

-----------------------------------------------------------------------------
(* Test suites and results.                                                *)

\* The collection a request is in: that of the last entry of the map.
CollectionOf(collections, r) ==
    IF \E i \in Rows(collections) : r \in Elements(collections[i].requests)
    THEN collections[CHOOSE i \in Rows(collections) :
            /\ r \in Elements(collections[i].requests)
            /\ \A j \in (i + 1)..Len(collections) : r \notin Elements(collections[j].requests)].id
    ELSE ""

\* The suite's own collection, else that of the first of its tests which has one,
\* else the first.
SuiteCollection(collections, suite) ==
    LET inferred == SelectSeq([i \in Rows(suite.tests) |->
                                 CollectionOf(collections, suite.tests[i].request)],
                              LAMBDA c : c # "")
    IN  IF suite.collection \in IdsOf(collections) THEN suite.collection
        ELSE IF inferred # <<>> THEN inferred[1]
        ELSE IF collections # <<>> THEN collections[1].id ELSE ""

TestRequestAnywhere(collections, collection, r) ==
    IF CollectionOf(collections, r) # "" THEN r ELSE ""

\* requestId: only one of the suite's own collection
TestRequest(collections, collection, r) ==
    IF CollectionOf(collections, r) = collection THEN r ELSE ""

NormalizeTestSuites(suites, collections) ==
    LET requests == UNION {Elements(collections[i].requests) : i \in Rows(collections)}
        at[i \in 0..Len(suites)] ==
            IF i = 0 THEN <<>>
            ELSE LET suite == suites[i]
                     c     == SuiteCollection(collections, suite)
                     taken == UNION {IdsOf(at[i - 1][j].tests) : j \in Rows(at[i - 1])}
                     fresh == SelectSeq(OncePerId(suite.tests), LAMBDA t : t.id \notin taken)
                 IN  IF suite.id \in requests \cup IdsOf(at[i - 1]) \/ c = "" THEN at[i - 1]
                     ELSE Append(at[i - 1],
                            [id |-> suite.id, collection |-> c,
                             tests |-> [k \in Rows(fresh) |-> [fresh[k] EXCEPT !.request =
                                           TestRequest(collections, c, @)]]])
    IN  at[Len(suites)]

\* Results, by the suite they are of: those of a suite that is there.
NormalizeUnitTestResults(results, suites) == results \cap IdsOf(suites)

\* Recorded sessions, by the request they are of: those of a request that is there.
NormalizeStoredStreamSessions(sessions, requests) == sessions \cap requests

-----------------------------------------------------------------------------
(* The whole document (migrateWorkspace).                                  *)

SeedCollection == [id |-> "seedc", folders |-> <<>>, requests |-> <<"seedr">>,
                   folderOf |-> [r \in {"seedr"} |-> ""], order |-> <<"seedr">>]

NormalizeCollection(c) ==
    LET folders == NormalizeFolders(c.folders)
    IN  [c EXCEPT !.folders = folders,
                  !.folderOf = [r \in DOMAIN @ |-> IF @[r] \in IdsOf(folders) THEN @[r] ELSE ""],
                  !.order = CompleteOrder(@, folders, c.requests)]

\* fileIds: collections that no design generated, designs, root environments
FileIds(collections, designs, environments) ==
    {c \in IdsOf(collections) : \A d \in designs : d.generated # c}
        \cup {d.id : d \in designs}
        \cup {environments[i].id : i \in {j \in Rows(environments) : environments[j].parent = ""}}

\* The cookies of a file: its own, or those an older version kept for all.
FileState(doc, files) ==
    [f \in files |-> IF doc.version >= StateFrom /\ f \in DOMAIN doc.fileState
                     THEN doc.fileState[f] ELSE doc.cookies]

MigrateWorkspace(doc) ==
    LET collections  == LET some == IF doc.collections = <<>> /\ doc.version < EmptyFrom
                                    THEN <<SeedCollection>> ELSE doc.collections
                        IN  [i \in Rows(some) |-> NormalizeCollection(some[i])]
        environments == NormalizeEnvironments(doc.environments, doc.version)
        requests     == UNION {Elements(collections[i].requests) : i \in Rows(collections)}
        suites       == NormalizeTestSuites(doc.suites, collections)
    IN  [doc EXCEPT
            !.version      = CurrentVersion,
            !.collections  = collections,
            !.environments = environments,
            !.active       = IF @ \in requests THEN @
                             ELSE IF collections # <<>> /\ collections[1].requests # <<>>
                             THEN collections[1].requests[1] ELSE "",
            !.activeEnv    = IF @ \in IdsOf(environments) THEN @
                             ELSE IF environments # <<>> THEN environments[1].id ELSE "",
            !.governance   = NormalizeGovernance(@),
            !.suites       = suites,
            !.results      = NormalizeUnitTestResults(@, suites),
            !.streams      = NormalizeStoredStreamSessions(@, requests),
            !.fileState    = FileState(doc, FileIds(collections, doc.designs, environments)),
            !.cookies      = {}]

\* secureImportedWorkspace: plugins, clients and integrations are switched off
\* and lose their grants and credentials, environments their secrets, and the
\* bonds to a folder, a repository and a shared file are cut.
SecureImportedWorkspace(doc) ==
    LET w == MigrateWorkspace(doc)
    IN  [w EXCEPT !.authority = {},
                  !.environments = [i \in Rows(@) |-> [@[i] EXCEPT !.secret = FALSE]]]

-----------------------------------------------------------------------------
(* Opening, importing, saving.                                             *)

LoadInit ==
    /\ \E section \in Rows(RawDocuments) : raw \in RawDocuments[section]
    /\ project = NoDocument
    /\ mode = "closed"

LoadWorkspace ==
    /\ mode = "closed"
    /\ mode' = "opened"
    /\ project' = MigrateWorkspace(raw)
    /\ UNCHANGED raw

ParseWorkspaceImport ==
    /\ mode = "closed"
    /\ mode' = "imported"
    /\ project' = SecureImportedWorkspace(raw)
    /\ UNCHANGED raw

\* saveWorkspace, and the program ends
SaveWorkspace ==
    /\ mode # "closed" /\ raw # project
    /\ raw' = project
    /\ mode' = "closed"
    /\ UNCHANGED project

LoadNext == LoadWorkspace \/ ParseWorkspaceImport \/ SaveWorkspace

LoadSpec == LoadInit /\ [][LoadNext]_loadVars

-----------------------------------------------------------------------------
(* Correctness.                                                            *)

\* Every chain of parents ends.
Forest(rows) ==
    \A s \in SUBSET IdsOf(rows) : s # {} => \E x \in s : ByIdOf(rows, x).parent \notin s

\* Whatever the document held, what the program gets of it is whole: folders and
\* environments are forests, what is under a private environment is private and
\* what is public has no secrets, each order lists each resource once, a test
\* names a request of its own suite's collection and has its id alone, members
\* and teams know each other, someone active owns the project and someone active
\* is at work, and each file has its state (migrateWorkspace).
ProjectWhole ==
    mode # "closed" =>
      /\ \A i \in Rows(project.collections) :
           LET c == project.collections[i]
           IN  /\ Forest(c.folders)
               /\ \A r \in DOMAIN c.folderOf : c.folderOf[r] \in IdsOf(c.folders) \cup {""}
               /\ Elements(c.order) = IdsOf(c.folders) \cup Elements(c.requests)
               /\ Len(c.order) = Cardinality(Elements(c.order))
      /\ Forest(project.environments)
      /\ \A i \in Rows(project.environments) :
           LET e == project.environments[i]
           IN  /\ e.secret => e.private
               /\ e.parent # "" /\ ByIdOf(project.environments, e.parent).private => e.private
      /\ \A i, j \in Rows(project.suites) : i # j =>
           IdsOf(project.suites[i].tests) \cap IdsOf(project.suites[j].tests) = {}
      /\ \A i \in Rows(project.suites) :
           LET s == project.suites[i]
           IN  \A k \in Rows(s.tests) : s.tests[k].request # "" =>
                 \E c \in Rows(project.collections) :
                    /\ project.collections[c].id = s.collection
                    /\ s.tests[k].request \in Elements(project.collections[c].requests)
      /\ LET g == project.governance
         IN  /\ \E i \in Rows(g.members) : IsOwner(g.members[i]) /\ g.members[i].id = g.owner
             /\ \E i \in Rows(g.members) : g.members[i].active /\ g.members[i].id = g.current
             /\ \A i \in Rows(g.teams) : \A m \in g.teams[i].members :
                  g.teams[i].id \in ByIdOf(g.members, m).teams
      /\ mode = "imported" => \A i \in Rows(project.environments) : ~project.environments[i].secret

\* Reading back what was saved changes nothing: a document that went through
\* migrateWorkspace once comes out of it the same, so that opening a project again
\* and again never wears it down.
ReloadStable ==
    mode # "closed" => MigrateWorkspace(project) = project

LoadSound == ProjectWhole /\ ReloadStable
=============================================================================
