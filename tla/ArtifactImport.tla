--------------------------- MODULE ArtifactImport ---------------------------
(***************************************************************************)
(* Importing artifacts (interchange/): the import dialog analyses the      *)
(* chosen files, each export becomes collections, environments and test    *)
(* suites, and applying the results adds them to the project under ids of  *)
(* a fresh batch, or replaces the project by a Brunomnia export.           *)
(*                                                                         *)
(* An Insomnia v4 export is a flat list of resources that name their       *)
(* parents; nothing keeps the names from pointing nowhere or in a circle.  *)
(* A v5 or Postman export nests its resources and so has neither.  A       *)
(* resource is its id in the export, an imported one its id and its batch. *)
(***************************************************************************)
EXTENDS Naturals, Sequences, FiniteSets

CONSTANTS
    Workspaces,     \* workspaces of the export, each one a collection
    SuiteWorkspace, \* the one that has the unit test suite
    ImportFolders,  \* a sequence: the folders, in the export's order
    ImportRequests, \* a sequence: the requests, in the export's order
    ImportEnvs,     \* a sequence: the environments, in the export's order
    MaxFiles,       \* bound: files chosen at once (MAX_IMPORT_FILES)
    MaxBatches      \* bound: results applied

ImportOrder == ImportFolders \o ImportRequests
FolderSet == {ImportFolders[i] : i \in 1..Len(ImportFolders)}
RequestSet == {ImportRequests[i] : i \in 1..Len(ImportRequests)}
EnvSet == {ImportEnvs[i] : i \in 1..Len(ImportEnvs)}

ASSUME ImportAssumption ==
    /\ SuiteWorkspace \in Workspaces
    /\ MaxFiles \in Nat /\ MaxBatches \in Nat

VARIABLES
    export,   \* the export at hand: the parent of each resource
    chosen,   \* the dialog's files, as their kinds
    analysis, \* the files under analysis, or NoAnalysis
    results,  \* the results previewed
    target,   \* the project
    batches   \* batches so far

importVars == <<export, chosen, analysis, results, target, batches>>

\* What a chosen file holds: a flat or a nested export, a Brunomnia project, or
\* nothing that can be imported.
FileKinds == {"flat", "nested", "replacement", "unreadable"}

NoAnalysis == <<"none">>

Parents == Workspaces \cup FolderSet \cup EnvSet \cup {"gone"}

Exports ==
    [FolderSet \cup RequestSet -> Parents \ EnvSet]
        \X [EnvSet -> EnvSet \cup {SuiteWorkspace}]

ParentIn(e, x) == IF x \in EnvSet THEN e[2][x] ELSE e[1][x]

-----------------------------------------------------------------------------
(* Importing a flat export (importInsomniaV4).                             *)

\* belongsToWorkspace of a folder, and of an environment: up the parents, until
\* the workspace, an unknown parent or a resource seen before.
BelongsToWorkspace(e, kin, x, w) ==
    LET up[y \in kin, seen \in SUBSET kin] ==
            /\ y \notin seen
            /\ \/ ParentIn(e, y) = w
               \/ /\ ParentIn(e, y) \in kin
                  /\ up[ParentIn(e, y), seen \cup {y}]
    IN  up[x, {}]

RequestOfAnyFolder(e, r, w) == ParentIn(e, r) \in FolderSet \cup {w}

\* The filter of rawRequests: up from the folder of the request to the topmost
\* folder, none at all when a folder comes again.
RequestBelongs(e, r, w) ==
    LET top[y \in FolderSet, seen \in SUBSET FolderSet] ==
            IF ParentIn(e, y) \notin FolderSet THEN ParentIn(e, y)
            ELSE IF y \in seen THEN "gone"
            ELSE top[ParentIn(e, y), seen \cup {y}]
    IN  IF ParentIn(e, r) \in FolderSet THEN top[ParentIn(e, r), {}] = w
        ELSE ParentIn(e, r) = w

\* folderIds.get(parentId) ?? '' and ids.get(parentId) ?? ''
ParentOr(e, x, kin) == IF ParentIn(e, x) \in kin THEN ParentIn(e, x) ELSE ""

\* appendResourceOrder: depth first, a resource once.
ResourceOrder(e, w, mine) ==
    LET walk[parent \in Parents, todo \in 0..Len(ImportOrder),
             done \in [order : Seq(mine), visited : SUBSET mine]] ==
            IF todo = 0 THEN done
            ELSE LET x == ImportOrder[Len(ImportOrder) + 1 - todo]
                     here == x \in mine /\ ParentIn(e, x) = parent /\ x \notin done.visited
                     taken == [order   |-> Append(done.order, x),
                               visited |-> done.visited \cup {x}]
                 IN  IF ~here THEN walk[parent, todo - 1, done]
                     ELSE IF x \in FolderSet
                     THEN walk[parent, todo - 1, walk[x, Len(ImportOrder), taken]]
                     ELSE walk[parent, todo - 1, taken]
    IN  walk[w, Len(ImportOrder), [order |-> <<>>, visited |-> {}]].order

\* collectionEnvironmentFields: the first environment without a parent is the
\* base, the others become sub-environments.
BaseEnvironment(e, envs) ==
    LET roots == {i \in 1..Len(ImportEnvs) :
                    ImportEnvs[i] \in envs /\ ParentOr(e, ImportEnvs[i], envs) = ""}
    IN  IF roots = {} THEN "" ELSE ImportEnvs[CHOOSE i \in roots : \A j \in roots : i <= j]

FlatCollection(e, w) ==
    LET folders  == {f \in FolderSet : BelongsToWorkspace(e, FolderSet, f, w)}
        requests == {r \in RequestSet : RequestBelongs(e, r, w)}
        envs     == {v \in EnvSet : BelongsToWorkspace(e, EnvSet, v, w)}
    IN  [workspace |-> w,
         parent    |-> [x \in folders \cup requests |-> ParentOr(e, x, folders)],
         order     |-> ResourceOrder(e, w, folders \cup requests),
         base      |-> BaseEnvironment(e, envs),
         subs      |-> envs \ {BaseEnvironment(e, envs)}]

-----------------------------------------------------------------------------
(* Importing a nested export (nestedV5Requests, walkPostmanItems): what is *)
(* nested in a workspace, the children of a folder right after it.         *)

NestedCollection(e, w) ==
    LET inside == {x \in FolderSet \cup RequestSet :
                     \/ ParentIn(e, x) = w
                     \/ /\ ParentIn(e, x) \in FolderSet
                        /\ BelongsToWorkspace(e, FolderSet, ParentIn(e, x), w)}
    IN  [workspace |-> w,
         parent    |-> [x \in inside |-> ParentOr(e, x, FolderSet)],
         order     |-> ResourceOrder(e, w, inside),
         base      |-> "",
         subs      |-> {}]

\* The result of one file: its collections and, in the suite, the request the
\* unit test names, or none.
ResultOf(e, kind) ==
    LET collections == [w \in Workspaces |-> IF kind = "flat" THEN FlatCollection(e, w)
                                             ELSE NestedCollection(e, w)]
        test == Head(ImportRequests)
    IN  [kind        |-> kind,
         collections |-> {collections[w] : w \in Workspaces},
         suite       |-> [of   |-> SuiteWorkspace,
                          test |-> IF test \in DOMAIN collections[SuiteWorkspace].parent
                                   THEN test ELSE ""]]

-----------------------------------------------------------------------------
(* Applying results (applyArtifactImport).                                 *)

NextBatchSame(n) == 1

\* nextBatch: the sequence number that makes the ids of an import its own.
NextBatch(n) == n + 1

Rekeyed(batch, x) == IF x = "" THEN <<0, "">> ELSE <<batch, x>>

\* rekeyCollection
RekeyCollection(c, batch) ==
    [id     |-> Rekeyed(batch, c.workspace),
     parent |-> [y \in {Rekeyed(batch, x) : x \in DOMAIN c.parent} |->
                    Rekeyed(batch, c.parent[y[2]])],
     order  |-> [i \in DOMAIN c.order |-> Rekeyed(batch, c.order[i])],
     envs   |-> {Rekeyed(batch, v) : v \in c.subs \cup ({c.base} \ {""})}]

EmptyProject == [collections |-> {}, suites |-> {}, active |-> <<0, "">>,
                 files |-> {}, imports |-> 0]

\* firstRequest: the first request of a collection that has one.
FirstRequest(r) ==
    LET having == {c \in r.collections : DOMAIN c.parent \cap RequestSet # {}}
        of(c) == ImportRequests[CHOOSE i \in 1..Len(ImportRequests) :
                    /\ ImportRequests[i] \in DOMAIN c.parent
                    /\ \A j \in 1..(i - 1) : ImportRequests[j] \notin DOMAIN c.parent]
    IN  IF having = {} THEN "" ELSE of(CHOOSE c \in having : TRUE)

\* applyArtifactImport on the project p with the given batch
ApplyResult(p, r, batch) ==
    IF r.kind = "replacement" THEN [EmptyProject EXCEPT !.imports = 1]
    ELSE LET new == {RekeyCollection(c, batch) : c \in r.collections}
         IN  [collections |-> p.collections \cup new,
              suites      |-> p.suites \cup {[of   |-> Rekeyed(batch, r.suite.of),
                                              test |-> Rekeyed(batch, r.suite.test)]},
              active      |-> IF FirstRequest(r) = "" THEN p.active
                              ELSE Rekeyed(batch, FirstRequest(r)),
              files       |-> p.files \cup {c.id : c \in new},
              imports     |-> p.imports + 1]

-----------------------------------------------------------------------------
(* The dialog.                                                             *)

ImportInit ==
    /\ export \in Exports
    /\ chosen = <<>>
    /\ analysis = NoAnalysis
    /\ results = <<>>
    /\ target = EmptyProject
    /\ batches = 0

\* selectFiles: another choice clears the preview, also during an analysis.
SelectFiles(files) ==
    /\ batches < MaxBatches
    /\ chosen = <<>> \/ analysis # NoAnalysis
    /\ chosen' = files
    /\ results' = <<>>
    /\ UNCHANGED <<export, analysis, target, batches>>

\* analyze begins: the button is enabled with files chosen and no analysis under
\* way.
Analyze ==
    /\ analysis = NoAnalysis /\ chosen # <<>> /\ results = <<>>
    /\ analysis' = chosen
    /\ UNCHANGED <<export, chosen, results, target, batches>>

\* importArtifactFiles: a file that cannot be read is reported and left out; a
\* replacement with anything else refuses them all.
Imported(files) ==
    LET good == SelectSeq(files, LAMBDA k : k # "unreadable")
    IN  IF Len(good) > 1 /\ \E i \in DOMAIN good : good[i] = "replacement" THEN <<>>
        ELSE good

AnalysisEnds ==
    /\ analysis # NoAnalysis
    /\ results' = Imported(analysis)
    /\ chosen' = IF results' = <<>> THEN <<>> ELSE chosen
    /\ analysis' = NoAnalysis
    /\ UNCHANGED <<export, target, batches>>

\* applyImport: all results in one update, and the dialog closes.
ApplyImport ==
    /\ analysis = NoAnalysis /\ results # <<>>
    /\ LET at[i \in 0..Len(results)] ==
               IF i = 0 THEN [project |-> target, batch |-> batches]
               ELSE LET b == NextBatch(at[i - 1].batch)
                    IN  [project |-> ApplyResult(at[i - 1].project,
                            IF results[i] = "replacement"
                            THEN [kind |-> "replacement", collections |-> {},
                                  suite |-> [of |-> "", test |-> ""]]
                            ELSE ResultOf(export, results[i]), b),
                         batch   |-> b]
       IN  /\ target' = at[Len(results)].project
           /\ batches' = at[Len(results)].batch
    /\ results' = <<>>
    /\ chosen' = <<>>
    /\ UNCHANGED <<export, analysis>>

ImportNext ==
    \/ \E n \in 1..MaxFiles : \E files \in [1..n -> FileKinds] : SelectFiles(files)
    \/ Analyze
    \/ AnalysisEnds
    \/ ApplyImport

ImportSpec == ImportInit /\ [][ImportNext]_importVars

-----------------------------------------------------------------------------
(* Correctness.                                                            *)

\* The resources a workspace really holds, from the definition: from every one of
\* them a chain of parents, each a folder, leads to the workspace.
Held(w) ==
    {x \in FolderSet \cup RequestSet :
        \E n \in 0..Cardinality(FolderSet) : \E path \in [0..n -> FolderSet \cup RequestSet] :
            /\ path[0] = x
            /\ \A i \in 1..n : path[i] \in FolderSet /\ ParentIn(export, path[i - 1]) = path[i]
            /\ ParentIn(export, path[n]) = w}

\* An import loses nothing and ties everything down, however the parents of the
\* export are tangled: in each collection that was imported are exactly the
\* folders and requests its workspace holds; each one's parent is a folder of the
\* same collection or the collection itself, and following the parents ends; the
\* order lists each of them once (importInsomniaV4, rekeyCollection).
ImportComplete ==
    \A c \in target.collections :
        LET of == DOMAIN c.parent
            fs == {x \in of : x[2] \in FolderSet}
        IN  /\ {x[2] : x \in of} = Held(c.id[2])
            /\ \A x \in of : c.parent[x] \in fs \cup {<<0, "">>}
            /\ \A x \in of : c.parent[x] # <<0, "">> => c.parent[x][2] = ParentIn(export, x[2])
            /\ \A s \in SUBSET fs : s # {} => \E x \in s : c.parent[x] \notin s
            /\ Len(c.order) = Cardinality(of)
            /\ {c.order[i] : i \in DOMAIN c.order} = of

\* Imports keep apart: what one import brings shares no id with what another
\* brought, also from the same file; a test names a request of the collection of
\* its own suite; the request shown exists; every collection has its file state
\* (nextBatch, rekeyTestSuites, applyArtifactImport).
ImportsApart ==
    /\ \A c, d \in target.collections :
         c # d => /\ c.id # d.id
                  /\ DOMAIN c.parent \cap DOMAIN d.parent = {}
                  /\ c.envs \cap d.envs = {}
    /\ Cardinality(target.collections) = Cardinality(Workspaces) * Cardinality(target.suites)
    /\ \A s \in target.suites : \E c \in target.collections :
         c.id = s.of /\ (s.test # <<0, "">> => s.test \in DOMAIN c.parent)
    /\ target.active # <<0, "">> =>
         \E c \in target.collections : target.active \in DOMAIN c.parent
    /\ target.files = {c.id : c \in target.collections}

ImportSound == ImportComplete /\ ImportsApart
=============================================================================
