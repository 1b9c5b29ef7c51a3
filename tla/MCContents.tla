----------------------------- MODULE MCContents -----------------------------
(* The list of projects and what is in one, for TLC: the catalog file, the *)
(* catalog in browser storage, the files of a project, loading, the tree of*)
(* collections, and projects pulled from Konnect.                          *)
EXTENDS CatalogFile, BrowserCatalog, ProjectFiles, WorkspaceLoad, ResourceTree, KonnectSync

VARIABLE part   \* the component this behaviour is about; the others are at rest

\* ProjectFiles: an empty project, one with two designs that share a generated
\* collection, and one with a child environment listed before its parent.
NoResources == [cols |-> <<>>, designs |-> <<>>, gen |-> [d \in DesignIds |-> ""], envs |-> <<>>,
                parent |-> [e \in EnvIds |-> ""], plain |-> <<>>, suites |-> {}, results |-> {},
                history |-> <<>>, active |-> "", activeEnv |-> "", state |-> {}]
MCStartProjects == {NoResources,
    [NoResources EXCEPT !.cols = <<"c1", "c2">>, !.designs = <<"d1", "d2">>, !.gen = [d \in DesignIds |-> "c2"],
                        !.suites = {[id |-> "c2", col |-> "c2"]}, !.results = {[id |-> "u1", suite |-> "c2"]},
                        !.history = <<[id |-> 2, req |-> "c2"], [id |-> 1, req |-> "c1"]>>,
                        !.active = "c1", !.state = {"c1", "d2"}],
    [NoResources EXCEPT !.cols = <<"c1">>, !.envs = <<"e2", "e1">>,
                        !.parent = [e \in EnvIds |-> IF e = "e2" THEN "e1" ELSE ""],
                        !.plain = <<"m1">>, !.history = <<[id |-> 3, req |-> "c1"]>>,
                        !.active = "c1", !.activeEnv = "e2", !.state = {"e1", "m1"}]}
FilesRest == shelf = [i \in Project |-> NoResources]

\* WorkspaceLoad: documents that differ from a sound one in one section each.
RawFolder(f, p) == [id |-> f, parent |-> p]
RawCollection(id, folders, requests, folderOf, order) ==
    [id |-> id, folders |-> folders, requests |-> requests, folderOf |-> folderOf, order |-> order]
Plain(id, r) == RawCollection(id, <<>>, <<r>>, [x \in {r} |-> ""], <<r>>)
Base == [version |-> 52, collections |-> <<Plain("c", "r"), Plain("d", "s")>>, environments |-> <<>>,
         active |-> "r", activeEnv |-> "",
         governance |-> [members |-> <<>>, teams |-> <<>>, grants |-> {}, current |-> "", owner |-> ""],
         suites |-> <<>>, results |-> {}, streams |-> {"r", "gone"}, designs |-> {},
         fileState |-> [f \in {} |-> {}], cookies |-> {}, authority |-> {"plugin"}]
UpToTwo(S) == {<<>>} \cup {<<x>> : x \in S} \cup {<<x, y>> : x \in S, y \in S}
RawFolders ==
    {[Base EXCEPT !.collections =
        <<RawCollection("c", <<RawFolder("f", p[1]), RawFolder("g", p[2]), RawFolder("h", p[3])>>,
                        <<"r">>, [x \in {"r"} |-> q], o)>>] :
        p \in [1..3 -> {"f", "g", "h", "", "gone"}], q \in {"f", "h", "", "gone"},
        o \in {<<>>, <<"r", "gone", "r">>, <<"h", "f">>}}
RawEnvironment(e, p, v, s) == [id |-> e, parent |-> p, private |-> v, secret |-> s]
RawEnvironments ==
    {[Base EXCEPT !.environments = <<RawEnvironment("e", p[1], v[1], s[1]), RawEnvironment("k", p[2], v[2], s[2]),
                                     RawEnvironment("m", p[3], v[3], s[3])>>, !.activeEnv = "k"] :
        p \in [1..3 -> {"e", "k", "m", "", "gone"}], v \in [1..3 -> BOOLEAN], s \in [1..3 -> BOOLEAN]}
RawMembers == {[id |-> i, role |-> ra[1], active |-> ra[2], teams |-> t] :
                i \in {"a", "b"}, ra \in {<<"owner", TRUE>>, <<"owner", FALSE>>, <<"viewer", TRUE>>},
                t \in {{}, {"t", "gone"}}}
RawGovernance ==
    {[Base EXCEPT !.governance = [members |-> m, teams |-> t, grants |-> {"a", "t", "gone"}, current |-> c, owner |-> o]] :
        m \in UpToTwo(RawMembers), t \in {<<>>} \cup {<<[id |-> "t", members |-> x]>> : x \in SUBSET {"a", "b", "gone"}},
        c \in {"a", "b", "gone"}, o \in {"a", "b", "gone"}}
RawTests == {[id |-> i, request |-> r] : i \in {"t", "u"}, r \in {"r", "s", "gone"}}
RawSuite == {[id |-> i, collection |-> c, tests |-> t] : i \in {"x", "y", "r"}, c \in {"d", "gone"},
              t \in {<<>>} \cup {<<x>> : x \in RawTests} \cup {<<[id |-> "t", request |-> "s"], x>> : x \in RawTests}}
RawSuites == {[Base EXCEPT !.suites = s, !.results = {"x", "gone"}] : s \in UpToTwo(RawSuite)}
RawFiles ==
    {[Base EXCEPT !.version = v, !.collections = c, !.environments = e, !.designs = d,
                  !.fileState = [f \in fs |-> {"own"}], !.cookies = k] :
        v \in {41, 42, 43}, c \in {<<>>, Base.collections}, e \in {<<>>, <<RawEnvironment("e", "", TRUE, FALSE)>>},
        d \in SUBSET {[id |-> "x", generated |-> "c"]}, fs \in SUBSET {"c", "x", "e", "gone"}, k \in SUBSET {"k"}}
MCRawDocuments == <<RawFolders, RawEnvironments, RawGovernance, RawSuites, RawFiles>>
LoadRest == raw = Base /\ project = NoDocument /\ mode = "closed"

MCImported == [folders |-> <<"f">>, requests |-> <<"r", "s">>,
               parent |-> [x \in {"f", "r", "s"} |-> IF x = "s" THEN "f" ELSE ""], order |-> <<"s", "gone">>]
TreeRest ==
    /\ collectionOrder = SetToSeq(TreeCollections) /\ tree = [c \in TreeCollections |-> EmptyCollection]
    /\ activeId = Root /\ testTarget = Root
MCRegionOf == [p \in Planes |-> IF p = "x" THEN "us" ELSE "sg"]

MCInit ==
    /\ part \in {"catalog", "browser", "files", "load", "tree", "konnect"}
    /\ Init
    /\ BrowserInit
    /\ IF part = "files" THEN FilesInit ELSE FilesRest
    /\ IF part = "load" THEN LoadInit ELSE LoadRest
    /\ IF part = "tree" THEN TreeInit ELSE TreeRest
    /\ KonnectInit

CatalogPart == part = "catalog" /\ Next /\ UNCHANGED <<part, browserVars, fileVars, loadVars, treeVars, konnectVars>>
BrowserPart == part = "browser" /\ BrowserNext /\ UNCHANGED <<part, vars, fileVars, loadVars, treeVars, konnectVars>>
FilesPart == part = "files" /\ FilesNext /\ UNCHANGED <<part, vars, browserVars, loadVars, treeVars, konnectVars>>
LoadPart == part = "load" /\ LoadNext /\ UNCHANGED <<part, vars, browserVars, fileVars, treeVars, konnectVars>>
TreePart == part = "tree" /\ TreeNext /\ UNCHANGED <<part, vars, browserVars, fileVars, loadVars, konnectVars>>
KonnectPart == part = "konnect" /\ KonnectNext /\ UNCHANGED <<part, vars, browserVars, fileVars, loadVars, treeVars>>

MCNext == CatalogPart \/ BrowserPart \/ FilesPart \/ LoadPart \/ TreePart \/ KonnectPart
MCVars == <<part, vars, browserVars, fileVars, loadVars, treeVars, konnectVars>>
MCSpec == MCInit /\ [][MCNext]_MCVars
=============================================================================
