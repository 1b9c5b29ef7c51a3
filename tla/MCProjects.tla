----------------------------- MODULE MCProjects -----------------------------
(* A project that is stored, shared and filled, for TLC: the store, the Git*)
(* workbench, the encrypted sync file, the collaboration repository and    *)
(* imports.                                                                *)
EXTENDS ProjectStore, GitProject, SyncFile, CollaborationRepository, ArtifactImport

VARIABLE part   \* the component this behaviour is about; the others are at rest

StoreRest ==
    /\ rec = NoFiles /\ man = NoFiles /\ committed = 0 /\ lastRev = 0 /\ recovery = {} /\ orphans = {}
    /\ op = Idle /\ pc = "idle" /\ damages = 0 /\ clean = TRUE
GitRest ==
    /\ gitCommits = <<FirstCommit(Blank, {1})>> /\ memory = Blank
    /\ gitHeads = [b \in GitBranches |-> IF b = "main" THEN 1 ELSE 0] /\ origin = 1
    /\ tree = memory /\ index = memory /\ unmerged = {} /\ merging = 0 /\ current = "main"
    /\ shown = GitStatus(memory, memory, {}, 0, memory) /\ groups = <<>> /\ gitOp = NoOp
    /\ armed = FALSE /\ writing = NoWrite /\ gitEdits = 0 /\ ops = 0
\* ArtifactImport: resources of the export in file order.
MCImportFolders == <<"f", "g">>
MCImportRequests == <<"r">>
MCImportEnvs == <<"e">>
ImportRest ==
    /\ export = <<[x \in FolderSet \cup RequestSet |-> SuiteWorkspace], [x \in EnvSet |-> SuiteWorkspace]>>
    /\ chosen = <<>> /\ analysis = NoAnalysis /\ results = <<>> /\ target = EmptyProject /\ batches = 0

MCInit ==
    /\ part \in {"store", "git", "sync", "repository", "import"}
    /\ IF part = "store" THEN Init ELSE StoreRest
    /\ IF part = "git" THEN GitInit ELSE GitRest
    /\ SyncInit
    /\ RepositoryInit
    /\ IF part = "import" THEN ImportInit ELSE ImportRest

StorePart == part = "store" /\ Next /\ UNCHANGED <<part, gitVars, syncVars, repoVars, importVars>>
GitPart == part = "git" /\ GitNext /\ UNCHANGED <<part, vars, syncVars, repoVars, importVars>>
SyncPart == part = "sync" /\ SyncNext /\ UNCHANGED <<part, vars, gitVars, repoVars, importVars>>
RepositoryPart == part = "repository" /\ RepositoryNext /\ UNCHANGED <<part, vars, gitVars, syncVars, importVars>>
ImportPart == part = "import" /\ ImportNext /\ UNCHANGED <<part, vars, gitVars, syncVars, repoVars>>

MCNext == StorePart \/ GitPart \/ SyncPart \/ RepositoryPart \/ ImportPart
MCVars == <<part, vars, gitVars, syncVars, repoVars, importVars>>
MCSpec == MCInit /\ [][MCNext]_MCVars
=============================================================================
