SPECIFICATION MCSpec
CONSTANTS
    Legacy = {0, 1, 2}
    MaxRev = 3
    MaxDamage = 1
    GitFiles = {"x", "y"}
    GitBranches = {"main", "b"}
    MaxGitEdits = 2
    MaxGitCommits = 2
    MaxGroups = 2
    MaxGitOps = 3
    Devices = {"d", "e"}
    MaxSharedEdits = 2
    MaxRevisions = 3
    Fields = {"x"}
    Values = {1, 2, 3}
    Branches = {"main", "b"}
    RetainedCommits = 3
    MaxCommitsMade = 4
    Workspaces = {"w", "v"}
    SuiteWorkspace = "w"
    ImportFolders <- MCImportFolders
    ImportRequests <- MCImportRequests
    ImportEnvs <- MCImportEnvs
    MaxFiles = 2
    MaxBatches = 1
INVARIANTS NoMixedRevision GroupsExact ImportSound
PROPERTIES StoreKeepsWork SyncLosesNothing RepositorySound
CHECK_DEADLOCK FALSE
