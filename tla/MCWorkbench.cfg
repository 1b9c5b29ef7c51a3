SPECIFICATION MCSpec
CONSTANTS
    Kinds = {"socketio"}
    MaxSessions = 2
    MaxTroubles = 1
    MaxCommands = 1
    MockIds = {"s", "t"}
    MockProjects = {"p", "q"}
    MaxMockEdits = 1
    MaxMockCalls = 2
    MaxProjectChanges = 1
    TestIds = {"t", "u"}
    TestRequests = {"h", "w"}
    KeptRuns = 1
    PlanRequests = {"r", "s"}
    Reports = {"x", "y"}
    PlanProjects = {"p", "q"}
    VaultProjects = {"p", "q"}
    MaxSecretEdits = 2
    MaxVaultSaves = 2
    MaxVaultChanges = 1
    MaxUnlocks = 2
INVARIANTS OrphansExplained MocksSound TestRunsAccount SecretsKept
PROPERTIES PlanSound
CHECK_DEADLOCK FALSE
