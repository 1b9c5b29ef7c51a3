SPECIFICATION MCSpec
CONSTANTS
    Ids = {p1, p2}
    NoId = NoId
    MaxWorkspaces = 2
    MaxTrash = 1
    MaxFaults = 1
    EnvironmentIds = {"a", "b", "c"}
    Jars = {"none", "x"}
    TabRequests = {"r", "s"}
    TabOthers = {"run", "f"}
    RunnerDocument = "run"
    MaxOpenTabs = 2
    MaxTabHistory = 2
    MaxClosedTabs = 2
    Sends = {"e", "f"}
    Hosts = {"x", "a.x", "b.x"}
    ParentHost <- MCParentHost
    SendSettings <- MCSettings
    Offers <- MCOffers
    Certificates <- MCCertificates
    PendingLimit = 1
    MaxClock = 1
    ScriptTests = {"t1", "t2"}
    Subrequests = {"s1", "s2", "s3"}
    MaxSubrequests = 2
    FileSizes = {0, 2}
    FileLimit = 3
INVARIANTS TabsSound HttpSound SandboxSound
PROPERTIES CatalogSound EnvironmentTreeSound
CHECK_DEADLOCK FALSE
