SPECIFICATION MCSpec
CONSTANTS
    Catalogs = {c1, c2, c3}
    Missing = Missing
    Torn = Torn
    None = None
    MaxDamage = 2
    MaxFaults = 3
    ProjectIds = {"p", "q"}
    ProjectFiles = {"f"}
    MaxQuota = 3
    MaxOperations = 4
    MaxDeletions = 1
    StartProjects <- MCStartProjects
    CollectionIds = {"c1", "c2", "c3"}
    DesignIds = {"d1", "d2"}
    EnvIds = {"e1", "e2", "e3"}
    PlainIds = {"m1", "m2"}
    HistoryKept = 2
    RawDocuments <- MCRawDocuments
    EmptyFrom = 42
    StateFrom = 43
    TreeCollections = {"c", "d"}
    TreeFolders = {"f", "g"}
    TreeRequests = {"r", "s"}
    MaxResources = 3
    Imported <- MCImported
    Planes = {"x", "y"}
    Gap = "sg"
    Routes = {"r"}
    MaxProjects = 2
    MaxPulls = 2
    MaxGatewayEdits = 2
    RegionOf <- MCRegionOf
INVARIANTS FallbackIsRecent FilesSound LoadSound TreeSound
PROPERTIES ImplementsCell BrowserSound KonnectSound
CHECK_DEADLOCK FALSE
