SPECIFICATION MCSpec
CONSTANTS
    Projects = {p1, p2}
    First = p1
    None = None
    MaxChanges = 2
    MaxOps = 2
    MaxInputs = 3
    MaxFaults = 1
    Requests = {"a", "b"}
    NameOf <- MCNameOf
    MissingTarget = "zz"
    MaxItems = 2
    Retries = 1
    ExtraSteps = 1
    Watched = "a"
    HistoryLimit = 2
PROPERTIES SavesSound RunSound
CHECK_DEADLOCK FALSE
