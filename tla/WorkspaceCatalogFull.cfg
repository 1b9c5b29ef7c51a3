SPECIFICATION Spec
CONSTANTS
    Ids = {p1, p2}
    NoId = NoId
    MaxWorkspaces = 1
    MaxTrash = 0
    MaxFaults = 1
INVARIANT CatalogBounded
CHECK_DEADLOCK FALSE
