SPECIFICATION Spec
CONSTANTS
    Calls = {c1, c2}
    Keys = {k1, k2}
    Prints = {f1, f2}
    Uses <- DistinctUses
    None = None
    MaxSessions = 1
    MaxPending = 1
    MaxTroubles = 2
INVARIANTS CallsExact
PROPERTIES CallsSettle
CHECK_DEADLOCK FALSE
