SPECIFICATION Spec
CONSTANTS
    Events = {"chat", "news"}
    MaxListeners = 1
    Jitters = {0, 1000}
    MaxEmits = 2
    MaxLosses = 1
    MaxFailures = 1
    MaxPackets = 2
INVARIANTS EmitsExact
PROPERTIES SessionSettles
CHECK_DEADLOCK FALSE
