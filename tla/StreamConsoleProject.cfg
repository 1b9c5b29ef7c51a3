SPECIFICATION Spec
CONSTANTS
    Kinds = {"socketio"}
    MaxSessions = 2
    MaxTroubles = 1
    MaxCommands = 1
PROPERTIES ProjectChangeEndsStreams
CHECK_DEADLOCK FALSE
