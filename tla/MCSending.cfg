SPECIFICATION MCSpec
CONSTANTS
    Limits = {0, 1, 2}
    Delays = {0, 1000, 90000}
    MaxEvents = 3
    MaxBreaks = 4
    Kinds = {"websocket", "sse", "socketio"}
    MaxSessions = 1
    MaxTroubles = 2
    MaxCommands = 1
    MaxSamples = 2
    Schedules = {1, 2}
    MaxSends = 2
    RepeatLimit = 2
    MaxProjects = 2
    CliConfigs = {"c1"}
    ScriptNames = {"s"}
    CliDepth = 2
    CliIterations = 2
    CliRetries = 1
    CliTests = 1
INVARIANTS SampleCloses
PROPERTIES SseSound ConsoleSettles SendSound CliSound
CHECK_DEADLOCK FALSE
