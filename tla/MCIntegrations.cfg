SPECIFICATION MCSpec
CONSTANTS
    Members = {"o", "m"}
    FirstOwner = "o"
    MaxEdits = 2
    MaxScimCalls = 1
    PluginIds = {"p"}
    Packages = {"v1", "v2"}
    Settings = {"A", "B"}
    MaxConnections = 2
    MaxListCalls = 1
    MaxChanges = 1
    KeptConnections = 2
    Authorities = {"s1", "s2"}
    Locations = {"u", "v", "w"}
    MaxRedirects = 2
    MaxMcpCalls = 3
    TagRequests = {"r1", "r2"}
    Jobs = {"j1", "j2"}
    SharedKey = "k"
    Senders = {"a", "b"}
    MaxTokens = 3
INVARIANTS McpClientSound McpAuthorizationSound TemplateSound OAuthSound
PROPERTIES GovernanceSound PluginsSound
CHECK_DEADLOCK FALSE
