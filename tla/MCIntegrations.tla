--------------------------- MODULE MCIntegrations ---------------------------
(* What works on a project from outside, for TLC: governance, plugins, MCP *)
(* clients and their authorization, template tags and OAuth.               *)
EXTENDS Governance, Plugins, McpClient, McpAuthorization, TemplateRender, OAuthFlow

VARIABLE part   \* the component this behaviour is about; the others are at rest

GovernanceRest ==
    /\ gov = [member  |-> [m \in Members |-> IF m = FirstOwner THEN Manual("owner") ELSE NoMember],
              actor   |-> FirstOwner, owner |-> FirstOwner, sso |-> FALSE, scim |-> FALSE,
              invited |-> [m \in Members |-> "none"], grants |-> [s \in Members \cup {"team"} |-> "none"]]
    /\ connector = FALSE /\ backend = gov /\ syncs = {} /\ updates = {} /\ syncsSent = 0 /\ syncedLast = 0 /\ draining = FALSE
    /\ holders = {"open"} /\ govEdits = 0 /\ scimCalls = 0
McpRest ==
    /\ mcpTransport = "http" /\ changes = 0 /\ settings = CHOOSE s \in Settings : TRUE
    /\ session = NoSession /\ operation = NoOperation /\ notice = NoNotice
    /\ remote = [s \in ConnectionIds |-> Unused]
    /\ process = 0 /\ processes = 0 /\ ending = {} /\ fault = "none" /\ channel = NoChannel
    /\ connections = [i \in ConnectionIds |-> Unsaved]
OAuthRest ==
    /\ grant = (CHOOSE g \in Grants : TRUE) /\ rotates = FALSE /\ auth = NoAuth
    /\ flow = [s \in Senders |-> [pc |-> "idle", copy |-> NoAuth]]
    /\ flowSlot = NoSender /\ dialog = NoSender /\ cancelling = {} /\ stopping = FALSE
    /\ honoured = {} /\ issuedTokens = 0 /\ overlapped = FALSE /\ missed = {} /\ unstored = FALSE
TemplateRest ==
    /\ promptTag = [r \in TagRequests |-> NoKey] /\ responseTag = [r \in TagRequests |-> NoTag]
    /\ job = [j \in Jobs |-> NoJob] /\ promptValues = {} /\ pendingPrompts = {} /\ activePrompt = NoKey
    /\ promptQueue = <<>> /\ saved = {}
\* The requests are alike: one of them has a prompt of its own; all of them or
\* none have been answered before.
MCTags == promptTag[CHOOSE r \in TagRequests : TRUE] = "own" /\ saved \in {{}, TagRequests}

\* Of a client's toggled subscription, notices of roots and changed settings,
\* each two meet: a behaviour leaves out one of the three.
McpParts == {"mcpUntoggled", "mcpUnnoticed", "mcpUnchanged"}
LeavesOut ==
    /\ part = "mcpUntoggled" => operation'.kind \notin Toggles
    /\ part = "mcpUnnoticed" => notice' = NoNotice
    /\ part = "mcpUnchanged" => changes' = 0

MCInit ==
    /\ part \in {"governance", "plugins", "mcpAuthorization", "template", "oauth"} \cup McpParts
    /\ IF part = "governance" THEN GovernanceInit /\ (gov.sso <=> holders = {"scoped"}) ELSE GovernanceRest
    /\ PluginsInit
    /\ IF part \in McpParts THEN McpInit ELSE McpRest
    /\ McpAuthInit
    /\ IF part = "template" THEN TemplateInit /\ MCTags ELSE TemplateRest
    /\ IF part = "oauth" THEN OAuthInit ELSE OAuthRest

GovernancePart == part = "governance" /\ GovernanceNext /\ UNCHANGED <<part, pluginVars, mcpVars, authVars, templateVars, oauthVars>>
PluginsPart == part = "plugins" /\ PluginsNext /\ UNCHANGED <<part, govVars, mcpVars, authVars, templateVars, oauthVars>>
McpPart == part \in McpParts /\ McpNext /\ LeavesOut /\ UNCHANGED <<part, govVars, pluginVars, authVars, templateVars, oauthVars>>
McpAuthPart == part = "mcpAuthorization" /\ McpAuthNext /\ UNCHANGED <<part, govVars, pluginVars, mcpVars, templateVars, oauthVars>>
TemplatePart == part = "template" /\ TemplateNext /\ UNCHANGED <<part, govVars, pluginVars, mcpVars, authVars, oauthVars>>
OAuthPart == part = "oauth" /\ OAuthNext /\ UNCHANGED <<part, govVars, pluginVars, mcpVars, authVars, templateVars>>

MCNext == GovernancePart \/ PluginsPart \/ McpPart \/ McpAuthPart \/ TemplatePart \/ OAuthPart
MCVars == <<part, govVars, pluginVars, mcpVars, authVars, templateVars, oauthVars>>
MCSpec == MCInit /\ [][MCNext]_MCVars
=============================================================================
