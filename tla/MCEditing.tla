----------------------------- MODULE MCEditing ------------------------------
(* The projects and what the user does in one, for TLC: the catalog and trash*)
(* commands, environments, tabs, scripts and the HTTP exchange.            *)
EXTENDS WorkspaceCatalog, EnvironmentTree, RequestTabs, HttpExchange, ScriptSandbox

VARIABLE part   \* the component this behaviour is about; the others are at rest

\* HttpExchange: a host and two below it; requests that differ in what they set
\* themselves; cookies for a host, for its parent and for a sibling.
MCParentHost == [h \in Hosts |-> IF h = "a.x" \/ h = "b.x" THEN "x" ELSE ""]
SendSetting(h, https, a, b, authored) ==
    [host |-> h, https |-> https, auth |-> a, body |-> b, authored |-> authored,
     sendCookies |-> TRUE, storeCookies |-> TRUE, certificate |-> "", port |-> 443]
MCSettings == {
    SendSetting("a.x", TRUE, "iam", "json", {"cookie", "accept"}),
    SendSetting("x", FALSE, "bearer", "multipart", {"content-type"}),
    [SendSetting("b.x", TRUE, "oauth2", "graphql", {"authorization"}) EXCEPT !.storeCookies = FALSE],
    SendSetting("a.x", FALSE, "none", "binary", {})}
MCOffers == {
    [domain |-> "", secure |-> TRUE, maxAge |-> "session"], [domain |-> "x", secure |-> FALSE, maxAge |-> "one"],
    [domain |-> "x", secure |-> FALSE, maxAge |-> "zero"], [domain |-> "b.x", secure |-> FALSE, maxAge |-> "session"]}
MCCertificates == <<
    [host |-> "x", port |-> 8443, enabled |-> TRUE], [host |-> "a.x", port |-> 443, enabled |-> FALSE],
    [host |-> "a.x", port |-> 8443, enabled |-> TRUE]>>
HttpRest ==
    /\ desktop = TRUE /\ jar = {} /\ clock = 0 /\ exchange = [x \in Sends |-> NoExchange]
    /\ liveSends = {} /\ earlyCancels = {} /\ signalled = {} /\ cancelling = {} /\ overflowed = FALSE
SandboxRest ==
    /\ body = "running" /\ verdict = [t \in ScriptTests |-> "none"] /\ nested = {}
    /\ awaited = {} /\ reported = [t \in ScriptTests |-> "none"]
    /\ calls = [c \in Subrequests |-> "none"] /\ attach = [c \in Subrequests |-> 0]
    /\ postedCount = 0 /\ spent = 0 /\ outcome = "open" /\ delivered = 0

MCInit ==
    /\ part \in {"commands", "environments", "tabs", "http", "sandbox"}
    /\ Init
    /\ EnvironmentInit
    /\ TabsInit
    /\ IF part = "http" THEN HttpInit ELSE HttpRest
    /\ IF part = "sandbox" THEN SandboxInit ELSE SandboxRest

CommandsPart == part = "commands" /\ Next /\ UNCHANGED <<part, envVars, tabVars, httpVars, sandboxVars>>
EnvironmentPart == part = "environments" /\ EnvironmentNext /\ UNCHANGED <<part, vars, tabVars, httpVars, sandboxVars>>
TabsPart == part = "tabs" /\ TabsNext /\ UNCHANGED <<part, vars, envVars, httpVars, sandboxVars>>
HttpPart == part = "http" /\ HttpNext /\ UNCHANGED <<part, vars, envVars, tabVars, sandboxVars>>
SandboxPart == part = "sandbox" /\ SandboxNext /\ UNCHANGED <<part, vars, envVars, tabVars, httpVars>>

MCNext == CommandsPart \/ EnvironmentPart \/ TabsPart \/ HttpPart \/ SandboxPart
MCVars == <<part, vars, envVars, tabVars, httpVars, sandboxVars>>
MCSpec == MCInit /\ [][MCNext]_MCVars
=============================================================================
