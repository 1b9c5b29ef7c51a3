-------------------------- MODULE McpAuthorization --------------------------
(***************************************************************************)
(* An MCP call over HTTP whose server answers 401 or 403: the discovery of *)
(* the authorization server, the dynamic registration of a client and the  *)
(* one retry (mcpOAuthDiscovery.ts, mcp.ts httpRequest).                   *)
(*                                                                         *)
(* An authority is whoever described an endpoint: the MCP server's own     *)
(* origin, or an authorization server it names.  Servers answer as they    *)
(* like, redirect anywhere and change their answers between calls.         *)
(***************************************************************************)
EXTENDS Naturals, FiniteSets

CONSTANTS
    Authorities,   \* authorization servers that protected resources name
    Locations,     \* addresses metadata requests are redirected to
    MaxRedirects,  \* maxMetadataRedirects
    MaxMcpCalls    \* bound: calls the user makes

ASSUME McpAuthorizationAssumption ==
    MaxRedirects \in Nat /\ MaxMcpCalls \in Nat /\ "origin" \notin Authorities

VARIABLES
    step,      \* what the call is doing
    retried,   \* oauthRetry: the call in progress is the retry
    endpoints, \* authorization and token endpoint: whose, "" if blank
    client,    \* the registered client: with whom, and whether its secret expired
    manual,    \* the user entered a client id
    token,     \* an access token is held
    left,      \* metadata URLs of this stage still to be tried
    visited,   \* addresses of the metadata request in progress
    found,     \* the authority the protected resource names, "" if none
    blank,     \* the discovery in progress began without endpoints
    sent,      \* requests sent for this call
    calls

authVars == <<step, retried, endpoints, client, manual, token, left, visited,
              found, blank, sent, calls>>

NoClient == [with |-> "", expired |-> FALSE]

Blank == [authorize |-> "", token |-> ""]

\* mcpOAuthClientCredentials: an expired registration does not count.
HasClientId == manual \/ (client.with # "" /\ ~client.expired)

\* mcpOAuthConfigurationReady.
ConfigurationReady ==
    endpoints.authorize # "" /\ endpoints.token # "" /\ HasClientId

\* The most one call may send: itself, three addresses for each of the two
\* kinds of metadata with their redirects, the registration and the retry.
MostRequests == 6 * (1 + MaxRedirects) + 3

Sends == sent' = IF sent > MostRequests THEN sent ELSE sent + 1

-----------------------------------------------------------------------------
(* The call.                                                               *)

\* Nothing but the call's own fields; stage data is canonical outside a stage.
AtRest == left' = 0 /\ visited' = {} /\ found' = ""

StartMcpCall ==
    /\ step \in {"done", "failed"}
    /\ calls < MaxMcpCalls
    /\ calls' = calls + 1
    /\ step' = "call" /\ retried' = FALSE
    /\ sent' = 0
    /\ UNCHANGED <<endpoints, client, manual, token, left, visited, found, blank>>

CallEnds(outcome) ==
    /\ Sends
    /\ step' = outcome
    /\ retried' = FALSE
    /\ UNCHANGED <<endpoints, client, manual, left, visited, found, blank, calls>>

\* With a complete configuration and no token, one is obtained before the
\* request is sent; any other request is sent as it is.
CallAnswered ==
    /\ step = "call"
    /\ token' = (token \/ ConfigurationReady)
    /\ CallEnds("done")

CallFails ==
    /\ step = "call"
    /\ token' \in {token, token \/ ConfigurationReady}
    /\ CallEnds("failed")

\* Mutant: the retry does not know it is one.
RetryUnmarked == step' = "call" /\ retried' = FALSE /\ token' = FALSE

\* The retry drops the tokens the first request was refused with.
Retry == step' = "call" /\ retried' = TRUE /\ token' = FALSE

\* 401 with everything configured: discovery returns at once.
RefusedWhileReady ==
    /\ Sends
    /\ step = "call" /\ ~retried
    /\ ConfigurationReady
    /\ Retry
    /\ UNCHANGED <<endpoints, client, manual, left, visited, found, blank, calls>>

\* 401: protected-resource metadata is looked for, at the challenge's URL if
\* it names one, at the path's and at the root's.
RefusedStartsDiscovery ==
    /\ Sends
    /\ step = "call" /\ ~retried
    /\ ~ConfigurationReady
    /\ step' = "resource"
    /\ left' \in 1..3
    /\ visited' = {}
    /\ blank' = (endpoints = Blank)
    /\ UNCHANGED <<retried, endpoints, client, manual, token, found, calls>>

\* 403 insufficient_scope: retried with the scope the challenge asks for.
InsufficientScope ==
    /\ Sends
    /\ step = "call" /\ ~retried
    /\ Retry
    /\ UNCHANGED <<endpoints, client, manual, left, visited, found, blank, calls>>

-----------------------------------------------------------------------------
(* Discovery.                                                              *)

MetadataStages == {"resource", "server"}

DiscoveryFails ==
    /\ Sends
    /\ step \in MetadataStages \cup {"register"}
    /\ step' = "failed" /\ retried' = FALSE
    /\ AtRest
    /\ UNCHANGED <<endpoints, client, manual, token, blank, calls>>

\* A metadata request follows redirects to addresses it has not visited, up
\* to the limit; a loop or one redirect too many is a failure.
Redirected(location) ==
    /\ Sends
    /\ step \in MetadataStages
    /\ location \notin visited
    /\ Cardinality(visited) < MaxRedirects
    /\ visited' = visited \cup {location}
    /\ UNCHANGED <<step, retried, endpoints, client, manual, token, left, found,
                   blank, calls>>

\* On to the authorization server's own metadata: one address without a named
\* server, otherwise the well-known addresses of its path or of its root.
AskServer(authority) ==
    /\ step' = "server"
    /\ found' = authority
    /\ left' \in IF authority = "" THEN {1} ELSE {2, 3}
    /\ visited' = {}

ResourceDescribed(authority) ==
    /\ Sends
    /\ step = "resource"
    /\ AskServer(authority)
    /\ UNCHANGED <<retried, endpoints, client, manual, token, blank, calls>>

\* An answer that is no metadata (a status, a body, another resource or issuer)
\* moves on to the next address.
MetadataUseless ==
    /\ Sends
    /\ step \in MetadataStages
    /\ left > 1
    /\ left' = left - 1 /\ visited' = {}
    /\ UNCHANGED <<step, retried, endpoints, client, manual, token, found, blank, calls>>

ResourceUnknown ==
    /\ Sends
    /\ step = "resource" /\ left = 1
    /\ AskServer("")
    /\ UNCHANGED <<retried, endpoints, client, manual, token, blank, calls>>

\* Mutant: the fallback endpoints are the MCP server's.
FallbackAtOrigin == "origin"

\* fallbackBase: the named authorization server, or the MCP server itself.
Fallback == IF found = "" THEN "origin" ELSE found

\* Endpoints the user entered or an earlier discovery left are kept.
Configured(authority) ==
    [authorize |-> IF endpoints.authorize = "" THEN authority ELSE endpoints.authorize,
     token     |-> IF endpoints.token = "" THEN authority ELSE endpoints.token]

\* The endpoints come from the metadata or, when there is none, from the
\* fallback; a client is then registered unless there is one.
ServerSettled(authority) ==
    /\ Sends
    /\ step = "server"
    /\ endpoints' = Configured(authority)
    /\ IF HasClientId THEN Retry ELSE step' = "register" /\ UNCHANGED <<retried, token>>
    /\ left' = 0 /\ visited' = {}
    /\ found' = IF HasClientId THEN "" ELSE found
    /\ UNCHANGED <<client, manual, blank, calls>>

\* The issuer of the metadata is the server that was asked.
ServerDescribed == ServerSettled(IF found = "" THEN "origin" ELSE found)

ServerUnknown == left = 1 /\ ServerSettled(Fallback)

\* POSTs are not redirected; the response names the client and, for a
\* confidential one, its secret and when that expires.
ClientRegistered ==
    /\ Sends
    /\ step = "register"
    /\ client' = [with |-> Fallback, expired |-> FALSE]
    /\ Retry
    /\ AtRest
    /\ UNCHANGED <<endpoints, manual, blank, calls>>

-----------------------------------------------------------------------------
(* Between calls.                                                          *)

SecretExpires ==
    /\ step \in {"done", "failed"}
    /\ client.with # "" /\ ~client.expired
    /\ client' = [client EXCEPT !.expired = TRUE]
    /\ UNCHANGED <<step, retried, endpoints, manual, token, left, visited, found,
                   blank, sent, calls>>

\* updateOAuthConfiguration: any edit forgets the tokens and the registration.
EditConfiguration(new, id) ==
    /\ step \in {"done", "failed"}
    /\ endpoints' = new /\ manual' = id
    /\ client' = NoClient /\ token' = FALSE
    /\ blank' = FALSE
    /\ UNCHANGED <<step, retried, left, visited, found, sent, calls>>

-----------------------------------------------------------------------------

McpAuthInit ==
    /\ step = "done" /\ retried = FALSE
    /\ endpoints = Blank /\ client = NoClient
    /\ manual = FALSE /\ token = FALSE
    /\ left = 0 /\ visited = {} /\ found = "" /\ blank = FALSE
    /\ sent = 0 /\ calls = 0

McpAuthNext ==
    \/ CallAnswered \/ CallFails
    \/ RefusedWhileReady \/ RefusedStartsDiscovery \/ InsufficientScope
    \/ DiscoveryFails
    \/ \E l \in Locations : Redirected(l)
    \/ \E a \in Authorities : ResourceDescribed(a)
    \/ MetadataUseless \/ ResourceUnknown
    \/ ServerDescribed \/ ServerUnknown \/ ClientRegistered
    \/ StartMcpCall
    \/ SecretExpires
    \/ \E a, t \in {"", "user"}, id \in BOOLEAN :
          EditConfiguration([authorize |-> a, token |-> t], id)

McpAuthSpec == McpAuthInit /\ [][McpAuthNext]_authVars

-----------------------------------------------------------------------------
(* Properties.                                                             *)

\* However the servers answer, redirect and refuse, a call comes to an end:
\* addresses, redirects and the retry bound the requests it sends.
RequestsBounded == sent <= MostRequests

\* A discovery that began without endpoints ends with both endpoints and the
\* registered client of one authority, although each of the three may come
\* from metadata or from its own fallback.
OneAuthority ==
    step = "call" /\ retried /\ blank =>
        /\ endpoints.authorize = endpoints.token
        /\ client.with \in {"", endpoints.token}

\* The two together.
McpAuthorizationSound == OneAuthority /\ RequestsBounded
=============================================================================
