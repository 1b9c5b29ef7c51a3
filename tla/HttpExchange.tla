---------------------------- MODULE HttpExchange ----------------------------
(***************************************************************************)
(* One HTTP exchange, from sendRequest to the response it returns          *)
(* (http.ts, auth.ts, request.ts, cookies.ts, transport.ts,                *)
(* certificates.ts and http_client.rs): what is put on the wire, the       *)
(* cookies that are stored and sent, and the cancellation that races the   *)
(* registration of the request and its answer.  Hosts, headers and cookies *)
(* are names; a host's ParentHost is the domain above it.                  *)
(***************************************************************************)
EXTENDS Naturals, FiniteSets, Sequences, WellFoundedInduction, TLAPS

CONSTANTS
    Sends,
    Hosts, ParentHost,   \* ParentHost[h]: the domain h belongs to, or ""
    SendSettings,        \* the requests a user may send
    Offers,              \* the Set-Cookie headers a server may answer with
    Certificates,        \* the workspace's client certificates, in order
    PendingLimit,        \* cancellations remembered before a request (1,024 in the code)
    MaxClock             \* bound: the clock

\* A request's own certificate is none of a host's.
ASSUME HttpAssumptions ==
    /\ PendingLimit \in Nat \ {0} /\ MaxClock \in Nat /\ "" \notin Hosts
    /\ \A s \in SendSettings : s.host \in Hosts /\ s.https \in BOOLEAN /\ s.certificate \notin Hosts
    /\ Offers \subseteq [domain : Hosts \cup {""}, secure : BOOLEAN, maxAge : {"session", "one", "zero"}]
    /\ DOMAIN Certificates \subseteq Nat /\ \A i \in DOMAIN Certificates : Certificates[i].host \in Hosts

VARIABLES
    desktop,    \* the native transport is there; else the browser's fetch
    jar,        \* the cookies of the request's file
    clock,
    exchange,   \* per send: step, settings, cookies captured, abort, wire, outcome
    liveSends,       \* backend: cancellation ids registered
    earlyCancels,      \* backend: cancellations that came before their request
    signalled,  \* backend: requests whose cancellation was signalled
    cancelling, \* cancel commands on their way
    overflowed  \* earlyCancels was cleared at its limit

httpVars == <<desktop, jar, clock, exchange, liveSends, earlyCancels, signalled, cancelling, overflowed>>
backend == <<liveSends, earlyCancels, signalled, cancelling, overflowed>>

NoWire == [headers |-> {}, signed |-> {}, cookies |-> {}, certificate |-> "", host |-> "", https |-> FALSE, at |-> 0]
NoExchange == [step |-> "idle", set |-> <<>>, seen |-> {}, aborted |-> FALSE, planned |-> NoWire, wire |-> NoWire, outcome |-> ""]

-----------------------------------------------------------------------------
(* Cookies.  A Domain attribute must be the host or a domain above it;     *)
(* without one the cookie is for the host alone.                           *)
WithinDomain(host, domain) == host = domain \/ ParentHost[host] = domain
Accepted(host, offer) == offer.domain = "" \/ WithinDomain(host, offer.domain)
CookieOf(host, offer) ==
    [domain |-> IF offer.domain = "" THEN host ELSE offer.domain, hostOnly |-> offer.domain = "", secure |-> offer.secure,
     expires |-> IF offer.maxAge = "session" THEN MaxClock + 1 ELSE clock + (IF offer.maxAge = "zero" THEN 0 ELSE 1), setter |-> host]

(* storeResponseCookies: a cookie replaces the one of its name, domain and *)
(* path; one that has expired only removes it.                             *)
StoreCookie(cookies, host, offer) ==
    LET new == CookieOf(host, offer)
        others == {c \in cookies : c.domain # new.domain}
    IN  IF ~Accepted(host, offer) THEN cookies ELSE IF new.expires <= clock THEN others ELSE others \cup {new}

(* cookiesForUrl.                                                          *)
CookiesFor(cookies, host, https) ==
    {c \in cookies : /\ c.expires > clock /\ (c.secure => https)
                     /\ IF c.hostOnly THEN host = c.domain ELSE WithinDomain(host, c.domain)}

-----------------------------------------------------------------------------
(* What is sent.  A header is its name and where it comes from.            *)
Names(headers) == {h.name : h \in headers}
Header(name, from) == [name |-> name, from |-> from]
Without(headers, name) == {h \in headers : h.name # name}
IfAbsent(headers, name, from) == IF name \in Names(headers) THEN headers ELSE headers \cup {Header(name, from)}

(* buildHeaders: the authored headers, and those of the simple schemes.    *)
BuildHeaders(s) ==
    {Header(n, "authored") : n \in s.authored}
      \cup (IF s.auth \in {"basic", "bearer", "api-key"} THEN {Header("authorization", "auth")} ELSE {})

ContentHeaders(s, headers) ==
    IF s.body = "graphql" THEN IfAbsent(headers, "content-type", "json")
    ELSE IF s.body \in {"form-urlencoded", "multipart"} THEN Without(headers, "content-type")
    ELSE IF s.body = "binary" THEN IfAbsent(headers, "content-type", "file") ELSE headers

CookieHeaders(headers, cookies) ==
    IF cookies = {} THEN headers
    ELSE Without(headers, "cookie") \cup {Header("cookie", IF "cookie" \in Names(headers) THEN "authored and jar" ELSE "jar")}

(* applyAdvancedAuth: a signature covers the headers it is given.          *)
Signing == {"iam", "oauth1", "hawk", "asap", "oauth2"}
SignedBy(s, headers) == IF s.auth = "iam" THEN Without(headers, "authorization") ELSE {}
AuthHeaders(s, headers) ==
    IF s.auth \notin Signing THEN headers
    ELSE Without(headers, "authorization") \cup {Header("authorization", "auth")} \cup (IF s.auth = "iam" THEN {Header("x-amz-date", "auth")} ELSE {})

(* The native transport's own headers.                                     *)
DefaultHeaders(headers) == IF desktop THEN IfAbsent(IfAbsent(IfAbsent(headers, "accept", "default"), "accept-encoding", "default"), "user-agent", "default") ELSE headers

(* applyWorkspaceCertificates: the request's own, else the first enabled   *)
(* one for host and port, else for the host.                               *)
Fitting(s, port) == {i \in DOMAIN Certificates : Certificates[i].enabled /\ Certificates[i].host = s.host /\ (port => Certificates[i].port = s.port)}
FirstIn(indices) == CHOOSE i \in indices : \A j \in indices : i <= j
CertificateFor(s) ==
    IF s.certificate # "" THEN s.certificate
    ELSE IF Fitting(s, TRUE) # {} THEN Certificates[FirstIn(Fitting(s, TRUE))].host
    ELSE IF Fitting(s, FALSE) # {} THEN Certificates[FirstIn(Fitting(s, FALSE))].host ELSE ""

Planned(s, cookies) ==
    LET sent == IF s.sendCookies THEN CookiesFor(cookies, s.host, s.https) ELSE {}
        given == CookieHeaders(ContentHeaders(s, BuildHeaders(s)), sent)
    IN  [headers |-> DefaultHeaders(AuthHeaders(s, given)), signed |-> SignedBy(s, given), cookies |-> sent, certificate |-> CertificateFor(s), host |-> s.host, https |-> s.https, at |-> clock]

-----------------------------------------------------------------------------
Ends(x, outcome) == exchange' = [exchange EXCEPT ![x] = [NoExchange EXCEPT !.step = "done", !.outcome = outcome, !.aborted = exchange[x].aborted, !.wire = exchange[x].wire]]
Goes(x, step) == exchange' = [exchange EXCEPT ![x].step = step]

(* A send captures the cookies of the file; a plugin's hook runs first,    *)
(* then a token is acquired, then the templates are rendered.              *)
StartSend(x, s) ==
    /\ exchange[x].step = "idle"
    /\ exchange' = [exchange EXCEPT ![x] = [NoExchange EXCEPT !.step = "preparing", !.set = s, !.seen = jar]]
    /\ UNCHANGED <<desktop, jar, clock, backend>>

PreparationFails(x) ==
    /\ exchange[x].step \in {"preparing", "signing"} /\ Ends(x, IF exchange[x].aborted THEN "canceled" ELSE "failed")
    /\ UNCHANGED <<desktop, jar, clock, backend>>

Rendered(x) ==
    LET e == exchange[x] IN
    /\ e.step = "preparing"
    /\ IF e.aborted THEN Ends(x, "canceled")
       ELSE exchange' = [exchange EXCEPT ![x].step = "signing", ![x].planned = Planned(e.set, e.seen)]
    /\ UNCHANGED <<desktop, jar, clock, backend>>

(* The signature is there: the request is handed to the native transport,  *)
(* with a listener for the abort, or to fetch.                             *)
Dispatched(x) ==
    LET e == exchange[x] IN
    /\ e.step = "signing"
    /\ IF e.aborted THEN Ends(x, "canceled")
       ELSE IF desktop THEN Goes(x, "calling")
       ELSE exchange' = [exchange EXCEPT ![x].step = "wire", ![x].wire = e.planned]
    /\ UNCHANGED <<desktop, jar, clock, backend>>

Abort(x) ==
    /\ exchange[x].step \notin {"idle", "done"} /\ ~exchange[x].aborted
    /\ exchange' = [exchange EXCEPT ![x].aborted = TRUE]
    /\ cancelling' = IF desktop /\ exchange[x].step \in {"calling", "wire", "replied"} THEN cancelling \cup {x} ELSE cancelling
    /\ UNCHANGED <<desktop, jar, clock, liveSends, earlyCancels, signalled, overflowed>>

-----------------------------------------------------------------------------
(* The backend: register, cancel and finish under one lock.                *)
RegisterForgetful(x) ==
    /\ exchange[x].step = "calling"
    /\ exchange' = [exchange EXCEPT ![x].step = "wire", ![x].wire = exchange[x].planned] /\ liveSends' = liveSends \cup {x} /\ UNCHANGED earlyCancels
    /\ UNCHANGED <<desktop, jar, clock, signalled, cancelling, overflowed>>
Register(x) ==
    /\ exchange[x].step = "calling"
    /\ IF x \in earlyCancels
       THEN /\ earlyCancels' = earlyCancels \ {x} /\ exchange' = [exchange EXCEPT ![x].step = "replied", ![x].outcome = "canceled"] /\ UNCHANGED liveSends
       ELSE /\ exchange' = [exchange EXCEPT ![x].step = "wire", ![x].wire = exchange[x].planned] /\ liveSends' = liveSends \cup {x} /\ UNCHANGED earlyCancels
    /\ UNCHANGED <<desktop, jar, clock, signalled, cancelling, overflowed>>

CancelHttp(x) ==
    /\ x \in cancelling /\ cancelling' = cancelling \ {x}
    /\ IF x \in liveSends
       THEN liveSends' = liveSends \ {x} /\ signalled' = signalled \cup {x} /\ UNCHANGED <<earlyCancels, overflowed>>
       ELSE /\ earlyCancels' = (IF Cardinality(earlyCancels) >= PendingLimit THEN {} ELSE earlyCancels) \cup {x}
            /\ overflowed' = (overflowed \/ Cardinality(earlyCancels) >= PendingLimit) /\ UNCHANGED <<liveSends, signalled>>
    /\ UNCHANGED <<desktop, jar, clock, exchange>>

FinishHttp(x) == liveSends' = liveSends \ {x} /\ earlyCancels' = earlyCancels \ {x} /\ signalled' = signalled \ {x} /\ UNCHANGED <<cancelling, overflowed>>

(* select!: the cancellation, or the answer, whichever is taken; asking    *)
(* again for a body that could not be decoded changes nothing here.        *)
Canceled(x) ==
    /\ desktop /\ exchange[x].step = "wire" /\ x \in signalled /\ FinishHttp(x)
    /\ exchange' = [exchange EXCEPT ![x].step = "replied", ![x].outcome = "canceled"] /\ UNCHANGED <<desktop, jar, clock>>

HttpAnswered(x, outcome) ==
    /\ desktop /\ exchange[x].step = "wire" /\ FinishHttp(x)
    /\ exchange' = [exchange EXCEPT ![x].step = "replied", ![x].outcome = outcome] /\ UNCHANGED <<desktop, jar, clock>>

(* fetch: the abort reaches it at once.                                    *)
HttpFetched(x, outcome) ==
    /\ ~desktop /\ exchange[x].step = "wire" /\ exchange[x].aborted = (outcome = "canceled")
    /\ exchange' = [exchange EXCEPT ![x].step = "replied", ![x].outcome = outcome] /\ UNCHANGED <<desktop, jar, clock, backend>>

(* sendRequest returns; the caller stores the cookies of the answer over   *)
(* the ones it captured.                                                   *)
Continue(x, offer) ==
    LET e == exchange[x] IN
    /\ e.step = "replied" /\ Ends(x, e.outcome)
    /\ jar' = IF e.outcome = "answered" THEN (IF e.set.storeCookies THEN StoreCookie(e.seen, e.wire.host, offer) ELSE e.seen) ELSE jar
    /\ UNCHANGED <<desktop, clock, backend>>

TimePasses == clock < MaxClock /\ clock' = clock + 1 /\ UNCHANGED <<desktop, jar, exchange, backend>>

-----------------------------------------------------------------------------
HttpInit ==
    /\ desktop \in BOOLEAN /\ jar = {} /\ clock = 0 /\ exchange = [x \in Sends |-> NoExchange]
    /\ liveSends = {} /\ earlyCancels = {} /\ signalled = {} /\ cancelling = {} /\ overflowed = FALSE

HttpNext ==
    \/ TimePasses
    \/ \E x \in Sends :
        \/ \E s \in SendSettings : StartSend(x, s)
        \/ PreparationFails(x) \/ Rendered(x) \/ Dispatched(x) \/ Abort(x) \/ Register(x) \/ CancelHttp(x) \/ Canceled(x)
        \/ \E outcome \in {"answered", "failed"} : HttpAnswered(x, outcome)
        \/ \E outcome \in {"answered", "failed", "canceled"} : HttpFetched(x, outcome)
        \/ \E offer \in Offers : Continue(x, offer)

HttpSpec == HttpInit /\ [][HttpNext]_httpVars

-----------------------------------------------------------------------------
(* A cookie goes only to the host that set it, or to hosts of a domain the *)
(* setter itself is in, over TLS if it asks for it, and not once expired.  *)
CookiesConfined ==
    \A x \in Sends : LET w == exchange[x].wire IN \A c \in w.cookies :
        /\ w.host = c.setter \/ (~c.hostOnly /\ WithinDomain(w.host, c.domain) /\ WithinDomain(c.setter, c.domain))
        /\ (c.secure => w.https) /\ w.at < c.expires

(* Every header a signature covers is sent as it was signed, and a client  *)
(* certificate of the workspace goes only to the host it is for.           *)
WireHonest ==
    \A x \in Sends : LET w == exchange[x].wire IN
        w.signed \subseteq w.headers /\ (w.certificate \in {Certificates[i].host : i \in DOMAIN Certificates} => w.certificate = w.host)

(* A send ends as cancelled only if it was aborted itself; a cancellation  *)
(* the backend holds keeps its request off the wire, and one it was told   *)
(* of before the answer is never lost while fewer than PendingLimit wait.  *)
CancelsExact ==
    \A x \in Sends :
        /\ exchange[x].outcome = "canceled" => exchange[x].aborted
        /\ exchange[x].step = "wire" => x \notin earlyCancels
        /\ exchange[x].step \in {"calling", "wire"} /\ exchange[x].aborted /\ desktop /\ ~overflowed => x \in cancelling \cup earlyCancels \cup signalled

(* What an exchange promises: cookies, signatures and certificates stay    *)
(* where they belong, whatever races the send.                             *)
HttpSound == CookiesConfined /\ WireHonest /\ CancelsExact
-----------------------------------------------------------------------------
(* Proof of HttpSound, for any sends, settings, offers and certificates.   *)
(* Cookies carry their domain and setter from the jar to the wire; what is *)
(* planned is honest, and so is what is sent; and a cancellation is always *)
(* somewhere: on its way, held for its request, or signalled.              *)

HeaderNames == (UNION {s.authored : s \in SendSettings}) \cup
    {"authorization", "content-type", "cookie", "x-amz-date", "accept", "accept-encoding", "user-agent"}
HeaderSources == {"authored", "auth", "json", "file", "jar", "authored and jar", "default"}
HeaderSet == [name : HeaderNames, from : HeaderSources]
CertificateNames == {s.certificate : s \in SendSettings} \cup {""} \cup Hosts
Cookies == [domain : Hosts \cup {""}, hostOnly : BOOLEAN, secure : BOOLEAN, expires : Nat, setter : Hosts \cup {""}]
OwnCookies == {c \in Cookies : IF c.hostOnly THEN c.setter = c.domain ELSE WithinDomain(c.setter, c.domain)}

Wires == [headers : SUBSET HeaderSet, signed : SUBSET HeaderSet, cookies : SUBSET OwnCookies,
          certificate : CertificateNames, host : Hosts \cup {""}, https : BOOLEAN, at : Nat]
Confined(w) == \A c \in w.cookies :
    /\ IF c.hostOnly THEN w.host = c.domain ELSE WithinDomain(w.host, c.domain)
    /\ (c.secure => w.https) /\ w.at < c.expires
HonestWires == {w \in Wires : Confined(w) /\ w.signed \subseteq w.headers /\ (w.certificate \in Hosts => w.certificate = w.host)}

Exchanges == [step : {"idle", "preparing", "signing", "calling", "wire", "replied", "done"},
              set : SendSettings \cup {<<>>}, seen : SUBSET OwnCookies, aborted : BOOLEAN,
              planned : HonestWires, wire : HonestWires, outcome : {"", "answered", "failed", "canceled"}]

HttpTypeOK ==
    /\ desktop \in BOOLEAN /\ jar \subseteq OwnCookies /\ clock \in Nat /\ exchange \in [Sends -> Exchanges]
    /\ \A x \in Sends : exchange[x].step = "preparing" => exchange[x].set \in SendSettings

CancelsTracked ==
    \A x \in Sends :
        /\ exchange[x].step = "idle" => ~exchange[x].aborted
        /\ x \in cancelling \cup earlyCancels \cup signalled => exchange[x].aborted
        /\ x \in cancelling => desktop /\ x \notin earlyCancels \cup signalled
        /\ exchange[x].step = "wire" /\ desktop => x \in liveSends \cup signalled

HttpInv == HttpTypeOK /\ CancelsTracked /\ CancelsExact

LEMMA HeaderKept ==
  ASSUME NEW headers \in SUBSET HeaderSet, NEW name \in HeaderNames, NEW from \in HeaderSources
  PROVE  /\ IfAbsent(headers, name, from) \in SUBSET HeaderSet /\ headers \subseteq IfAbsent(headers, name, from)
         /\ Without(headers, name) \in SUBSET HeaderSet /\ Header(name, from) \in HeaderSet
  BY DEF IfAbsent, Without, Header, HeaderSet

LEMMA HeadersGiven ==
  ASSUME NEW s \in SendSettings, NEW cookies
  PROVE  CookieHeaders(ContentHeaders(s, BuildHeaders(s)), cookies) \in SUBSET HeaderSet
  <1>1. BuildHeaders(s) \in SUBSET HeaderSet
    <2>1. \A n \in s.authored : n \in HeaderNames
      BY DEF HeaderNames
    <2>2. \A n \in HeaderNames, from \in HeaderSources : Header(n, from) \in HeaderSet
      BY HeaderKept
    <2>3. "authorization" \in HeaderNames /\ "auth" \in HeaderSources /\ "authored" \in HeaderSources
      BY DEF HeaderNames, HeaderSources
    <2>4. QED
      BY <2>1, <2>2, <2>3 DEF BuildHeaders
  <1> DEFINE given == ContentHeaders(s, BuildHeaders(s))
  <1>2. given \in SUBSET HeaderSet
    BY <1>1, HeaderKept DEF ContentHeaders, HeaderNames, HeaderSources
  <1> HIDE DEF given
  <1>3. Without(given, "cookie") \in SUBSET HeaderSet /\ \A from \in HeaderSources : Header("cookie", from) \in HeaderSet
    BY <1>2, HeaderKept DEF HeaderNames, HeaderSources
  <1>4. QED
    BY <1>2, <1>3 DEF CookieHeaders, given, HeaderSources

\* What a signature covers is sent, whatever the native transport adds.
LEMMA HeadersSent ==
  ASSUME NEW s, NEW given \in SUBSET HeaderSet
  PROVE  /\ DefaultHeaders(AuthHeaders(s, given)) \in SUBSET HeaderSet
         /\ SignedBy(s, given) \in SUBSET HeaderSet /\ SignedBy(s, given) \subseteq DefaultHeaders(AuthHeaders(s, given))
  <1> DEFINE auth == AuthHeaders(s, given)
  <1>1. auth \in SUBSET HeaderSet /\ SignedBy(s, given) \subseteq auth /\ SignedBy(s, given) \in SUBSET HeaderSet
    <2>1. Without(given, "authorization") \in SUBSET HeaderSet
          /\ Header("authorization", "auth") \in HeaderSet /\ Header("x-amz-date", "auth") \in HeaderSet
      BY HeaderKept DEF HeaderNames, HeaderSources
    <2>2. SignedBy(s, given) \in {{}, Without(given, "authorization")} /\ (s.auth # "iam" => SignedBy(s, given) = {})
      BY DEF SignedBy
    <2>3. QED
      BY <2>1, <2>2 DEF AuthHeaders, Signing
  <1> HIDE DEF auth
  <1> DEFINE one == IfAbsent(auth, "accept", "default")
             two == IfAbsent(one, "accept-encoding", "default")
             three == IfAbsent(two, "user-agent", "default")
  <1>2. one \in SUBSET HeaderSet /\ auth \subseteq one
    BY <1>1, HeaderKept DEF HeaderNames, HeaderSources
  <1> HIDE DEF one
  <1>3. two \in SUBSET HeaderSet /\ one \subseteq two
    BY <1>2, HeaderKept DEF HeaderNames, HeaderSources
  <1> HIDE DEF two
  <1>4. three \in SUBSET HeaderSet /\ two \subseteq three
    BY <1>3, HeaderKept DEF HeaderNames, HeaderSources
  <1>5. DefaultHeaders(auth) \in {auth, three}
    BY DEF DefaultHeaders, one, two
  <1> HIDE DEF three
  <1>6. QED
    BY <1>1, <1>2, <1>3, <1>4, <1>5 DEF auth

\* A list has a first index among any that fit.
LEMMA LeastIndex ==
  ASSUME NEW S \in SUBSET Nat, S # {}
  PROVE  \E i \in S : \A j \in S : i <= j
  <1>1. PICK i \in S : \A j \in S : ~ (<<j, i>> \in OpToRel(<, Nat))
    BY WFMin, NatLessThanWellFounded, Zenon
  <1>2. \A j \in S : ~ (j < i)
    BY <1>1, Zenon DEF OpToRel
  <1>3. QED
    BY <1>2

LEMMA CertificateFits ==
  ASSUME NEW s \in SendSettings
  PROVE  CertificateFor(s) \in CertificateNames /\ (CertificateFor(s) \in Hosts => CertificateFor(s) = s.host)
  <1>1. s.certificate \in CertificateNames \ Hosts /\ "" \in CertificateNames \ Hosts /\ s.host \in CertificateNames
    BY HttpAssumptions DEF CertificateNames
  <1>2. ASSUME NEW port \in BOOLEAN, Fitting(s, port) # {} PROVE Certificates[FirstIn(Fitting(s, port))].host = s.host
    <2>1. Fitting(s, port) \in SUBSET DOMAIN Certificates
      BY DEF Fitting
    <2>2. \E i \in Fitting(s, port) : \A j \in Fitting(s, port) : i <= j
      BY <1>2, <2>1, HttpAssumptions, LeastIndex
    <2>3. FirstIn(Fitting(s, port)) \in Fitting(s, port)
      BY <2>2 DEF FirstIn
    <2>4. QED
      BY <2>3 DEF Fitting
  <1>3. QED
    BY <1>1, <1>2 DEF CertificateFor

LEMMA PlanHonest ==
  ASSUME HttpTypeOK, NEW s \in SendSettings, NEW cookies \in SUBSET OwnCookies
  PROVE  Planned(s, cookies) \in HonestWires
  <1> DEFINE sent == IF s.sendCookies THEN CookiesFor(cookies, s.host, s.https) ELSE {}
             given == CookieHeaders(ContentHeaders(s, BuildHeaders(s)), sent)
             w == [headers |-> DefaultHeaders(AuthHeaders(s, given)), signed |-> SignedBy(s, given), cookies |-> sent,
                   certificate |-> CertificateFor(s), host |-> s.host, https |-> s.https, at |-> clock]
  <1>1. Planned(s, cookies) = w
    BY DEF Planned
  <1>2. sent \in SUBSET OwnCookies
        /\ \A c \in sent : /\ c.expires > clock /\ (c.secure => s.https)
                           /\ IF c.hostOnly THEN s.host = c.domain ELSE WithinDomain(s.host, c.domain)
    BY DEF CookiesFor
  <1>3. given \in SUBSET HeaderSet
    BY HeadersGiven
  <1> HIDE DEF given, sent
  <1>4. /\ w.headers \in SUBSET HeaderSet /\ w.signed \in SUBSET HeaderSet /\ w.signed \subseteq w.headers
    BY <1>3, HeadersSent
  <1>5. s.host \in Hosts /\ s.https \in BOOLEAN /\ clock \in Nat
    BY HttpAssumptions DEF HttpTypeOK
  <1>6. w.certificate \in CertificateNames /\ (w.certificate \in Hosts => w.certificate = w.host)
    BY CertificateFits
  <1>7. w \in Wires
    BY <1>2, <1>4, <1>5, <1>6 DEF Wires
  <1>8. Confined(w)
    BY <1>2, <1>5 DEF Confined, OwnCookies, Cookies
  <1>9. QED
    BY <1>1, <1>4, <1>6, <1>7, <1>8 DEF HonestWires

LEMMA ExpiryKnown ==
  ASSUME NEW now \in Nat, NEW latest \in Nat
  PROVE  latest + 1 \in Nat /\ now + 0 \in Nat /\ now + 1 \in Nat
  OBVIOUS

LEMMA CookiesStored ==
  ASSUME HttpTypeOK, NEW cookies \in SUBSET OwnCookies, NEW host \in Hosts \cup {""}, NEW offer \in Offers
  PROVE  StoreCookie(cookies, host, offer) \in SUBSET OwnCookies
  <1>1. offer.domain \in Hosts \cup {""} /\ offer.secure \in BOOLEAN /\ MaxClock \in Nat
    BY HttpAssumptions
  <1> DEFINE expires == IF offer.maxAge = "session" THEN MaxClock + 1 ELSE clock + (IF offer.maxAge = "zero" THEN 0 ELSE 1)
  <1>2. expires \in Nat
    BY <1>1, ExpiryKnown DEF HttpTypeOK
  <1> HIDE DEF expires
  <1> DEFINE c == [domain |-> IF offer.domain = "" THEN host ELSE offer.domain, hostOnly |-> offer.domain = "",
                   secure |-> offer.secure, expires |-> expires, setter |-> host]
  <1>3. CookieOf(host, offer) = c
    BY DEF CookieOf, expires
  <1>4. CASE offer.domain = ""
    <2>1. c = [domain |-> host, hostOnly |-> TRUE, secure |-> offer.secure, expires |-> expires, setter |-> host]
      BY <1>4
    <2>2. c \in OwnCookies
      BY <1>1, <1>2, <2>1 DEF OwnCookies, Cookies
    <2>3. QED
      BY <1>3, <2>2 DEF StoreCookie
  <1>5. CASE offer.domain # ""
    <2>1. c = [domain |-> offer.domain, hostOnly |-> FALSE, secure |-> offer.secure, expires |-> expires, setter |-> host]
      BY <1>5
    <2>2. Accepted(host, offer) => c \in OwnCookies
      BY <1>1, <1>2, <1>5, <2>1 DEF OwnCookies, Cookies, Accepted
    <2>3. QED
      BY <1>3, <2>2 DEF StoreCookie
  <1>6. QED
    BY <1>4, <1>5

LEMMA NothingSent == NoWire \in HonestWires /\ NoExchange \in Exchanges
  <1>1. "" \in CertificateNames /\ "" \notin Hosts
    BY HttpAssumptions DEF CertificateNames
  <1>2. NoWire \in Wires
    BY <1>1 DEF NoWire, Wires
  <1>3. NoWire \in HonestWires
    BY <1>1, <1>2 DEF NoWire, HonestWires, Confined
  <1>4. QED
    BY <1>3 DEF NoExchange, Exchanges

\* One exchange becomes another.
LEMMA ExchangeChanges ==
  ASSUME HttpTypeOK, NEW x \in Sends, NEW e \in Exchanges, exchange' = [exchange EXCEPT ![x] = e]
  PROVE  exchange' \in [Sends -> Exchanges] /\ exchange'[x] = e /\ \A y \in Sends \ {x} : exchange'[y] = exchange[y]
  BY DEF HttpTypeOK

LEMMA EndsChanges ==
  ASSUME HttpTypeOK, NEW x \in Sends, NEW result \in {"answered", "failed", "canceled", ""}, Ends(x, result)
  PROVE  /\ exchange' \in [Sends -> Exchanges] /\ \A y \in Sends \ {x} : exchange'[y] = exchange[y]
         /\ exchange'[x].step = "done" /\ exchange'[x].outcome = result /\ exchange'[x].aborted = exchange[x].aborted
  <1> DEFINE e == [NoExchange EXCEPT !.step = "done", !.outcome = result, !.aborted = exchange[x].aborted, !.wire = exchange[x].wire]
  <1>1. exchange[x].aborted \in BOOLEAN /\ exchange[x].wire \in HonestWires
    BY DEF HttpTypeOK, Exchanges
  <1>2. e \in Exchanges /\ e.step = "done" /\ e.outcome = result /\ e.aborted = exchange[x].aborted
    BY <1>1, NothingSent DEF Exchanges
  <1>3. exchange' = [exchange EXCEPT ![x] = e]
    BY DEF Ends
  <1> HIDE DEF e
  <1>4. QED
    BY <1>2, <1>3, ExchangeChanges

\* The cancellation of a request is untouched by what happens to its exchange
\* before and after the native transport has it.
LEMMA CancelsStay ==
  ASSUME HttpInv, NEW x \in Sends, exchange' \in [Sends -> Exchanges], \A y \in Sends \ {x} : exchange'[y] = exchange[y],
         UNCHANGED <<desktop, backend>>, exchange'[x].aborted = exchange[x].aborted, exchange'[x].step # "idle",
         exchange'[x].outcome = "canceled" => exchange[x].aborted,
         exchange'[x].step \in {"calling", "wire"} => ~exchange[x].aborted,
         exchange'[x].step = "wire" => ~desktop
  PROVE  CancelsTracked' /\ CancelsExact'
  BY DEF HttpInv, CancelsTracked, CancelsExact, backend

LEMMA RenderingKeeps ==
  ASSUME HttpInv, NEW x \in Sends,
         (\E s \in SendSettings : StartSend(x, s)) \/ PreparationFails(x) \/ Rendered(x) \/ Dispatched(x)
  PROVE  HttpInv'
  <1>1. exchange[x] \in Exchanges
    BY DEF HttpInv, HttpTypeOK
  <1>2. ASSUME NEW s \in SendSettings, StartSend(x, s) PROVE HttpInv'
    <2> DEFINE e == [NoExchange EXCEPT !.step = "preparing", !.set = s, !.seen = jar]
    <2>1. e \in Exchanges /\ e.step = "preparing" /\ e.set = s /\ e.aborted = FALSE /\ e.outcome = ""
      <3>1. jar \in SUBSET OwnCookies /\ s \in SendSettings \cup {<<>>}
        BY DEF HttpInv, HttpTypeOK
      <3>2. QED
        BY <3>1, NothingSent DEF Exchanges, NoExchange
    <2>2. /\ exchange' = [exchange EXCEPT ![x] = e] /\ exchange[x].step = "idle" /\ UNCHANGED <<desktop, jar, clock, backend>>
      BY <1>2 DEF StartSend
    <2> HIDE DEF e
    <2>3. exchange' \in [Sends -> Exchanges] /\ exchange'[x] = e /\ \A y \in Sends \ {x} : exchange'[y] = exchange[y]
      BY <2>1, <2>2, ExchangeChanges DEF HttpInv
    <2>4. ~exchange[x].aborted
      BY <2>2 DEF HttpInv, CancelsTracked
    <2>5. CancelsTracked' /\ CancelsExact'
      BY <2>1, <2>2, <2>3, <2>4, <1>1, CancelsStay DEF Exchanges
    <2>6. QED
      BY <2>1, <2>2, <2>3, <2>5 DEF HttpInv, HttpTypeOK
  <1>3. ASSUME NEW result \in {"canceled", "failed"}, Ends(x, result), result = "canceled" => exchange[x].aborted,
               UNCHANGED <<desktop, jar, clock, backend>>
        PROVE  HttpInv'
    <2>1. /\ exchange' \in [Sends -> Exchanges] /\ \A y \in Sends \ {x} : exchange'[y] = exchange[y]
          /\ exchange'[x].step = "done" /\ exchange'[x].outcome = result /\ exchange'[x].aborted = exchange[x].aborted
      BY <1>3, EndsChanges DEF HttpInv
    <2>2. CancelsTracked' /\ CancelsExact'
      BY <1>3, <2>1, CancelsStay
    <2>3. QED
      BY <1>3, <2>1, <2>2 DEF HttpInv, HttpTypeOK
  <1>4. CASE PreparationFails(x)
    BY <1>3, <1>4 DEF PreparationFails
  <1>5. CASE Rendered(x)
    <2>1. CASE exchange[x].aborted
      BY <1>3, <1>5, <2>1 DEF Rendered
    <2>2. CASE ~exchange[x].aborted
      <3> DEFINE w == Planned(exchange[x].set, exchange[x].seen)
                 e == [exchange[x] EXCEPT !.step = "signing", !.planned = w]
      <3>1. exchange[x].set \in SendSettings /\ exchange[x].seen \in SUBSET OwnCookies
        BY <1>1, <1>5 DEF Rendered, HttpInv, HttpTypeOK, Exchanges
      <3>2. w \in HonestWires
        BY <3>1, PlanHonest DEF HttpInv
      <3> HIDE DEF w
      <3>3. e \in Exchanges /\ e.step = "signing" /\ e.aborted = exchange[x].aborted /\ e.outcome = exchange[x].outcome
        BY <1>1, <3>2 DEF Exchanges
      <3>4. exchange' = [exchange EXCEPT ![x] = e] /\ UNCHANGED <<desktop, jar, clock, backend>>
        <4>1. exchange' = [exchange EXCEPT ![x].step = "signing", ![x].planned = w]
          BY <1>5, <2>2 DEF Rendered, w
        <4>2. QED
          BY <1>1, <1>5, <4>1 DEF Rendered, HttpInv, HttpTypeOK, Exchanges
      <3> HIDE DEF e
      <3>5. exchange' \in [Sends -> Exchanges] /\ exchange'[x] = e /\ \A y \in Sends \ {x} : exchange'[y] = exchange[y]
        BY <3>3, <3>4, ExchangeChanges DEF HttpInv
      <3>6. exchange[x].outcome = "canceled" => exchange[x].aborted
        BY DEF HttpInv, CancelsExact
      <3>7. CancelsTracked' /\ CancelsExact'
        BY <3>3, <3>4, <3>5, <3>6, CancelsStay
      <3>8. QED
        BY <3>3, <3>4, <3>5, <3>7 DEF HttpInv, HttpTypeOK
    <2>3. QED
      BY <2>1, <2>2
  <1>6. CASE Dispatched(x)
    <2>1. CASE exchange[x].aborted
      BY <1>3, <1>6, <2>1 DEF Dispatched
    <2>2. CASE ~exchange[x].aborted
      <3> DEFINE e == IF desktop THEN [exchange[x] EXCEPT !.step = "calling"]
                      ELSE [exchange[x] EXCEPT !.step = "wire", !.wire = exchange[x].planned]
      <3>1. e \in Exchanges /\ e.aborted = exchange[x].aborted /\ e.outcome = exchange[x].outcome
            /\ e.step = (IF desktop THEN "calling" ELSE "wire")
        BY <1>1 DEF Exchanges
      <3>2. exchange' = [exchange EXCEPT ![x] = e] /\ UNCHANGED <<desktop, jar, clock, backend>>
        BY <1>1, <1>6, <2>2 DEF Dispatched, Goes, HttpInv, HttpTypeOK, Exchanges
      <3> HIDE DEF e
      <3>3. exchange' \in [Sends -> Exchanges] /\ exchange'[x] = e /\ \A y \in Sends \ {x} : exchange'[y] = exchange[y]
        BY <3>1, <3>2, ExchangeChanges DEF HttpInv
      <3>4. exchange[x].outcome = "canceled" => exchange[x].aborted
        BY DEF HttpInv, CancelsExact
      <3>5. CancelsTracked' /\ CancelsExact'
        BY <2>2, <3>1, <3>2, <3>3, <3>4, CancelsStay
      <3>6. QED
        BY <3>1, <3>2, <3>3, <3>5 DEF HttpInv, HttpTypeOK
    <2>3. QED
      BY <2>1, <2>2
  <1>7. QED
    BY <1>2, <1>4, <1>5, <1>6

LEMMA AbortKeeps ==
  ASSUME HttpInv, NEW x \in Sends, Abort(x)
  PROVE  HttpInv'
  <1> DEFINE e == [exchange[x] EXCEPT !.aborted = TRUE]
  <1>1. e \in Exchanges /\ e.aborted /\ e.step = exchange[x].step /\ e.outcome = exchange[x].outcome /\ e.set = exchange[x].set
    BY DEF HttpInv, HttpTypeOK, Exchanges
  <1>2. /\ exchange' = [exchange EXCEPT ![x] = e] /\ exchange[x].step \notin {"idle", "done"} /\ ~exchange[x].aborted
        /\ cancelling' = IF desktop /\ exchange[x].step \in {"calling", "wire", "replied"} THEN cancelling \cup {x} ELSE cancelling
        /\ UNCHANGED <<desktop, jar, clock, liveSends, earlyCancels, signalled, overflowed>>
    BY DEF Abort, HttpInv, HttpTypeOK, Exchanges
  <1> HIDE DEF e
  <1>3. exchange' \in [Sends -> Exchanges] /\ exchange'[x] = e /\ \A y \in Sends \ {x} : exchange'[y] = exchange[y]
    BY <1>1, <1>2, ExchangeChanges DEF HttpInv
  <1>4. CancelsTracked'
    BY <1>1, <1>2, <1>3 DEF HttpInv, CancelsTracked
  <1>5. CancelsExact'
    BY <1>1, <1>2, <1>3 DEF HttpInv, CancelsExact
  <1>6. HttpTypeOK'
    BY <1>1, <1>2, <1>3 DEF HttpInv, HttpTypeOK
  <1>7. QED
    BY <1>4, <1>5, <1>6 DEF HttpInv

LEMMA RegisterKeeps ==
  ASSUME HttpInv, NEW x \in Sends, Register(x)
  PROVE  HttpInv'
  <1> DEFINE early == x \in earlyCancels
             e == IF early THEN [exchange[x] EXCEPT !.step = "replied", !.outcome = "canceled"]
                  ELSE [exchange[x] EXCEPT !.step = "wire", !.wire = exchange[x].planned]
  <1>1. /\ e \in Exchanges /\ e.aborted = exchange[x].aborted
        /\ early => e.step = "replied" /\ e.outcome = "canceled"
        /\ ~early => e.step = "wire" /\ e.outcome = exchange[x].outcome
    BY DEF HttpInv, HttpTypeOK, Exchanges
  <1>2. /\ exchange' = [exchange EXCEPT ![x] = e] /\ exchange[x].step = "calling"
        /\ earlyCancels' = earlyCancels \ {x} /\ liveSends' = (IF early THEN liveSends ELSE liveSends \cup {x})
        /\ UNCHANGED <<desktop, jar, clock, signalled, cancelling, overflowed>>
    BY DEF Register, HttpInv, HttpTypeOK, Exchanges
  <1> HIDE DEF e
  <1>3. exchange' \in [Sends -> Exchanges] /\ exchange'[x] = e /\ \A y \in Sends \ {x} : exchange'[y] = exchange[y]
    BY <1>1, <1>2, ExchangeChanges DEF HttpInv
  <1>4. CancelsTracked'
    BY <1>1, <1>2, <1>3 DEF HttpInv, CancelsTracked
  <1>5. CancelsExact'
    BY <1>1, <1>2, <1>3 DEF HttpInv, CancelsTracked, CancelsExact
  <1>6. HttpTypeOK'
    BY <1>1, <1>2, <1>3 DEF HttpInv, HttpTypeOK
  <1>7. QED
    BY <1>4, <1>5, <1>6 DEF HttpInv

LEMMA CancelHttpKeeps ==
  ASSUME HttpInv, NEW x \in Sends, CancelHttp(x)
  PROVE  HttpInv'
  <1>1. x \in cancelling /\ cancelling' = cancelling \ {x} /\ UNCHANGED <<desktop, jar, clock, exchange>>
    BY DEF CancelHttp
  <1>2. CASE x \in liveSends
    <2>1. liveSends' = liveSends \ {x} /\ signalled' = signalled \cup {x} /\ UNCHANGED <<earlyCancels, overflowed>>
      BY <1>2 DEF CancelHttp
    <2>2. QED
      BY <1>1, <2>1 DEF HttpInv, HttpTypeOK, CancelsTracked, CancelsExact
  <1>3. CASE x \notin liveSends
    <2>1. /\ x \in earlyCancels' /\ earlyCancels' \subseteq earlyCancels \cup {x} /\ (overflowed => overflowed')
          /\ \/ earlyCancels' = earlyCancels \cup {x}
             \/ overflowed' /\ UNCHANGED <<liveSends, signalled>>
      BY <1>3 DEF CancelHttp
    <2>2. UNCHANGED <<liveSends, signalled>>
      BY <1>3 DEF CancelHttp
    <2>3. CancelsTracked'
      BY <1>1, <2>1, <2>2 DEF HttpInv, CancelsTracked
    <2>4. exchange[x].step # "wire"
      BY <1>1, <1>3 DEF HttpInv, CancelsTracked
    <2>5. CancelsExact'
      BY <1>1, <2>1, <2>2, <2>4 DEF HttpInv, CancelsExact
    <2>6. QED
      BY <1>1, <2>3, <2>5 DEF HttpInv, HttpTypeOK
  <1>4. QED
    BY <1>2, <1>3

\* The answer comes back to the renderer, from the backend or from fetch.
LEMMA RepliesKeep ==
  ASSUME HttpInv, NEW x \in Sends, NEW result \in {"answered", "failed", "canceled"},
         \/ Canceled(x) /\ result = "canceled"
         \/ HttpAnswered(x, result) /\ result # "canceled"
         \/ HttpFetched(x, result)
  PROVE  HttpInv'
  <1> DEFINE e == [exchange[x] EXCEPT !.step = "replied", !.outcome = result]
  <1>1. e \in Exchanges /\ e.aborted = exchange[x].aborted /\ e.step = "replied" /\ e.outcome = result
    BY DEF HttpInv, HttpTypeOK, Exchanges
  <1>2. /\ exchange' = [exchange EXCEPT ![x] = e] /\ exchange[x].step = "wire" /\ UNCHANGED <<desktop, jar, clock>>
        /\ FinishHttp(x) \/ UNCHANGED backend
        /\ result = "canceled" => exchange[x].aborted
    BY DEF Canceled, HttpAnswered, HttpFetched, HttpInv, HttpTypeOK, CancelsTracked, Exchanges
  <1> HIDE DEF e
  <1>3. exchange' \in [Sends -> Exchanges] /\ exchange'[x] = e /\ \A y \in Sends \ {x} : exchange'[y] = exchange[y]
    BY <1>1, <1>2, ExchangeChanges DEF HttpInv
  <1>4. /\ liveSends' \subseteq liveSends /\ liveSends \ {x} \subseteq liveSends'
        /\ earlyCancels' \subseteq earlyCancels /\ earlyCancels \ {x} \subseteq earlyCancels'
        /\ signalled' \subseteq signalled /\ signalled \ {x} \subseteq signalled' /\ UNCHANGED <<cancelling, overflowed>>
    BY <1>2 DEF FinishHttp, backend
  <1>5. CancelsTracked'
    BY <1>1, <1>2, <1>3, <1>4 DEF HttpInv, CancelsTracked
  <1>6. CancelsExact'
    BY <1>1, <1>2, <1>3, <1>4 DEF HttpInv, CancelsExact
  <1>7. HttpTypeOK'
    BY <1>1, <1>2, <1>3 DEF HttpInv, HttpTypeOK
  <1>8. QED
    BY <1>5, <1>6, <1>7 DEF HttpInv

LEMMA ContinueKeeps ==
  ASSUME HttpInv, NEW x \in Sends, NEW offer \in Offers, Continue(x, offer)
  PROVE  HttpInv'
  <1> DEFINE e == exchange[x]
  <1>1. /\ e.seen \in SUBSET OwnCookies /\ e.wire.host \in Hosts \cup {""} /\ e.outcome \in {"answered", "failed", "canceled", ""}
    BY DEF HttpInv, HttpTypeOK, Exchanges, HonestWires, Wires
  <1>2. Ends(x, e.outcome) /\ UNCHANGED <<desktop, clock, backend>>
    BY DEF Continue
  <1>3. jar' \in {jar, e.seen, StoreCookie(e.seen, e.wire.host, offer)}
    BY DEF Continue
  <1>4. jar' \in SUBSET OwnCookies
    <2>1. HttpTypeOK /\ jar \in SUBSET OwnCookies
      BY DEF HttpInv, HttpTypeOK
    <2>2. StoreCookie(e.seen, e.wire.host, offer) \in SUBSET OwnCookies
      BY <1>1, <2>1, CookiesStored
    <2>3. QED
      BY <1>1, <1>3, <2>1, <2>2
  <1>5. /\ exchange' \in [Sends -> Exchanges] /\ \A y \in Sends \ {x} : exchange'[y] = exchange[y]
        /\ exchange'[x].step = "done" /\ exchange'[x].outcome = e.outcome /\ exchange'[x].aborted = e.aborted
    BY <1>1, <1>2, EndsChanges DEF HttpInv
  <1>6. e.outcome = "canceled" => e.aborted
    BY DEF HttpInv, CancelsExact
  <1>7. CancelsTracked' /\ CancelsExact'
    BY <1>2, <1>5, <1>6, CancelsStay
  <1>8. QED
    BY <1>2, <1>4, <1>5, <1>7 DEF HttpInv, HttpTypeOK

LEMMA HttpInvStep == HttpInv /\ [HttpNext]_httpVars => HttpInv'
  <1> SUFFICES ASSUME HttpInv, [HttpNext]_httpVars PROVE HttpInv'
    OBVIOUS
  <1>1. CASE UNCHANGED <<desktop, jar, exchange, backend>> /\ clock' \in Nat
    <2>1. CancelsTracked' /\ CancelsExact'
      BY <1>1 DEF HttpInv, CancelsTracked, CancelsExact, backend
    <2>2. QED
      BY <1>1, <2>1 DEF HttpInv, HttpTypeOK
  <1>2. CASE TimePasses
    <2>1. clock' \in Nat
      BY <1>2, ExpiryKnown DEF TimePasses, HttpInv, HttpTypeOK
    <2>2. QED
      BY <1>1, <1>2, <2>1 DEF TimePasses
  <1>3. CASE UNCHANGED httpVars
    BY <1>1, <1>3 DEF httpVars, backend, HttpInv, HttpTypeOK
  <1>4. ASSUME NEW x \in Sends, Canceled(x) PROVE HttpInv'
    BY <1>4, RepliesKeep
  <1>5. ASSUME NEW x \in Sends, NEW result \in {"answered", "failed"}, HttpAnswered(x, result) PROVE HttpInv'
    BY <1>5, RepliesKeep
  <1>6. ASSUME NEW x \in Sends, NEW result \in {"answered", "failed", "canceled"}, HttpFetched(x, result) PROVE HttpInv'
    BY <1>6, RepliesKeep
  <1>7. QED
    BY <1>2, <1>3, <1>4, <1>5, <1>6, RenderingKeeps, AbortKeeps, RegisterKeeps, CancelHttpKeeps, ContinueKeeps DEF HttpNext

LEMMA HttpInvInit == HttpInit => HttpInv
  <1> SUFFICES ASSUME HttpInit PROVE HttpInv
    OBVIOUS
  <1>1. HttpTypeOK
    BY NothingSent DEF HttpInit, HttpTypeOK, NoExchange
  <1>2. CancelsTracked /\ CancelsExact
    BY DEF HttpInit, CancelsTracked, CancelsExact, NoExchange
  <1>3. QED
    BY <1>1, <1>2 DEF HttpInv

\* An honest wire with own cookies is what CookiesConfined and WireHonest ask.
LEMMA HonestIsSound == HttpInv => HttpSound
  <1> SUFFICES ASSUME HttpInv PROVE CookiesConfined /\ WireHonest
    BY DEF HttpInv, HttpSound
  <1>1. \A x \in Sends : exchange[x].wire \in HonestWires
    BY DEF HttpInv, HttpTypeOK, Exchanges
  <1>2. CookiesConfined
    <2> SUFFICES ASSUME NEW x \in Sends, NEW c \in exchange[x].wire.cookies
                 PROVE  LET w == exchange[x].wire IN
                        /\ w.host = c.setter \/ (~c.hostOnly /\ WithinDomain(w.host, c.domain) /\ WithinDomain(c.setter, c.domain))
                        /\ (c.secure => w.https) /\ w.at < c.expires
      BY DEF CookiesConfined
    <2>1. exchange[x].wire \in Wires /\ Confined(exchange[x].wire)
      BY <1>1 DEF HonestWires
    <2>2. c \in OwnCookies
      BY <2>1 DEF Wires
    <2>3. QED
      BY <2>1, <2>2 DEF Confined, OwnCookies
  <1>3. WireHonest
    <2>1. ASSUME NEW x \in Sends, NEW i \in DOMAIN Certificates, exchange[x].wire.certificate = Certificates[i].host
          PROVE  exchange[x].wire.certificate = exchange[x].wire.host
      BY <1>1, <2>1, HttpAssumptions DEF HonestWires
    <2>2. \A x \in Sends : exchange[x].wire.signed \subseteq exchange[x].wire.headers
      BY <1>1 DEF HonestWires
    <2>3. QED
      BY <2>1, <2>2 DEF WireHonest
  <1>4. QED
    BY <1>2, <1>3

\* http.ts, cookies.ts, certificates.ts and http_client.rs, for any number of
\* sends, any requests, Set-Cookie headers and certificates and every race of
\* a cancellation with its request: cookies, signatures and certificates go
\* where they belong, and cancellations hit their own request.
THEOREM ExchangesStaySound == HttpSpec => []HttpSound
  BY HttpInvInit, HttpInvStep, HonestIsSound, PTL DEF HttpSpec
=============================================================================
