------------------------------- MODULE Inbound -------------------------------
(***************************************************************************)
(* One client's request on its way in, through a chain of middlewares that  *)
(* change it or refuse it, to the reverse proxy; tried again by Retry and   *)
(* sent again by the client when it is redirected.                          *)
(*                                                                          *)
(* What one middleware does to a request another one may see: r.Header.Set  *)
(* changes the header map of whoever holds the request, r.Clone makes a     *)
(* request of its own.  reqs holds the request objects of this visit, the   *)
(* clone last; Retry calls next with the object it was given, as it is then.*)
(*                                                                          *)
(* Layers:                                                                  *)
(*   "requestid", "tracing", "rewritehost", "stripprefix", "retry",         *)
(*   "maintenance", "allowlist"   the middlewares of these names            *)
(*   "proxyheaders"  ProxyHeaders      "proxytrusting"  with TrustIncoming  *)
(*   "rewrite"       PathRewrite       "redirect"       RedirectHTTPS       *)
(*   "health"        HealthCheck                                            *)
(*   "auth"     RequireAuth in mode saml or BasicAuth     "jwt"  JWT        *)
(*   "ipfilter" IPFilter with TrustProxy      "geoblock"  GeoBlock          *)
(*   "ratelimit", "size", "cors"      RateLimit, RequestSize, CORS          *)
(*   "screen"   UserAgent or LimitBody: the verdict is about parts of the   *)
(*              request that nothing in a chain changes                     *)
(* A path is a sequence of segments, each with its slash; prefixes end      *)
(* where a segment does; the size of the headers is the number of those a   *)
(* layer can add, X-Forwarded-For counted by its addresses.  Of the answer  *)
(* only what fixes its header is here; the rest of its way is in Pipeline.  *)
(***************************************************************************)
EXTENDS Integers, SequencesExt, FiniteSets

CONSTANTS
  Text,         \* the strings that names, hosts and segments of paths are
  Chains,       \* the chains that are assembled
  Clients,      \* what clients ask for
  Strips,       \* StripPrefix's cfg.Prefixes
  Rules,        \* PathRewrite's cfg.Rules
  Hosts,        \* RewriteHost's rules: a function from hosts to hosts
  Exempt,       \* the ExemptPaths of every gate that has them
  HealthPath,   \* HealthCheck's cfg.Path
  Allowed,      \* AllowList's cfg.Paths
  PrefixMatch,  \* AllowList's cfg.PrefixMatch
  Denied,       \* the addresses that IPFilter and GeoBlock refuse
  RetryOn,      \* Retry's cfg.RetryOn, after its default
  MaxHeaders,   \* RequestSize's MaxHeaderBytes, in headers
  MaxAttempts,  \* Retry's cfg.MaxAttempts, after its default
  MaxVisits     \* how often the client asks, at most: a bound of the model

\* A header that is not there.  Every request names a host: HTTP/1.1 requires it.
Absent == ""
Host == Text \ {Absent}
Path == Seq(Text)
Trace == [trace : Nat, span : Nat]
Echo == [id : Nat, parent : Trace]

\* What a client sends, and the request as the proxy holds it.
Client == [scheme : {"http", "https"}, host : Host, path : Path, xfh : Text,
           xff : Seq(Text), id : Nat, parent : Trace, cred : BOOLEAN, fit : BOOLEAN,
           origin : Text, preflight : BOOLEAN, body : BOOLEAN]
Request == [path : Path, host : Host, xfh : Text, xff : Seq(Text), id : Nat,
            parent : Trace, cred : BOOLEAN, marked : BOOLEAN, proto : Text]

\* A middleware is in a chain once: there is one mark and one count of attempts.
ASSUME InboundAssumption ==
  /\ {Absent, "/", "http", "https", "remote", "nobody", "upstream", "transport"} \subseteq Text
  /\ \A c \in Chains : c \in Seq(Text) /\ IsInjective(c)
  /\ \A c \in Clients : c \in Client
  /\ Strips \in Seq(Path) /\ Rules \in Seq([strip : Path, add : Path])
  /\ \A h \in DOMAIN Hosts : Hosts[h] \in Host
  /\ MaxHeaders \in Nat /\ MaxAttempts \in Nat \ {0} /\ MaxVisits \in Nat \ {0}

VARIABLES
  chain,    \* the chain of this process
  fronted,  \* TLS ends at a load balancer that sets X-Forwarded-Proto
  client,   \* what the client sends, and where
  visits,   \* how often it has sent it
  reqs,     \* the request objects of this visit
  at,       \* the layer that has the request; Upstream the reverse proxy
  going,    \* "in", "out" or "over"
  by,       \* who has answered
  status,   \* the status of the answer
  mark,     \* the requests that existed when Retry was entered
  tries,    \* Retry's attempt
  enabled,  \* MaintenanceConfig.Enabled
  drawn,    \* the random identifiers drawn so far
  expired,  \* the client's token has expired since it came
  judged,   \* history: which layer has decided about which address
  echo,     \* the identifiers in the response's header map
  sent,     \* what the client has of the header: status and identifiers, as they
            \* were when it was fixed, and by the answer to which request of seen
  changed,  \* history: the gates whose own state has turned against this visit
  seen      \* history: the requests the upstream got during this visit

vars == <<chain, fronted, client, visits, reqs, at, going, by, status, mark, tries,
          enabled, expired, judged, drawn, echo, sent, changed, seen>>

None == 0
NoTrace == [trace |-> None, span |-> None]
NoEcho == [id |-> None, parent |-> NoTrace]
NotSent == [status |-> 0, echo |-> NoEcho, from |-> 0]
Upstream == Len(chain) + 1
Top == Last(reqs)

Layers == ToSet(chain)
Index(name) == CHOOSE i \in DOMAIN chain : chain[i] = name

\* Both are there, the first one outside the second.
Outside(a, b) == {a, b} \subseteq Layers /\ Index(a) < Index(b)

\* The request as the server gets it.
Incoming(c) ==
  [path |-> c.path, host |-> c.host, xfh |-> c.xfh, xff |-> c.xff, id |-> c.id,
   parent |-> c.parent, cred |-> c.cred, marked |-> FALSE,
   proto |-> IF fronted THEN c.scheme ELSE Absent]

\* r.TLS # nil
TLS == ~fronted /\ client.scheme = "https"

\* The client sends c.
Visit(c) ==
  /\ client' = c
  /\ reqs' = <<Incoming(c)>>
  /\ at' = 1 /\ going' = "in" /\ by' = "nobody" /\ status' = 0
  /\ mark' = 1 /\ tries' = 1
  /\ echo' = NoEcho /\ sent' = NotSent
  /\ judged' = {} /\ changed' = {} /\ seen' = <<>>

Init ==
  /\ chain \in Chains /\ fronted \in BOOLEAN
  /\ client \in Clients /\ visits = 1
  /\ reqs = <<Incoming(client)>>
  /\ at = 1 /\ going = "in" /\ by = "nobody" /\ status = 0
  /\ mark = 1 /\ tries = 1
  /\ enabled \in {"maintenance" \in ToSet(chain), FALSE}
  /\ drawn = 1
  /\ echo = NoEcho /\ sent = NotSent
  /\ expired = FALSE /\ judged = {} /\ changed = {} /\ seen = <<>>
-----------------------------------------------------------------------------
In(name) == going = "in" /\ at < Upstream /\ chain[at] = name

\* What a gate takes for the client's address: that of the connection, or what
\* X-Forwarded-For has.  clientIP returns the whole header, whoever calls it;
\* GeoBlock's own geoClientIP the first address there.
Address(name) ==
  IF Top.xff = <<>> THEN <<"remote">> ELSE IF name = "geoblock" THEN <<Head(Top.xff)>> ELSE Top.xff

\* What has been decided once this layer has.
Judged ==
  IF at < Upstream /\ chain[at] \in {"ipfilter", "geoblock", "ratelimit"}
  THEN judged \cup {[layer |-> chain[at], address |-> Address(chain[at])]}
  ELSE judged

\* next.ServeHTTP
Passes ==
  /\ at' = at + 1 /\ judged' = Judged
  /\ UNCHANGED <<chain, fronted, client, visits, going, by, status, tries, enabled, expired,
                 sent, changed, seen>>

\* The reverse proxy reads the body of the request, which its copies share, and
\* closes it: the next attempt finds none.
Spent == client.body /\ seen # <<>>

\* Retry lies around the layer that has the request.
Retried == "retry" \in Layers /\ Index("retry") < at

\* The header as it is when it is fixed, by the answer to this request of seen.
Header(code, from) == [status |-> code, echo |-> echo, from |-> from]

\* This layer or the upstream answers.  Retry's writer keeps the status, but lets
\* a body through, which fixes the header that there is then, and 200.
Answers(code, body) ==
  /\ going' = "out" /\ status' = code
  /\ by' = IF at < Upstream THEN chain[at] ELSE IF Spent THEN "transport" ELSE "upstream"
  /\ sent' = IF sent.status # 0 \/ (Retried /\ ~body) THEN sent
             ELSE Header(IF Retried THEN 200 ELSE code, IF by' = "upstream" THEN Len(seen) + 1 ELSE 0)
  /\ judged' = Judged
  /\ UNCHANGED <<chain, fronted, client, visits, at, mark, tries, enabled, expired, drawn, echo,
                 changed>>

\* http.Error and the like write a body.
RefusesWith(code, body) == Answers(code, body) /\ UNCHANGED <<reqs, seen>>
Refuses(code) == RefusesWith(code, TRUE)

Unchanged == UNCHANGED <<reqs, mark, drawn, echo>>

\* r.Header.Set: the object stays, its headers change.
InPlace(r) == reqs' = [reqs EXCEPT ![Len(reqs)] = r]

\* r.Clone: from here on there is another object.
OnClone(r) == reqs' = Append(reqs, r)

\* Fault: only an identifier of its own is echoed.
RequestIDEchoOwn ==
  /\ In("requestid")
  /\ LET id == IF Top.id = None THEN drawn + 1 ELSE Top.id
     IN  /\ InPlace([Top EXCEPT !.id = id])
         /\ drawn' = IF Top.id = None THEN id ELSE drawn
         /\ echo' = IF Top.id = None THEN [echo EXCEPT !.id = id] ELSE echo
  /\ Passes /\ UNCHANGED mark

RequestID ==
  /\ In("requestid")
  /\ LET id == IF Top.id = None THEN drawn + 1 ELSE Top.id
     IN  /\ InPlace([Top EXCEPT !.id = id])
         /\ drawn' = IF Top.id = None THEN id ELSE drawn
         /\ echo' = [echo EXCEPT !.id = id]
  /\ Passes /\ UNCHANGED mark

\* The trace of a Traceparent that can be parsed goes on, with a new span.
Tracing ==
  /\ In("tracing")
  /\ LET trace == IF Top.parent.trace = None THEN drawn + 2 ELSE Top.parent.trace
         parent == [trace |-> trace, span |-> drawn + 1]
     IN  /\ InPlace([Top EXCEPT !.parent = parent])
         /\ echo' = [echo EXCEPT !.parent = parent]
  /\ drawn' = drawn + 2
  /\ Passes /\ UNCHANGED mark

\* Fault: the address of the connection is put before those that are there.
ForwardingHeadersFirst(r, trust) ==
  [r EXCEPT !.xff   = IF trust THEN <<"remote">> \o @ ELSE <<"remote">>,
            !.proto = IF trust /\ @ # Absent THEN @ ELSE IF TLS THEN "https" ELSE "http",
            !.xfh   = IF trust /\ @ # Absent THEN @ ELSE r.host]

\* ProxyHeaders; what is trusted is kept, or added to.
ForwardingHeaders(r, trust) ==
  [r EXCEPT !.xff   = IF trust THEN Append(@, "remote") ELSE <<"remote">>,
            !.proto = IF trust /\ @ # Absent THEN @ ELSE IF TLS THEN "https" ELSE "http",
            !.xfh   = IF trust /\ @ # Absent THEN @ ELSE r.host]

ProxyHeaders ==
  /\ In("proxyheaders") \/ In("proxytrusting")
  /\ InPlace(ForwardingHeaders(Top, chain[at] = "proxytrusting"))
  /\ Passes /\ UNCHANGED <<mark, drawn, echo>>

\* resolve
NewHost(host) == IF host \in DOMAIN Hosts THEN Hosts[host] ELSE host

\* Fault: X-Forwarded-Host is set once the host has been replaced.
RewriteHostLate ==
  /\ In("rewritehost") /\ NewHost(Top.host) # Top.host
  /\ OnClone([Top EXCEPT !.host = NewHost(@), !.xfh = NewHost(Top.host)])
  /\ Passes /\ UNCHANGED <<mark, drawn, echo>>

\* X-Forwarded-Host is set before the request is cloned, so in both objects.
RewriteHost ==
  /\ In("rewritehost") /\ NewHost(Top.host) # Top.host
  /\ LET told == [Top EXCEPT !.xfh = Top.host]
     IN  reqs' = Append([reqs EXCEPT ![Len(reqs)] = told], [told EXCEPT !.host = NewHost(@)])
  /\ Passes /\ UNCHANGED <<mark, drawn, echo>>

KeepHost ==
  /\ In("rewritehost") /\ NewHost(Top.host) = Top.host
  /\ Passes /\ Unchanged

\* The first of these prefixes that the path has, or <<>>.
FirstPrefix(prefixes, path) ==
  LET matches == {i \in DOMAIN prefixes : prefixes[i] # <<>> /\ IsPrefix(prefixes[i], path)}
  IN  IF matches = {} THEN <<>> ELSE prefixes[CHOOSE i \in matches : \A j \in matches : i <= j]

\* The path without this prefix; "/" when nothing is left.
Trimmed(prefix, path) ==
  IF Len(path) = Len(prefix) THEN <<"/">> ELSE SubSeq(path, Len(prefix) + 1, Len(path))

\* Fault: StripPrefix does not clone the request.
StripPrefixInPlace ==
  /\ In("stripprefix")
  /\ LET prefix == FirstPrefix(Strips, Top.path)
     IN  InPlace(IF prefix = <<>> THEN Top ELSE [Top EXCEPT !.path = Trimmed(prefix, @)])
  /\ Passes /\ UNCHANGED <<mark, drawn, echo>>

StripPrefix ==
  /\ In("stripprefix")
  /\ LET prefix == FirstPrefix(Strips, Top.path)
     IN  IF prefix = <<>> THEN UNCHANGED reqs ELSE OnClone([Top EXCEPT !.path = Trimmed(prefix, @)])
  /\ Passes /\ UNCHANGED <<mark, drawn, echo>>

\* applyRule with the first rule that matches; rule.strip is cut off and
\* rule.add put before what remains.
PathRewrite ==
  /\ In("rewrite")
  /\ LET strip == FirstPrefix([i \in DOMAIN Rules |-> Rules[i].strip], Top.path)
         rule  == Rules[CHOOSE i \in DOMAIN Rules :
                          strip = Rules[i].strip /\ \A j \in 1..(i - 1) : strip # Rules[j].strip]
     IN  IF strip = <<>> THEN UNCHANGED reqs
         ELSE OnClone([Top EXCEPT !.path = rule.add \o Trimmed(strip, @)])
  /\ Passes /\ UNCHANGED <<mark, drawn, echo>>
-----------------------------------------------------------------------------
\* Fault: only a TLS connection of the proxy's own counts.
SecureByTLS == TLS

\* RedirectHTTPS: the client speaks https, to the proxy or to its front.
Secure == TLS \/ Top.proto = "https"

\* http.Redirect writes a body for a GET only.
Redirect ==
  /\ In("redirect")
  /\ IF Top.path \in Exempt \/ Secure THEN Passes /\ Unchanged
     ELSE \E body \in {FALSE, ~client.body} : RefusesWith(301, body)

\* Fault: the credential is taken off the request once it has been checked.
AuthConsumes ==
  /\ In("auth")
  /\ IF Top.path \in Exempt \/ Top.cred
     THEN InPlace([Top EXCEPT !.cred = FALSE]) /\ Passes /\ UNCHANGED <<mark, drawn, echo>>
     ELSE Refuses(401)

Auth ==
  /\ In("auth")
  /\ IF Top.path \in Exempt \/ Top.cred THEN Passes /\ Unchanged ELSE Refuses(401)

\* validateJWT looks at the clock on every attempt.
JWT ==
  /\ In("jwt")
  /\ IF Top.path \in Exempt \/ (Top.cred /\ ~expired) THEN Passes /\ Unchanged ELSE Refuses(401)

\* IPFilter refuses what net.ParseIP does not take for an address, as a header of
\* more than one is.
IPFilter ==
  /\ In("ipfilter")
  /\ LET address == Address("ipfilter")
     IN  IF Len(address) > 1 \/ Head(address) \in Denied THEN Refuses(403) ELSE Passes /\ Unchanged

\* GeoBlock lets everybody pass whose country it cannot look up.
GeoBlock ==
  /\ In("geoblock")
  /\ (Head(Address("geoblock")) \in Denied /\ Refuses(403)) \/ (Passes /\ Unchanged)

\* Whether the bucket of the address is full depends on what others ask for.
RateLimit ==
  /\ In("ratelimit")
  /\ Refuses(429) \/ (Passes /\ Unchanged)

\* The headers of a request that layers add.
HeaderSize(r) ==
  LET there == <<r.xfh # Absent, r.proto # Absent, r.id # None, r.parent.trace # None, r.marked>>
  IN  Len(r.xff) + Cardinality({i \in DOMAIN there : there[i]})

\* What does not fit is the URI, looked at before the headers, or the body.
RequestSize ==
  /\ In("size")
  /\ \/ ~client.fit /\ Refuses(414)
     \/ HeaderSize(Top) > MaxHeaders /\ Refuses(431)
     \/ HeaderSize(Top) <= MaxHeaders /\ ~client.fit /\ Refuses(413)
     \/ HeaderSize(Top) <= MaxHeaders /\ client.fit /\ Passes /\ Unchanged

\* CORS refuses an origin that is not listed and answers a preflight itself, both
\* without a body.
CORS ==
  /\ In("cors")
  /\ CASE client.origin = "other" -> RefusesWith(403, FALSE)
       [] client.origin = "listed" /\ client.preflight -> RefusesWith(204, FALSE)
       [] OTHER -> Passes /\ Unchanged

Maintenance ==
  /\ In("maintenance")
  /\ IF enabled /\ Top.path \notin Exempt THEN Refuses(503) ELSE Passes /\ Unchanged

\* isAllowed
IsAllowed(path) == \E p \in Allowed : p = path \/ (PrefixMatch /\ IsPrefix(p, path))

AllowList ==
  /\ In("allowlist")
  /\ IF Allowed = {} \/ IsAllowed(Top.path) THEN Passes /\ Unchanged ELSE Refuses(403)

Screen ==
  /\ In("screen")
  /\ IF client.fit THEN Passes /\ Unchanged ELSE Refuses(403)

\* HealthCheck answers for its path, depending on its probe of the upstream.
HealthCheck ==
  /\ In("health")
  /\ IF Top.path # HealthPath THEN Passes /\ Unchanged
     ELSE \E code \in {200, 503} : Refuses(code)

\* Retry's first attempt.
EnterRetry ==
  /\ In("retry")
  /\ mark' = Len(reqs)
  /\ Passes /\ UNCHANGED <<reqs, drawn, echo>>

\* The reverse proxy sets X-Forwarded-By, copies the request and forwards it.
Forward ==
  /\ going = "in" /\ at = Upstream /\ ~Spent
  /\ seen' = Append(seen, Top)
  /\ \E code \in {200, 503}, body \in BOOLEAN : Answers(code, body)
  /\ InPlace([Top EXCEPT !.marked = TRUE])

\* Without its body the request cannot be sent: defaultErrorHandler answers.
ForwardFails ==
  /\ going = "in" /\ at = Upstream /\ Spent
  /\ Answers(502, TRUE)
  /\ InPlace([Top EXCEPT !.marked = TRUE])
  /\ UNCHANGED seen
-----------------------------------------------------------------------------
\* An attempt that a layer inside Retry has ended with a status of RetryOn is
\* followed by another one.
Again == Retried /\ status \in RetryOn /\ tries < MaxAttempts

\* During Retry's delay, or before the client is back, a token may expire.
TimePasses == expired' \in {expired, "jwt" \in Layers}

RetryAgain ==
  /\ going = "out" /\ Again
  /\ tries' = tries + 1
  /\ reqs' = SubSeq(reqs, 1, mark)
  /\ at' = Index("retry") + 1 /\ going' = "in"
  /\ TimePasses
  /\ changed' = IF expired' # expired THEN changed \cup {"jwt"} ELSE changed
  /\ UNCHANGED <<chain, fronted, client, visits, by, status, mark, enabled, judged, drawn, echo,
                 sent, seen>>

\* The status that Retry has kept is written.
Answered ==
  /\ going = "out" /\ ~Again
  /\ going' = "over"
  /\ sent' = IF sent.status # 0 THEN sent
             ELSE Header(status, IF by = "upstream" THEN Len(seen) ELSE 0)
  /\ UNCHANGED <<chain, fronted, client, visits, reqs, at, by, status, mark, tries, enabled,
                 expired, judged, drawn, echo, changed, seen>>

\* The client follows a redirect to https:// r.Host r.URL.RequestURI().
Follow ==
  /\ going = "over" /\ sent.status = 301 /\ visits < MaxVisits
  /\ visits' = visits + 1
  /\ Visit([client EXCEPT !.scheme = "https", !.host = Top.host, !.path = Top.path])
  /\ TimePasses
  /\ UNCHANGED <<chain, fronted, enabled, drawn>>

\* SetEnabled, by whoever operates the proxy.
SetEnabled ==
  /\ "maintenance" \in Layers /\ going # "over"
  /\ enabled' = ~enabled
  /\ changed' = IF enabled' THEN changed \cup {"maintenance"} ELSE changed
  /\ UNCHANGED <<chain, fronted, client, visits, reqs, at, going, by, status, mark, tries,
                 expired, judged, drawn, echo, sent, seen>>

Next ==
  \/ RequestID \/ Tracing \/ ProxyHeaders \/ RewriteHost \/ KeepHost \/ StripPrefix \/ PathRewrite
  \/ Redirect \/ Auth \/ JWT \/ IPFilter \/ GeoBlock \/ RateLimit \/ RequestSize \/ CORS
  \/ Maintenance \/ AllowList \/ Screen \/ HealthCheck \/ EnterRetry
  \/ Forward \/ ForwardFails \/ RetryAgain \/ Answered \/ Follow \/ SetEnabled

Spec == Init /\ [][Next]_vars
-----------------------------------------------------------------------------
\* The types of the variables; Retry never makes more than MaxAttempts attempts
\* and starts each with a request that exists (retry.go:58-75).
TypeOK ==
  /\ chain \in Chains /\ client \in Client /\ visits \in 1..MaxVisits
  /\ fronted \in BOOLEAN /\ enabled \in BOOLEAN /\ expired \in BOOLEAN
  /\ reqs \in Seq(Request) /\ seen \in Seq(Request)
  /\ mark \in 1..Len(reqs) /\ tries \in 1..MaxAttempts
  /\ at \in 1..Upstream /\ going \in {"in", "out", "over"}
  /\ by \in Text /\ status \in Nat
  /\ drawn \in Nat \ {0} /\ echo \in Echo
  /\ sent \in [status : Nat, echo : Echo, from : 0..Len(seen)]
  /\ changed \subseteq {"jwt", "maintenance"}
  /\ judged \subseteq [layer : Text, address : Seq(Text)]

\* Between Retry and this layer lies one that clones the request, so that what
\* the layer does to it is forgotten after the attempt.
Shielded(name) ==
  \E c \in {"rewritehost", "stripprefix", "rewrite"} : Outside("retry", c) /\ Outside(c, name)

\* Every attempt brings the upstream the same request: a layer inside Retry
\* leaves nothing behind that makes the next attempt differ, but for the address
\* that a trusting ProxyHeaders adds each time, and draws the same identifier
\* again, but behind a clone; and no attempt brings it a request whose body an
\* earlier one has used up (reverseproxy.go:46-51, stripprefix.go:35-38, rewrite.go:46-47,
\* rewritehost.go:53-60, requestid.go:23-30, tracing.go:33-44,
\* proxyheaders.go:45-50).
AttemptsAlike ==
  /\ client.body => Len(seen) <= 1
  /\ \A r \in ToSet(seen) :
      /\ r.path = seen[1].path /\ r.host = seen[1].host /\ r.xfh = seen[1].xfh
      /\ r.proto = seen[1].proto /\ r.cred = seen[1].cred
      /\ r.xff = seen[1].xff \/ Outside("retry", "proxytrusting")
      /\ r.id = seen[1].id \/ Shielded("requestid")
      /\ r.parent.trace = seen[1].parent.trace \/ Shielded("tracing")

\* docs/middleware-rewritehost.md, "the original Host value is preserved in the
\* X-Forwarded-Host request header": whatever the client sent in that header,
\* and on every attempt.  ProxyHeaders inside RewriteHost, without
\* TrustIncoming, overwrites it (rewritehost.go:53-60, proxyheaders.go:72-75).
OriginalHostForwarded ==
  ~Outside("rewritehost", "proxyheaders") =>
    \A r \in ToSet(seen) : r.host = client.host \/ r.xfh = client.host

\* What RedirectHTTPS looks at is what the front has set: ProxyHeaders without
\* TrustIncoming neither replaces it before, nor after for the next attempt.
ProtoKept ==
  {"proxyheaders", "redirect"} \subseteq Layers =>
    Outside("redirect", "proxyheaders") /\ ~Outside("retry", "redirect")

\* A client that follows the redirect is not redirected again, with TLS ending
\* at the proxy or in front of it, and whatever else changes the request in
\* between (redirecthttps.go:46-58, docs/middleware-redirecthttps.md).
RedirectedOnce == (~fronted \/ ProtoKept) => visits <= 2

\* What a later attempt may find changed about the address: an untrusting
\* ProxyHeaders inside the gate has set X-Forwarded-For on the request that the
\* gate gets again; or a trusting one has made the header longer, which is all
\* one address for clientIP.
AddressMayChange(name) ==
  /\ Outside("retry", name)
  /\ \/ Outside(name, "proxyheaders")
     \/ name \in {"ipfilter", "ratelimit"} /\ Outside("retry", "proxytrusting")

\* Nobody is judged by two addresses for one request: every attempt shows a gate
\* the same one, unless the order of layers is as above (ipfilter.go:65,
\* geoblock.go:52, ratelimit.go:53-67, proxyheaders.go:41-50).
OneAddressJudged ==
  \A j, k \in judged : j.layer = k.layer => j.address = k.address \/ AddressMayChange(j.layer)

\* A request that the upstream has been asked to answer is not refused by any
\* gate on a later attempt, but for what has changed in between: maintenance has
\* begun or the token has expired, since the client sent the request; the bucket
\* is used up, the country is known now; layers inside Retry have given the
\* request another address, or more headers than are allowed (auth.go:29-49,
\* jwt.go:52-70, redirecthttps.go:46-55, allowlist.go:48-51, maintenance.go:50-57,
\* requestsize.go:45-61, ipfilter.go:60-81).
PassedForGood ==
  seen # <<>> /\ going \in {"out", "over"} /\ (~fronted \/ ProtoKept) =>
    \/ by \in {"upstream", "transport", "ratelimit", "geoblock"} \cup changed
    \/ by = "ipfilter" /\ AddressMayChange(by)
    \/ by = "size" /\ status = 431 /\ Outside("retry", by)

\* The identifiers that the client finds in the answer are those of the request
\* to which the upstream gave the answer that fixed the header; whoever fixed it,
\* they are those of every attempt if Retry is not around the layer, for inside
\* it each attempt may have its own while the client keeps the first ones; and an
\* identifier or a trace of the client's own reached the upstream on every
\* attempt (requestid.go:23-33, tracing.go:33-45, retry.go:30-33).
IdsCorrelate ==
  /\ \A i \in DOMAIN seen : going = "over" =>
       /\ "requestid" \in Layers /\ (i = sent.from \/ ~Outside("retry", "requestid")) =>
            sent.echo.id = seen[i].id /\ seen[i].id # None
       /\ "tracing" \in Layers /\ (i = sent.from \/ ~Outside("retry", "tracing")) =>
            sent.echo.parent = seen[i].parent /\ seen[i].parent # NoTrace
  /\ \A r \in ToSet(seen) :
       /\ client.id # None => r.id = client.id
       /\ client.parent.trace # None => r.parent.trace = client.parent.trace
=============================================================================
