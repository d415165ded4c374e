------------------------------ MODULE MCInbound ------------------------------
(***************************************************************************)
(* The instance of Inbound: a path with the prefix twice, one that is       *)
(* exempt behind it and one that is exempt as it is; clients with headers   *)
(* of their own and without; every chain of up to three different layers,   *)
(* and the order the documentation recommends.                              *)
(***************************************************************************)
EXTENDS Inbound

MCText == STRING

LayerNames == {"requestid", "tracing", "proxyheaders", "proxytrusting", "rewritehost",
               "stripprefix", "rewrite", "redirect", "auth", "maintenance", "allowlist",
               "screen", "health", "retry", "jwt", "ipfilter", "geoblock", "ratelimit", "size",
               "cors"}

LongChain == <<"requestid", "redirect", "retry", "tracing", "proxyheaders", "auth", "stripprefix">>

MCChains == {LongChain} \cup {c \in UNION {[1..n -> LayerNames] : n \in 1..3} : IsInjective(c)}

Bare == [scheme |-> "http", host |-> "public", path |-> <<"/api", "/api", "/x">>,
         xfh |-> "", xff |-> <<>>, id |-> None, parent |-> NoTrace, cred |-> TRUE, fit |-> TRUE,
         origin |-> "none", preflight |-> FALSE, body |-> FALSE]

Rich == [Bare EXCEPT !.xfh = "elsewhere", !.xff = <<"client">>, !.id = 1, !.scheme = "https",
                     !.parent = [trace |-> 1, span |-> 1]]

MCClients ==
  {Bare, Rich, [Bare EXCEPT !.body = TRUE],
   [Bare EXCEPT !.path = <<"/api", "/healthz">>, !.cred = FALSE],
   [Bare EXCEPT !.path = <<"/healthz">>, !.cred = FALSE, !.scheme = "https"],
   [Rich EXCEPT !.path = <<"/api">>, !.fit = FALSE, !.scheme = "http", !.origin = "other"],
   [Rich EXCEPT !.cred = FALSE, !.origin = "listed", !.preflight = TRUE, !.xff = <<"client", "proxy">>]}

MCStrips == <<<<"/api">>>>
MCRules == <<[strip |-> <<"/other">>, add |-> <<>>], [strip |-> <<"/api">>, add |-> <<"/api", "/v2">>]>>
MCHosts == [h \in {"public"} |-> "internal"]
MCHealth == <<"/healthz">>
MCExempt == {MCHealth}
MCAllowed == {<<"/api">>, MCHealth}
=============================================================================
