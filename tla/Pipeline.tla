------------------------------ MODULE Pipeline ------------------------------
(***************************************************************************)
(* One request on its way through a chain of middlewares to the handler,    *)
(* usually the reverse proxy, and back.  Each middleware may put a writer   *)
(* of its own around the ResponseWriter it was given, so what the handler   *)
(* writes passes the writers from the innermost to the outermost before it  *)
(* reaches net/http; a panic unwinds the same way.                          *)
(*                                                                          *)
(* chain[1] is the outermost middleware.  Layers:                           *)
(*   "record"    a ResponseRecorder that is read after next.ServeHTTP:      *)
(*               RequestLogger, AccessLog, RequestAuditLog, Metrics,        *)
(*               CircuitBreakerMiddleware                                   *)
(*   "recover"   Recover          "retry"     Retry                         *)
(*   "compress"  Compress, for a client that accepts gzip                   *)
(*   "security"  SecurityHeaders  "rewrite"   ResponseHeaders               *)
(*   "cache"     Cache; a MaxAge of zero is an empty Cacheable              *)
(*   "ratelimit" RateLimit        "auth"      RequireAuth in mode saml      *)
(***************************************************************************)
EXTENDS HTTPResponse, SequencesExt

CONSTANTS
  Chains,       \* the chains that are assembled: sequences of layers
  MaxAttempts,  \* Retry's cfg.MaxAttempts, after its default
  RetryOn,      \* Retry's cfg.RetryOn, after its default
  Answers,      \* the statuses the handler answers with
  Cacheable     \* Cache's cfg.CacheableStatuses

\* The kinds of layers; a chain has no more than one of each.
Kinds == {"record", "recover", "retry", "compress", "security", "rewrite",
          "cache", "ratelimit", "auth"}

ASSUME PipelineAssumption ==
  /\ \A c \in Chains : c \in Seq(Kinds) /\ c # <<>> /\ IsInjective(c)
  /\ MaxAttempts \in Nat \ {0}
  /\ Answers \subseteq Nat \ {0}

VARIABLES
  chain,      \* the chain of this process
  at,         \* the layer that has control: 0 is the server, Handler the handler
  going,      \* "in", "out" or "panic"; "answered" or "aborted" when over
  layer,      \* each layer's writer: the status it keeps, whether it was written
  resp,       \* the response of the server
  assertion,  \* the request carries X-Saml-Assertion
  did,        \* what the handler has done: "none", "header" or "body"
  left,       \* history: the layers next.ServeHTTP has returned to
  panicked,   \* history: "no", or whether it was "before" or "after" the status
  saml,       \* history: the client sent X-Saml-Assertion
  private     \* the request's path is one of Cache's cfg.PrivatePaths

vars == <<chain, at, going, layer, resp, assertion, did, left, panicked, saml, private>>

Handler == Len(chain) + 1

\* Fault: NewResponseRecorder does not start with 200.
FreshLayerZero == [code |-> 0, wrote |-> FALSE, tries |-> 1]

FreshLayer == [code |-> 200, wrote |-> FALSE, tries |-> 1]

Init ==
  /\ chain \in Chains
  /\ at = 1 /\ going = "in"
  /\ layer = [i \in 1..Len(chain) |-> FreshLayer]
  /\ resp = FreshResponse
  /\ assertion \in BOOLEAN /\ saml = assertion
  /\ private \in {"cache" \in ToSet(chain), FALSE}
  /\ did = "none"
  /\ left = {}
  /\ panicked = "no"
-----------------------------------------------------------------------------
\* Fault: ResponseHeaders adds and sets, but what is to be removed stays.
MutatedNoRemove(h) == h \cup {<<"Server", "fedproxy">>}

\* applyMutations, with a Server header to be removed and then set.
Mutated(h) == {f \in h : f[1] # "Server"} \cup {<<"Server", "fedproxy">>}

\* injectHeaders
Injected(h) == {f \in h : f[1] # "X-Frame-Options"} \cup {<<"X-Frame-Options", "DENY">>}

(***************************************************************************)
(* The writers.  A call is a WriteHeader, op = "header" with a status, or a *)
(* Write, op = "body" with a chunk, on the writer that layer d + 1 or the   *)
(* handler has been given.  It goes through the writers of the layers       *)
(* d, d - 1, ..., 1 to the server, unless one of them keeps it.             *)
(***************************************************************************)

\* Retry's writer keeps every status; the gzip writer lets its header through
\* with the first write and holds the rest back until it is closed.
Keeps(l, i, op) ==
  \/ op = "header" /\ chain[i] = "retry"
  \/ op = "body" /\ chain[i] = "compress" /\ l[i].wrote

\* The layers whose writers a call on layer d's gets to.
Reached(l, d, op) == {i \in 1..d : \A j \in i + 1..d : ~Keeps(l, j, op)}

\* The writers that remember the last status.
Remembers(i) == chain[i] \in {"record", "retry", "compress"} \/ (chain[i] = "cache" /\ ~private)

\* The writers that remember that there was such a call.
Marks(op) == IF op = "header" THEN {"retry", "security", "rewrite"}
                              ELSE {"compress", "security", "rewrite"}

\* What the writer of layer i has noted when the call has got to it.
Noted(l, i, op, arg) ==
  [l[i] EXCEPT !.code = IF op = "header" /\ Remembers(i) THEN arg ELSE @,
               !.wrote = @ \/ chain[i] \in Marks(op)]

\* The header map then: SecurityHeaders and ResponseHeaders change it the first
\* time anything passes them.
HeaderAfter(h, l, reached) ==
  LET first(name) == \E i \in reached : chain[i] = name /\ ~l[i].wrote
      injected == IF first("security") THEN Injected(h) ELSE h
  IN  IF first("rewrite") THEN Mutated(injected) ELSE injected

\* What the server has been told.
Told(w, l, d, op, arg) ==
  IF \E i \in 1..d : Keeps(l, i, op) THEN w
  ELSE IF op = "header" THEN WriteHeader(w, arg)
  ELSE Write(w, IF \E i \in 1..d : chain[i] = "compress" THEN "gzip head" ELSE arg)

Called(s, d, op, arg) ==
  LET reached == Reached(s.layer, d, op)
      header  == HeaderAfter(s.resp.header, s.layer, reached)
  IN  [layer |-> [i \in DOMAIN s.layer |->
                    IF i \in reached THEN Noted(s.layer, i, op, arg) ELSE s.layer[i]],
       resp |-> Told([s.resp EXCEPT !.header = header], s.layer, d, op, arg)]

\* http.Error with that writer.
Refused(s, d, code, text) ==
  Called(Called([s EXCEPT !.resp = SetHeader(@, "Content-Type", "text")], d, "header", code),
         d, "body", text)

Response == [resp |-> resp, layer |-> layer]
Becomes(s) == resp' = s.resp /\ layer' = s.layer
Moves(to, how) == at' = to /\ going' = how
-----------------------------------------------------------------------------
Inside == going = "in" /\ at < Handler

\* Cache for a private path: it sets its header first and keeps out of the way.
PrivateCache == chain[at] = "cache" /\ private

EnterPrivate ==
  /\ Inside /\ PrivateCache
  /\ Moves(at + 1, "in")
  /\ resp' = SetHeader(resp, "Cache-Control", "no-store")
  /\ UNCHANGED <<chain, layer, assertion, did, left, panicked, saml, private>>

\* A middleware that only calls next.ServeHTTP, with a writer of its own or not.
Enter ==
  /\ Inside /\ chain[at] \notin {"security", "compress", "ratelimit", "auth"} /\ ~PrivateCache
  /\ Moves(at + 1, "in")
  /\ layer' = [layer EXCEPT ![at] = FreshLayer]
  /\ UNCHANGED <<chain, resp, assertion, did, left, panicked, saml, private>>

\* SecurityHeaders strips the request headers it does not trust.
EnterSecurity ==
  /\ Inside /\ chain[at] = "security"
  /\ Moves(at + 1, "in")
  /\ layer' = [layer EXCEPT ![at] = FreshLayer]
  /\ assertion' = FALSE
  /\ UNCHANGED <<chain, resp, did, left, panicked, saml, private>>

EnterCompress ==
  /\ Inside /\ chain[at] = "compress"
  /\ Moves(at + 1, "in")
  /\ layer' = [layer EXCEPT ![at] = FreshLayer]
  /\ resp' = SetHeader(resp, "Content-Encoding", "gzip")
  /\ UNCHANGED <<chain, assertion, did, left, panicked, saml, private>>

\* A gate passes the request on ...
Pass ==
  /\ Inside
  /\ \/ chain[at] = "ratelimit"
     \/ chain[at] = "auth" /\ assertion
  /\ Moves(at + 1, "in")
  /\ UNCHANGED <<chain, layer, resp, assertion, did, left, panicked, saml, private>>

\* ... or answers itself.
Refuse ==
  /\ Inside
  /\ \/ chain[at] = "ratelimit" /\ Becomes(Refused(Response, at - 1, 429, "refusal"))
     \/ chain[at] = "auth" /\ ~assertion /\ Becomes(Refused(Response, at - 1, 401, "refusal"))
  /\ Moves(at - 1, "out")
  /\ UNCHANGED <<chain, assertion, did, left, panicked, saml, private>>

AtHandler == at = Handler /\ going = "in"

\* What the upstream's response may bring: a Server, and a Cache-Control of its
\* own, which says public.  The 502 of the proxy's error handler brings neither.
UpstreamFields == {<<"Server", "upstream">>, <<"Cache-Control", "upstream">>}

\* The reverse proxy adds the fields of the upstream's response to those that
\* are there, and then writes its status.
HandlerHeader ==
  /\ AtHandler /\ did = "none"
  /\ did' = "header"
  /\ \E code \in Answers, fields \in SUBSET UpstreamFields :
       LET received == [resp EXCEPT !.header = @ \cup fields]
       IN  Becomes(Called([Response EXCEPT !.resp = received], Handler - 1, "header", code))
  /\ UNCHANGED <<chain, at, going, assertion, left, panicked, saml, private>>

HandlerBody ==
  /\ AtHandler /\ did # "body"
  /\ did' = "body"
  /\ Becomes(Called(Response, Handler - 1, "body", "answer"))
  /\ UNCHANGED <<chain, at, going, assertion, left, panicked, saml, private>>

HandlerReturn ==
  /\ AtHandler
  /\ Moves(at - 1, "out")
  /\ UNCHANGED <<chain, layer, resp, assertion, did, left, panicked, saml, private>>

\* A bug in the handler, or the http.ErrAbortHandler with which the reverse
\* proxy gives up on a body it cannot copy.
HandlerPanic ==
  /\ AtHandler
  /\ panicked' = IF resp.status = 0 THEN "before" ELSE "after"
  /\ Moves(at - 1, "panic")
  /\ UNCHANGED <<chain, layer, resp, assertion, did, left, saml, private>>
-----------------------------------------------------------------------------
Outside == going = "out" /\ at > 0
Returned == left' = left \cup {at} /\ UNCHANGED <<chain, assertion, panicked, saml, private>>

\* next.ServeHTTP has returned to a middleware that does nothing more to the
\* response.
Leave ==
  /\ Outside
  /\ chain[at] \notin {"retry", "security", "cache", "compress"} \/ PrivateCache
  /\ Moves(at - 1, "out")
  /\ Returned /\ UNCHANGED <<layer, resp, did>>

\* Fault: hw.ensureHeaders is not called.
LeaveSecurityLazily ==
  /\ Outside /\ chain[at] = "security"
  /\ Moves(at - 1, "out")
  /\ Returned /\ UNCHANGED <<layer, resp, did>>

\* hw.ensureHeaders()
LeaveSecurity ==
  /\ Outside /\ chain[at] = "security"
  /\ Moves(at - 1, "out")
  /\ resp' = IF layer[at].wrote THEN resp ELSE [resp EXCEPT !.header = Injected(@)]
  /\ Returned /\ UNCHANGED <<layer, did>>

\* Fault: Cache takes every status for a cacheable one.
LeaveCacheAny ==
  /\ Outside /\ chain[at] = "cache" /\ ~private
  /\ Moves(at - 1, "out")
  /\ resp' = SetHeader(resp, "Cache-Control", "public")
  /\ Returned /\ UNCHANGED <<layer, did>>

\* Cache sets its header when next.ServeHTTP has returned, which reaches the
\* client only if no layer has fixed the header by then.
LeaveCache ==
  /\ Outside /\ chain[at] = "cache" /\ ~private
  /\ Moves(at - 1, "out")
  /\ resp' = SetHeader(resp, "Cache-Control",
                       IF layer[at].code \in Cacheable THEN "public" ELSE "no-store")
  /\ Returned /\ UNCHANGED <<layer, did>>

\* The deferred gw.Close writes what the gzip writer held back, and the gzip
\* header too when there was no write at all.
Closed == Called(Response, at - 1, "body", "gzip tail")

LeaveCompress ==
  /\ Outside /\ chain[at] = "compress"
  /\ Moves(at - 1, "out")
  /\ Becomes(Closed)
  /\ Returned /\ UNCHANGED did

\* Fault: one attempt more than MaxAttempts.
AgainOffByOne == layer[at].code \in RetryOn /\ layer[at].tries <= MaxAttempts

\* Retry: another attempt, or the status that was kept is written.
Again == layer[at].code \in RetryOn /\ layer[at].tries < MaxAttempts

\* Fault: the attempt is not counted.
RetryUncounted ==
  /\ Outside /\ chain[at] = "retry" /\ Again
  /\ Moves(at + 1, "in")
  /\ layer' = [layer EXCEPT ![at] = FreshLayer]
  /\ did' = "none"
  /\ left' = {i \in left : i < at}
  /\ UNCHANGED <<chain, resp, assertion, panicked, saml, private>>

RetryAgain ==
  /\ Outside /\ chain[at] = "retry" /\ Again
  /\ Moves(at + 1, "in")
  /\ layer' = [layer EXCEPT ![at] = [FreshLayer EXCEPT !.tries = layer[at].tries + 1]]
  /\ did' = "none"
  /\ left' = {i \in left : i < at}
  /\ UNCHANGED <<chain, resp, assertion, panicked, saml, private>>

RetryEnds ==
  /\ Outside /\ chain[at] = "retry" /\ ~Again
  /\ Moves(at - 1, "out")
  /\ IF layer[at].wrote THEN Becomes(Called(Response, at - 1, "header", layer[at].code))
                        ELSE UNCHANGED <<layer, resp>>
  /\ Returned /\ UNCHANGED did

\* The panic passes a layer: only Recover stops it, only gw.Close is deferred.
Unwind ==
  /\ going = "panic" /\ at > 0 /\ chain[at] # "recover"
  /\ Moves(at - 1, "panic")
  /\ IF chain[at] = "compress" THEN Becomes(Closed) ELSE UNCHANGED <<layer, resp>>
  /\ UNCHANGED <<chain, assertion, did, left, panicked, saml, private>>

\* Fault: Recover logs and says nothing to the client.
RecoverSilently ==
  /\ going = "panic" /\ at > 0 /\ chain[at] = "recover"
  /\ Moves(at - 1, "out")
  /\ UNCHANGED <<chain, layer, resp, assertion, did, left, panicked, saml, private>>

\* Both branches of Recover answer with http.Error.
Recover ==
  /\ going = "panic" /\ at > 0 /\ chain[at] = "recover"
  /\ Moves(at - 1, "out")
  /\ Becomes(Refused(Response, at - 1, 500, "error"))
  /\ UNCHANGED <<chain, assertion, did, left, panicked, saml, private>>

\* The server ends the response, or closes the connection after a panic.
ServerEnds ==
  /\ at = 0 /\ going = "out"
  /\ going' = "answered"
  /\ resp' = Finished(resp)
  /\ UNCHANGED <<chain, at, layer, assertion, did, left, panicked, saml, private>>

ServerAborts ==
  /\ at = 0 /\ going = "panic"
  /\ going' = "aborted"
  /\ UNCHANGED <<chain, at, layer, resp, assertion, did, left, panicked, saml, private>>

Next ==
  \/ Enter \/ EnterPrivate \/ EnterSecurity \/ EnterCompress \/ Pass \/ Refuse
  \/ HandlerHeader \/ HandlerBody \/ HandlerReturn \/ HandlerPanic
  \/ Leave \/ LeaveSecurity \/ LeaveCache \/ LeaveCompress \/ RetryAgain \/ RetryEnds
  \/ Unwind \/ Recover \/ ServerEnds \/ ServerAborts

Spec == Init /\ [][Next]_vars
-----------------------------------------------------------------------------
Layers == {chain[i] : i \in DOMAIN chain}
Answered == going = "answered"
Index(name) == CHOOSE i \in DOMAIN chain : chain[i] = name
Sent(name, value) == <<name, value>> \in resp.sent

\* The header fields and the chunks that are told apart.
Field == {"Server", "Content-Type", "Content-Encoding", "Cache-Control", "X-Frame-Options"}
           \X {"upstream", "fedproxy", "text", "gzip", "public", "no-store", "DENY"}
Chunk == {"answer", "refusal", "error", "gzip head", "gzip tail"}

\* The types of the variables; Retry never makes more than MaxAttempts attempts
\* (retry.go:58-75).
TypeOK ==
  /\ chain \in Chains /\ at \in 0..Handler
  /\ going \in {"in", "out", "panic", "answered", "aborted"}
  /\ layer \in [1..Len(chain) -> [code : Nat, wrote : BOOLEAN, tries : 1..MaxAttempts]]
  /\ resp \in [status : Nat, header : SUBSET Field, sent : SUBSET Field, body : Seq(Chunk)]
  /\ {assertion, saml, private} \subseteq BOOLEAN
  /\ did \in {"none", "header", "body"}
  /\ left \subseteq DOMAIN chain
  /\ panicked \in {"no", "before", "after"}

\* Both are there, the first one outside the second.
Around(a, b) == {a, b} \subseteq Layers /\ Index(a) < Index(b)

\* The statuses the layers answer with themselves.  Retry keeps such a status but
\* not the body, which fixes the header before the next attempt gets any further
\* (retry.go:24-33).
Refusals == {401, 429, 500}

\* Whatever lies inside and outside SecurityHeaders, an answer that comes back
\* through it carries its headers, also one that nobody wrote to, unless Retry
\* around it tries again after a refusal (headers.go:36-40, 79-93).
SecurityHeadersSent ==
  /\ Answered /\ "security" \in Layers /\ Index("security") \in left
  /\ Around("retry", "security") => RetryOn \cap Refusals = {}
  => Sent("X-Frame-Options", "DENY")

\* A header that ResponseHeaders is to remove does not reach the client in an
\* answer written through it, on whatever attempt and through whatever writers
\* (responseheaders.go:59-88).
UpstreamHeaderRemoved ==
  Answered /\ "rewrite" \in Layers /\ Index("rewrite") \in left /\ layer[Index("rewrite")].wrote =>
    ~Sent("Server", "upstream")

\* The public that Cache adds is sent with no error, even when a layer outside
\* holds the header back or tries again, if Retry around Cache does not try again
\* what is cacheable and a 200, which may take the place of the status it keeps,
\* is cacheable; and an answer that comes back from a private path says no-store,
\* whatever the upstream says, whoever has written it and on whatever attempt,
\* unless Retry tries again after a refusal (cache.go:42-58).
NoErrorMadePublic ==
  /\ /\ Answered /\ Sent("Cache-Control", "public")
     /\ Around("retry", "cache") => RetryOn \cap Cacheable = {} /\ 200 \in Cacheable
     => resp.status \in Cacheable /\ ~private
  /\ /\ Answered /\ private /\ Index("cache") \in left
     /\ Around("retry", "cache") => RetryOn \cap Refusals = {}
     => Sent("Cache-Control", "no-store")

\* What the outermost recorder reads once the handler has returned is what the
\* client got, so logs, counters and circuit breaker agree with it, without
\* Retry and panics in between (logger.go:17-30).
RecorderTruthful ==
  Answered /\ chain[1] = "record" /\ "retry" \notin Layers /\ panicked = "no" =>
    layer[1].code = resp.status

\* recover.go:25-26, "catches panics, logs them, and responds with 500 Internal
\* Server Error": when the client has been sent nothing, it gets a 500.
PanicGets500 ==
  Answered /\ "recover" \in Layers /\ panicked = "before" => resp.status = 500

\* It does when Compress is not inside Recover, nor Retry outside
\* (recover.go:33-52).
PanicGets500Alone ==
  LET apart == /\ "compress" \in Layers => Index("compress") < Index("recover")
               /\ "retry" \in Layers => Index("recover") < Index("retry")
  IN  "recover" \in Layers /\ apart => PanicGets500

\* How far the request is from its end: the steps of this attempt, and those of
\* the attempts that Retry has left.
HandlerRest == CASE did = "none" -> 2 [] did = "header" -> 1 [] did = "body" -> 0
ThisAttempt == CASE going = "in" -> 2 * Len(chain) + 4 - at + HandlerRest
                 [] going \in {"out", "panic"} -> at + 1
                 [] OTHER -> 0
AttemptsLeft == IF "retry" \in Layers THEN MaxAttempts - layer[Index("retry")].tries ELSE 0
Distance == AttemptsLeft * (2 * Len(chain) + 6) + ThisAttempt

\* Every step brings the request closer to its end, so it ends also when every
\* attempt gets a status to be retried, wherever Retry is (retry.go:58-75).
EverCloser == [][Distance' >= 0 /\ Distance' < Distance]_vars

\* docs/middleware-retry.md:38-41, "the actual status code is forwarded to the
\* client": of the last attempt, of a chain that is Retry alone.
RetryForwardsStatus ==
  Answered /\ chain = <<"retry">> /\ left = {1} => resp.status = layer[1].code

\* docs/middleware-auth.md:12 and 48: mode saml requires an X-Saml-Assertion
\* header to be present, and with it the answer is the upstream's.
SamlAssertionAccepted == Answered /\ saml => resp.status # 401
=============================================================================
