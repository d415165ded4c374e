# fedproxy, formally

TLA+ models, TLC runs and TLAPS proofs for the Go reverse proxy `fedproxy`: a
set of `net/http` middlewares under `internal/middleware`, a thin wrapper of
`httputil.ReverseProxy` under `internal/proxy`, a YAML configuration, and a
`main` that assembles four of the middlewares.

Middleware files are named below without their directory: `throttle.go` is
`src/internal/middleware/throttle.go`.

## 1. The system

A middleware wraps an `http.Handler`. `net/http` serves every request on a
goroutine of its own, so everything that outlives a request is shared by all of
them. Within a request, middlewares interact in three ways: by calling
`next.ServeHTTP` or not, by wrapping the `ResponseWriter` that inner handlers
write to, and by changing the request they pass on. A panic unwinds through all
of them to `Recover` or, in its absence, to the server.

| component | state it keeps | operations | interacts through | what is hard |
|---|---|---|---|---|
| `throttle.go` | a buffered channel, shared | send or time out, deferred receive | parked goroutines | hand-over, timers, panics, cancelled requests |
| `circuitbreaker.go` | count, state, `openedAt` under a mutex | `Allow`, `RecordSuccess`, `RecordFailure` | recorder of the status | results that arrive in another state than the one that admitted the call |
| `ratelimit.go` | a map of buckets under a mutex | `Allow` | clock | window boundaries |
| `dedupe.go` | a map of responses under a mutex | look up, replay, store | recorder, clock | the lock is not held over the upstream call |
| `timeout.go` | per request: `done`, `pw.written` | two goroutines on one response | context | unsynchronised flag, late writes, panics off the serving goroutine |
| `metrics.go` | four global atomic counters | add, scrape | recorder | four operations that are not one |
| `retry.go` | per request: the kept status | attempts | its writer | attempts share one response, one request and its body |
| `recover.go` | none | deferred `http.Error` | everything inside it | what was already written |
| `compress.go` | a pooled gzip writer | writer, deferred `Close` | its writer | output after the handler has ended |
| `headers.go`, `responseheaders.go` | per request: headers done | lazy change of the header map | their writers, request headers | before or after the status is fixed |
| `cache.go` | none | a header after the handler | recorder | too late to be sent, or not |
| `logger.go`, `accesslog.go`, `reqlog.go` | recorder per request | read status afterwards | recorder | status recorded and status sent |
| `auth.go`, `basicauth.go`, `jwt.go`, `ipfilter.go`, `allowlist.go`, `geoblock.go`, `useragent.go`, `bodysize.go`, `requestsize.go`, `cors.go`, `maintenance.go` | none (one atomic flag in `maintenance.go`) | pass or refuse one request | request headers | order in the chain |
| `tracing.go`, `requestid.go`, `requesttag.go` | a random source | set ids | headers, context | the source is shared without a lock |
| `rewrite.go`, `rewritehost.go`, `stripprefix.go`, `proxyheaders.go`, `redirecthttps.go` | none | change the request, in place or in a clone | request objects others hold | who sees the change: inner layers, the next attempt, the client |
| `healthcheck.go` | none | probe the upstream | its own client, shared connections | an unclosed body, an upstream that hangs |
| `proxy/reverseproxy.go` | a `ReverseProxy` | forward | the library | `ErrAbortHandler` |
| `config/config.go`, `cmd/fedproxy/main.go` | configuration | load, assemble | order of the chain | what one middleware takes away from another |

For each, what makes it correct: a throttle never exceeds its capacity nor loses
slots, and whoever waits is answered; a breaker's state agrees with its count,
opens for at least `OpenDuration` and closes again; a limiter bounds bursts and
refuses nobody undeservedly; a replay is the live answer of the same key; a
timed-out request is answered and its answer is not a mixture; counters lose
nothing; headers, statuses and cache policy that one layer decides are what the
client gets whatever the other layers do; what a gate has once let pass it lets pass
again for the same request; a health check answers and gives its connection back; a
failing upstream is spared by the breaker however often clients retry.

### The tree as it stands

The repository does not compile as a whole. `itoa` is declared in `headers.go:97`
and twice in `maintenance.go`; `Status()`, `Body()`, `BytesWritten` and
`Written()` are used of a recorder that has the fields `StatusCode` and `Written`
only (`logger.go:10-14`); `clientIP` is called with two arguments in
`ipfilter.go`, where the second one can only choose whether `X-Forwarded-For` counts
(its one body, `ratelimit.go:64-75`, returns that header whole);
`main` passes a `*config.Config` where `RequireAuth` takes an
`AuthConfig`. The models take each use for what it can only mean: the recorder
keeps the last status and everything written, and `main` builds the chain its
lines 41-48 spell out. Each middleware's own logic is modelled as written.

## 2. Modules

| module | models | checked by | proofs |
|---|---|---|---|
| `Throttle` | `throttle.go` and the channel it relies on | `MCThrottle` | `ThrottleProofs` |
| `ConcurrencyLimit` | abstract: what a concurrency limiter promises | `Throttle!LimitSpec` | `ThrottleProofs` |
| `CircuitBreaker` | `circuitbreaker.go` | through `RetriedBreaker` | `BreakerProofs` |
| `RetriedBreaker` | `retry.go` around `circuitbreaker.go` | `MCRetriedBreaker` | `BreakerProofs` |
| `RateLimiter` | `ratelimit.go` | `MCRateLimiter` | `RateLimiterProofs` |
| `Dedupe` | `dedupe.go` | `MCDedupe` | `DedupeProofs` |
| `RequestTimeout` | `timeout.go` | through `ThrottledTimeout` | `TimeoutProofs` |
| `ThrottledTimeout` | `RequestTimeout` and `Throttle` around one handler | `MCThrottledTimeout` | `TimeoutProofs` |
| `Metrics` | `metrics.go` | `MCMetrics` | `MetricsProofs` |
| `HTTPResponse` | the `ResponseWriter` of `net/http` (external) | | |
| `Pipeline` | one request through a chain of nine kinds of layer: the response | `MCPipeline` | `PipelineProofs` |
| `HealthProbe` | the probe of `healthcheck.go` and its connections | `MCHealthProbe` | `TimeoutProofs` |
| `Inbound` | one request through a chain of twenty kinds of layer: the request | `MCInbound` | `InboundProofs` |
| `TraceIds` | the generator behind `newID` of `tracing.go` | `TraceIds.cfg` | |

Operators whose comment begins with "Fault:" are not part of the model. Each is
a plausible bug, written beside the operation it would replace; with it in place
the property it is paired with in `PROJECT.json` fails.

### Throttle

`pc[r]` is where request `r` is: `idle`, `waiting` (parked in the `select`),
`running` (in `next.ServeHTTP`), `returned` or `unwinding` (the deferred receive
is next), then `served`, `refused` or `panicked`. `sem` is `len(t.sem)`, `sendq`
the runtime's queue of parked senders. The runtime's rule that a receive from a
full channel completes the oldest parked send at once is what `Release` and
`ReleaseTo` say. A `select` with two ready cases picks at random: `QueueTimeout`
can win against nothing but time, `ExpireAtSelect` also against a free slot.
`Slots` is the default `MaxConcurrent <= 0` falls back to.

`ConcurrencyLimit` knows only who is inside, outside or refused; `Throttle`
implements it with every waiting request outside and every slot inside until its
deferred receive.

### CircuitBreaker

`state`, `failures` and the age of `openedAt` are the struct's fields; a call is
`idle`, `forwarding`, `succeeded` or `failed`, the last two between the upstream's
answer and `RecordSuccess` or `RecordFailure`. The three methods hold the mutex,
so each is one step. `MaxFailures` may be any integer. `failures` is capped at
`FailureCap >= Threshold`, since all the code asks is whether it has reached
`MaxFailures`. `healthy` stands for an upstream that has stopped failing.
`outlived` remembers the calls in flight when the circuit last opened.

### RetriedBreaker

`docs/middleware-retry.md` recommends Retry outside the breaker. Every call of
`CircuitBreaker` becomes a client with up to `MaxAttempts` attempts (`tries`). The actions are those of
`CircuitBreaker` with what Retry does next, so the composition implements it
(`ImplementsBreaker`), and the run checks the breaker's properties where they are
hardest. Whether an attempt is followed by another is left open for every status
(`AfterAttempt`), since `RetryOn` is configurable. `harm` counts the failed answers since
a probe or a success.

### RateLimiter

A bucket per client and a clock in ticks; `now.After` is strict, so a window is
closed at its end. `log` and `starts` are history: the times of the admissions
and which of them opened a bucket. `max` may be any integer.

### Dedupe

`cache` holds for each key the number of the upstream call whose response it has
and when that expires. Requests are `looking` (before the lock), `replaying`,
`forwarding` (in `next.ServeHTTP`, no lock), `storing` (before the second lock).
Without a key a request passes by the cache; a panic or the end of such a request
is `EndWithCall`. `stored` remembers every response that was put in.

### RequestTimeout and ThrottledTimeout

The serving goroutine is `main`, the one of the handler is `handler`; both write
to the response `resp`. Setting `pw.written` (`Announce`) and the write that
follows are two steps, and so are the two writes of the 504; the read of
`pw.written` falls anywhere between them, which is what an unsynchronised flag
allows. A handler that writes after `ServeHTTP` has returned is recorded in
`late`. A panic there has nobody to recover it: the deferred `close(done)` runs
and the process dies (`alive`).

`ThrottledTimeout` nests the two middlewares in either order, chosen initially.
With the timeout outside, the wait for a slot and the handler are both on the
handler's goroutine; with the throttle outside, the slot belongs to the serving
goroutine.

### Metrics

Each atomic operation is a step. `work` is the history of what returned requests
amount to, `before` the counters when a scrape began. Counters do not wrap: 2^64
is out of reach of a process's life.

### HTTPResponse and Pipeline

`HTTPResponse` is `net/http`'s contract: the first `WriteHeader` fixes the status
and snapshots the headers, a `Write` without one means 200, and so does a handler
that returns.

`Pipeline` sends one request down a chain of layers and back, `going` in, out or
in panic. A call on a writer passes the writers of the layers around it, innermost
first, up to one that keeps it (`Keeps`, `Reached`). Each one it gets to notes
what it notes (`Noted`); two of them change the header map the first time anything
passes (`HeaderAfter`), each a field of its own, so their order does not matter; and
what no layer keeps reaches the response (`Told`). Every middleware body is the steps before
`next.ServeHTTP` (`Enter`, ...), after it (`Leave`, ...) and on a panic (`Unwind`,
`Recover`). One name stands for all the headers of a middleware. The gzip
writer is modelled by what it does to the response: its header passes at the
first write, the rest at `Close`. `HandlerHeader` puts into the map what the reverse proxy
copies from the upstream: any of the `UpstreamFields`, a `Cache-Control` of its own among
them, beside whatever layers outside have put there.

### Inbound

`Pipeline` follows the response; `Inbound` follows the request. `reqs` holds the
request objects of a visit, since it matters who shares one: `r.Header.Set` changes
the headers of everybody who holds the object (`InPlace`), `r.Clone` makes another
(`OnClone`), and `RewriteHost` does the first and then the second. `Retry` keeps the
object it was given (`mark`) and calls `next` with it again (`RetryAgain`), as the
layers inside have left it. A layer passes the request on or answers it itself;
`by` says who did. `Forward` is the upstream, `seen` the requests it got. A client
that gets the redirect asks again with `https` (`Follow`); TLS ends at the proxy or
at a front that sets `X-Forwarded-Proto`. `SetEnabled` flips the maintenance flag at
any moment. A path is a sequence of segments, an identifier a number, and each one
drawn is new. RequireAuth and BasicAuth are one layer, `auth`: a set of exempt
paths and a verdict on what the client sent. UserAgent and LimitBody are one,
`screen`, for their verdict rests on what nothing in a chain changes. `jwt` looks at
the clock: a token may expire between attempts and visits (`TimePasses`); `changed`
remembers that it has, or that maintenance has begun, since the client sent the request.
`ipfilter`, `geoblock` and `ratelimit` decide about an `Address`: the connection's, or what
`X-Forwarded-For` has, which is its first address for `geoblock` and the whole header for
the other two, who share `clientIP`; a header of several is no address that `ipfilter` can
parse, and it refuses. `judged` remembers who has decided about which. Whether a bucket is
full is left open here, as is whether a country can be looked up. `size` measures
URI, headers and body, the headers in the number of those that layers add. The
upstream reads and closes the body, which copies of a request share: the next attempt
has none to send, and the proxy answers 502 (`Spent`, `ForwardFails`). The
redirect's `301` is followed if the client gets it: behind Retry it does when the
redirect has no body, as for `HEAD`.

Of the response `Inbound` has what decides about its header. `echo` is the header map's
identifiers, which every attempt may set anew; `sent` is what the client has: status and
identifiers as they were when the header was fixed, and to which request of `seen` the
upstream gave the answer that fixed it. `Answers` says when that is: at once without Retry
around the layer; inside Retry, whose writer keeps the status, with the first body that any
attempt writes, as 200; and otherwise when Retry ends (`Answered`). `RetryOn` is a constant.
`IPFilter`, `GeoBlock`, `Redirect`, ... say which of their answers have a body.

### HealthProbe

Every request for the health path makes an `http.Client`, whose timer starts with `Get`
and is stopped by the close of the body. `healthcheck.go:63-69` closes it below 500
only. `use[c]` is what a connection is: free, probed, or left with an `unread` body;
`timed[c]` whether its timer runs. The upstream answers, refuses or hangs; timers fire
before time goes on. Overlapping probes take different connections.

### TraceIds

`newID` reads one `rand.Rand` for the process without a lock. Its source is an additive
register: two places, `tap` and `feed`, which every draw moves on, and a vector `vec`, in
which it replaces the word at `feed` by the sum of those at both. A draw is two steps,
`Load` of the places and words and `Store` of the sum and places; `Rand.Read` takes bytes
from what is left of the last word and draws as many more as it wants. Since each draw
changes the vector in place, putting the places back would not bring the same words again:
in the run's trace both requests load the same state before either stores, word by word.
The register has seven words here instead of 607.

## 3. Runs

| run | instance | distinct states |
|---|---|---|
| `throttle` | 4 requests, 2 slots | 2 428 |
| `breaker` | 3 clients of 2 attempts, `MaxFailures` 2, `OpenDuration` 2 | 95 894 |
| `ratelimit` | 2 clients, max 2, window 2, 7 ticks | 168 581 |
| `dedupe` | 3 requests, 2 keys, TTL 2, 3 upstream calls, 4 ticks | 445 000 |
| `timeout` | 2 requests, 1 slot, both nestings | 124 043 |
| `metrics` | 2 workers, 1 scraper, 3 returned requests | 88 260 |
| `pipeline` | all chains of one to three different layers of nine, and `main`'s | 663 744 |
| `inbound` | all chains of one to three different layers of twenty, and a long one; seven clients | 1 401 073 |
| `health` | 2 requests, 3 connections, no `Timeout`, default 2 | 3 963 |

Why the bounds are enough to mean something:

* `throttle`: with two slots and four requests the queue reaches length two, so a
  timer fires at its head and behind it, and a hand-over meets a newcomer.
* `breaker`: an attempt of each client can follow one that failed, was refused or
  probed, while the others' are in flight; three calls can all be in flight when the second failure opens the
  circuit, so a success and a failure of before arrive after it; `FailureCap` is
  one above the threshold, so a failure beyond it is counted.
* `ratelimit`: a third bucket needs more than twice the window; seven ticks hold it.
* `dedupe`: two requests overlap with one key while a third uses the other one;
  four ticks let a TTL of two run out twice. Stored responses are replaced.
* `timeout`: one slot and two requests make the second one wait behind a handler
  whose own request has been answered. Each request passes once.
* `metrics`: costs differ in every counter, so a swap shows; one scraper, since
  scrapers only read.
* `pipeline`: the interactions are between two layers, or two and one between
  them: chains of three have them all, in every order. 200 and 404 end the
  attempts, 503 asks for another, `MaxAttempts` is 2.
* `inbound`: Retry and the two layers it makes interact; two attempts, since an attempt
  sees only what the ones before it left; three visits, one more than a client needs
  that is redirected once. One path has the prefix twice, so a second stripping
  shows; the clients are bare, with headers of their own, with a body, without a
  credential on exempt paths, unfit, with two forwarding addresses, and with origins of each
  kind. Four headers are
  exceeded only by what layers and a second attempt add.
* `health`: one connection more than requests, so that one is left unread while both
  are probing.

Symmetry is used for requests, keys and workers where the properties are
invariants or step properties, never for liveness. Deadlock is checked where the
system goes on for ever; `dedupe` ends with its clock, `timeout` with its
requests or its process, `pipeline` and `inbound` with their
request.

### What the runs show

`throttle`: the count of tokens is the count of holders through every panic,
timeout and hand-over; a waiter is in the queue once; no slot is idle while
someone waits; newcomers do not overtake; a waiter is answered even if no handler
returns; the abstract limiter is implemented.

`breaker`: state and count agree, whatever the overlap; half-open comes only after
`OpenDuration`, also when late failures renew `openedAt`; behind an open circuit
there are only calls it opened on; it is closed before `OpenDuration` only by the
success of one of those (the code does that: a result admitted before the circuit
opened is recorded like any other); with a healthy upstream it ends up closed for
good. Retry does not turn an outage into a storm: between two probes or successes the
upstream fails at most `Threshold - 1` calls and one per client, whatever
`MaxAttempts` is, and the bound is reached. Every client leaves Retry if the upstream
keeps no call for ever.

`ratelimit`: within one window's time at most `2 * max` requests of a client pass,
and a refused client has used up `max` within the last window.

`dedupe`: a replay is a stored response of the same key younger than TTL at look-up;
no request goes upstream while one is stored.

`timeout`: a response that is in time is untouched by the timeout and complete; with
the timeout outside, handlers in progress (answered or not) never exceed the
slots; every request is answered unless the process dies; and the goroutine of a
handler that honours its context ends and gives its slot back.

`metrics`: counters are the work of the returned requests less what is being added;
errors never exceed requests; each scraped value lies between the counter's value
when the scrape began and now.

`pipeline`: security headers reach the client in every answer that came back
through their layer; a removed header does not; the public that Cache adds is sent with
cacheable statuses only, and an answer from a private path says no-store (the first and the
last two of these under conditions on Retry, and the last two of what Cache itself does, see
section 4); the outermost recorder's status is the client's (without Retry and
panics); a panic before any output is answered 500 unless Compress is inside
Recover or Retry outside it; and every step brings the request closer to its end.

`inbound`: attempts bring the upstream the same path, host, scheme and credential,
and the same identifiers unless a clone lies between Retry and the layer that draws
them; the client finds the identifiers of the request whose answer fixed the header, and
of every attempt if the layer is not inside Retry; the original host arrives; no gate refuses what it has let pass on an earlier attempt,
but for the reasons `PassedForGood` lists (each of them is needed: without it TLC finds
a chain), and maintenance or expiry count only if they have come since the client sent the
request; every attempt shows a gate the same address; a body is sent once; and a
client is redirected once. Most of these need the order of layers their definitions
name: see section 4.

`health`: an error answer leaves its body open, and the timer alone gives the
connection back, at the timeout and no later; a health request is answered even if
the upstream hangs and no timeout was configured.

### Fairness

* `Throttle`: the timer of a parked request fires, a deferred receive runs (the
  goroutine is runnable). Handlers owe nothing.
* `RetriedBreaker`: the clock moves, clients keep coming and make their attempts, an
  answered call is recorded, a healthy upstream answers. Nothing makes an upstream
  healthy; `EveryCallEnds` assumes, inside the property, that it keeps no call for ever.
* `HealthProbe`: time passes, timers fire and answers are written. The upstream owes
  nothing.
* `ThrottledTimeout`: deadlines pass, the middlewares' own code runs, the
  throttle's timer fires. `NothingLeft` adds that a handler which looks at its
  context returns once it is done, as an assumption inside the property.

All of it is weak fairness of single operations: what the Go scheduler and its
timers give.

## 4. Where code and documentation disagree

Each of these has a run that must find its property violated.

* `RetryForwardsStatus` (`pipeline_retry`): `docs/middleware-retry.md:38-39` promises
  the final status; a body written before it has already made it 200.
* `SamlAssertionAccepted` (`pipeline_saml`): `docs/middleware-auth.md:12, 48` accept
  the header `X-Saml-Assertion`; in `main`'s chain `SecurityHeaders` has removed it.
* `TraceIDUnique` (`trace_ids`): `docs/middleware-tracing.md:44` and
  `tracing_integration_test.go:39` have every trace its own ID; two requests that read
  the unlocked generator at once, step by step, draw the same words.

Noticed, without a run of its own:

* `cache.go:31` has Cache set the header, and `cache_test.go:29, 62` look for it; outside
  private paths it does so after the handler, when `WriteHeader` has already fixed what is
  sent (`cache.go:50-58`); the tests read httptest's live map. It reaches the client only if
  nothing was written, or if Retry outside Cache has held the status back and no body came
  with it.
* `docs/middleware-ipfilter.md:44-45` has IPFilter take the first value of `X-Forwarded-For`;
  `clientIP` (`ratelimit.go:64-67`) returns the whole header, which does not parse if it has
  two, and the client is refused. `Address` and `IPFilter` in `Inbound` say what the code does.
* `docs/middleware-dedupe.md:4-6` promises no second upstream call for a key; overlapping
  requests make one, since the entry appears only when the first has been answered.
* `recover.go:25-26` promises a 500; with Compress inside, the gzip writer's deferred
  close has sent a 200 first. `PanicGets500Alone` says when the promise holds.
* Retry keeps the status of an answer and not its body, which fixes status and header.
  If it tries again after a 401, 429 or 500 with which a layer inside it has answered,
  the client has that answer's body and header map, 200, and then the next attempt's:
  a layer further inside has no more say about the header. Hence the conditions in
  `SecurityHeadersSent` and `NoErrorMadePublic`; the latter's other one is that Retry around
  Cache does not retry a cacheable status, whose public header would stay for the next
  attempt, and that 200, which takes the place of a kept status, is cacheable.
  The defaults (`retry.go` retries 502, 503 and 504, `cache.go:23` caches 200 and 304) meet
  all of these.
* For the same reason RequestID or Tracing inside Retry sets identifiers for each attempt that
  the client does not see once a body has fixed the header: it keeps the first attempt's,
  while a later one, behind a clone or with a new span, may be what the upstream knows.
* Cache does not look at the upstream's own `Cache-Control`, which the reverse proxy adds to
  the header map: an error with the upstream's `public` reaches the client as it is, and on a
  private path (`cache.go:29` says no-store regardless of other settings) beside the no-store.
  `NoErrorMadePublic` claims only what Cache itself adds.
* A body is sent with the first attempt only (`retry.go:61`, against
  `docs/middleware-retry.md:3-5`): the client gets 502.
* The 429 of a RateLimit inside the breaker is recorded as a success and closes a
  half-open circuit (`circuitbreaker.go:66` speaks of a successful response).
* Under Retry, a trusting ProxyHeaders changes the key of RateLimit with every attempt
  and lengthens `X-Forwarded-For`; an untrusting one inside an address gate changes the
  address that gate sees from the second attempt on, and a trusting one inside Retry what
  RateLimit and IPFilter see, who take the header whole: IPFilter refuses the second attempt of
  what it has let pass (`AddressMayChange`); and headers set inside can make RequestSize
  refuse with 431 what it has let pass.
* `requesttag.go:27-28` clears tags when `Allowed` is non-nil; an empty list accepts all.
* `docs/middleware-healthcheck.md` says the probe does not reuse the proxy's transport;
  its `http.Client` has none of its own and uses `http.DefaultTransport`.

`ProxyHeaders` without `TrustIncoming` overwrites
`X-Forwarded-Proto` and `X-Forwarded-Host` in place. Outside `RedirectHTTPS`, or inside
it when both are inside `Retry`, it makes a request that a TLS terminator has marked
`https` look plain, and it is redirected to where it already is
(`docs/middleware-redirecthttps.md:4-5` calls the layer safe behind one;
`ProtoKept` names the good orders). Inside `RewriteHost` it replaces the original host
by the rewritten one (`docs/middleware-rewritehost.md:8-9`). `timeout.go:26` promises a 504
to a handler that does not finish in time; one that has set `pw.written` gets none.
Also: `ratelimit.go:9` says sliding window, the windows are fixed
(`BurstBound` is the bound that does hold); `metrics.go:10` says point-in-time, a
scrape is four loads and can show more errors than requests; with Throttle outside
RequestTimeout, handlers that outlive their request are not counted
(`docs/middleware-throttle.md:3`), which is why `HandlersCapped` speaks of the
other nesting; `docs/middleware-dedupe.md:48-49` bounds the cache by the keys of one
TTL window, but nothing evicts; `docs/middleware-metrics.md:42` counts all proxied
requests, but one whose handler panics is not.

## 5. Proofs

`tlapm` checks eight modules. All theorems are of the form `Spec => ...`, for every
value of the constants that satisfies the named assumption of the module they are about: a finite set
of requests and a positive default for `Throttle`, integers of any sign for
`MaxFailures` and `max`, `FailureCap >= Threshold`, a positive TTL, finitely many
workers apart from the scrapers, finitely many clients of Retry with a positive
`MaxAttempts`, a probe timeout of zero or more with a positive default, chains that are not empty and
have no layer twice, statuses that are positive.

* `ThrottleProofs`. The inductive invariant is `TypeOK /\ SlotsAccounted /\
  QueueExact /\ FullWhileQueued`. None of the three is inductive alone: a hand-over
  keeps the count because the head of the queue is a waiting request, and not the
  one that releases; a timeout keeps the queue exact because it holds each waiter
  once; a release without a hand-over keeps the channel full for nobody because
  the queue is empty. `NoOvertakingHolds` follows step by step, and
  `ImplementsLimit` maps initial states and every step: a hand-over to a hand-over,
  parking to a stutter. The arithmetic about `Cardinality` and the facts about
  `RemoveAt` are lemmas.
* `BreakerProofs`, the breaker alone. The four invariants are inductive together;
  `OpenHolds` is a step property from the same invariant.
* `RateLimiterProofs`. `BurstBound` speaks of admissions `2 * Quota` apart and no step
  touches more than one, so the invariant says how buckets lie on the log: openings
  are more than a window apart, and every stretch of `Quota` admissions is followed
  within `Quota` by an opening. Two of those lie between admissions `2 * Quota`
  apart. It is stated of one client's log, so that the lemmas are about constants.
* `DedupeProofs`. What a key holds was stored for it, and outlives everything ever
  stored for it, since the clock does not run backwards and the last store wins.
* `MetricsProofs`. `ErrorsWithinRequests` holds since whoever is about to count an error
  has counted the request: the errors still owed fit too. Scraped values are
  bracketed since counters do not decrease. `NothingLost` is about the size of a set of
  units, one for each that a worker in the middle of its additions still owes a counter:
  a step changes one worker's units, which are disjoint from everybody else's.
* `BreakerProofs`, inside Retry. Every step of the composition is one of the breaker's or leaves
  it alone, so what holds of the breaker carries over. For `StormIsBounded` the
  invariant counts: the failures of the current outage are those recorded in this
  period plus those answered and not yet recorded, and while the circuit is open only
  calls that were in flight can add to them, so `harm` plus the calls still out is
  bounded; at the bound the proof is arithmetic on the sizes of these sets.
* `TimeoutProofs`, the probe. A connection in use has a running timer and is no older than the
  timeout. Both are needed: the timer must survive the error answer for the age to be
  bounded after it, and time must not pass a timer that is due.
* `TimeoutProofs`, with the throttle. In both nestings each step is one of `Throttle`'s or leaves
  the semaphore alone (`ImplementsThrottle`), so the throttle's invariant is available by
  instance. `HandlersAreCapped` adds where the handler may be for each place in the
  throttle: those at work hold a slot. `InTimeStaysIntact` adds who has written: before
  the select nobody but the handler, and where `done` won, nobody else and nobody after.

* `InboundProofs`, for chains of any length in any order, without a layer twice, any
  rules, clients, attempts and visits. `EveryStep` says once for all twenty kinds of layer
  what letting a request pass is: the layer writes to the object it was given (`Told`)
  and hands on that or a clone (`HandedOn`), and a gate that lets it pass has found
  what `Lets` says. The invariants are about two requests: the one on its way (`Top`) and the
  one Retry will start the next attempt with (`Base`).
  - `RedirectsOnce`: until a layer has touched `X-Forwarded-Proto` it says what the client
    speaks; a redirect finds `http`, and who has followed it speaks `https`.
  - `HostForwarded`: in front of layer `i` the host is what RewriteHost has made of the
    client's, if it lies before `i`, and then the client's is in `X-Forwarded-Host`.
  - `IdsCorrelateAlways`: a request behind the layer that draws them has the identifiers
    that are in the header map (`IdsTold`), and what the client has of the header was there
    when the answer to one of the requests fixed it (`SentTold`): only inside Retry does an
    attempt go on with a header that is fixed.
  - `SameRequestEveryAttempt`: what an attempt brings layer `j` is a function of `Base` and of
    the layers in between (`PathTo`, `XfhTo`, ...). `SameAhead` says that this function
    of `Base` and the one of `Top` agree. Two facts about each field keep it: one layer
    further on the function of what is handed on is the same (`...Ahead`), and what the
    layer leaves on the object Retry holds does not change it (`...Left`). The second is
    where the order of layers enters.
  - `JudgesOneAddress` follows for the address of a gate, unless `AddressMayChange`.
  - `PassesForGood`: what a gate inside Retry has found (`LetsAgain`) is stated of `Base`, so
    it is still true when an attempt comes by again, for a token or the maintenance flag unless
    `changed` says otherwise.
  The assumptions besides types: every request names a host (HTTP/1.1 requires it), and
  a middleware is in a chain once. `Text`, the strings that occur, is a constant because
  the provers know nothing of `STRING`; `FirstPrefix` has a first match by the
  well-foundedness of the naturals (`LeastNat`).

* `PipelineProofs`, for chains of any length in any order, without a layer twice, any
  statuses and any number of attempts. What a call does to each layer it reaches, to the
  header map and to the response is one lemma each (`HeaderFacts`, `ResponseFacts`,
  `CalledFacts`); `http.Error` is two calls. `StepKinds` says that every action is one of
  ten kinds of steps, so that each invariant is shown for ten cases, most of them by a
  fact about one call. `Base` (`TypeOK`, where control may be, that Retry starts with its
  first attempt, that a gzip head has fixed the status) carries all of them.
  - `RecordersTruthful`: whatever is called reaches the outermost recorder when no Retry
    keeps it, so from the first call on the recorder agrees with the response.
  - `PanicAnswered`: a panic before any status unwinds to Recover without an output, since
    only Compress writes then.
  - `UpstreamHeadersRemoved` has two invariants. With Retry inside ResponseHeaders an attempt
    may leave the field in the map, but nothing is sent that has not passed the layer.
    Otherwise the layer is passed first and the field is nowhere, after any attempt.
  - `SecurityHeadersAlways`, and the private part of `NoErrorsMadePublic`: the header is in the map
    before anything within the layer is sent. An answer from outside the layer does not
    matter, since it does not come back through it, unless another attempt follows:
    `RefusedOutside` says that Retry has then kept the status of a refusal.
  - `NoErrorsMadePublic`: Cache's public is in the map only after Cache has put it there for a status it has
    recorded. That status is the one sent, or Retry's kept one, or nothing has been sent.
  - `AlwaysCloser`: within an attempt every step is one nearer to its end, and a new
    attempt, of which there is one less, cannot use up what an attempt is worth.

Model-checked only:

* liveness (`WaiterAnswered`, `ClosesForGood`, `EveryRequestAnswered`, `NothingLeft`,
  `EveryCallEnds`, `HealthAnswered`):
  `ENABLED` and fairness are out of the prover's reach.

The proof modules use no recursive operators.

## 6. Not modelled

`RequestTag` copies a trimmed header to the context and the response, which no other
layer reads or changes. CIDR ranges and country codes are one set of addresses. The
brackets `clientIP` leaves on an IPv6 address, a negative `Timeout` of HealthCheck (to
the client that is none), cryptography, formatting, logging, latency and byte counts, the
pool of gzip writers and the URL rewriting of `httputil` are left out. Configuration
is read once, before anything runs.

## 7. Plan

Done, in this order: `Throttle` with its limiter and proofs; `CircuitBreaker`,
`RateLimiter`, `Dedupe` with proofs; `RequestTimeout` and its composition with the
throttle; `Metrics` with proofs; `HTTPResponse`, `Pipeline` and `Inbound`; Retry around
the breaker with proofs; the gates that were left, in `Inbound`; `HealthProbe` with
proofs; `TraceIds`; the proofs of `ThrottledTimeout`, `Inbound` and `Pipeline`.

Left: `Dedupe` inside `RateLimit`, the other composition the documentation recommends
(`docs/middleware-dedupe.md`), with the headers a replay repeats.
