------------------------------ MODULE Metrics ------------------------------
(***************************************************************************)
(* The Metrics middleware (src/internal/middleware/metrics.go): four global *)
(* counters that every request adds to, one atomic addition after the       *)
(* other, once its handler has returned, and that a request for cfg.Path    *)
(* loads, one atomic load after the other.  No two of these operations are  *)
(* one step: additions of several requests and loads of several scrapes     *)
(* interleave freely.                                                       *)
(*                                                                          *)
(* A handler that panics passes Metrics without being counted.              *)
(***************************************************************************)
EXTENDS Integers, Sequences, FiniteSets

CONSTANTS
  Worker,      \* the goroutines that serve proxied requests
  Scraper,     \* the goroutines that serve requests for cfg.Path
  Cost,        \* what a request adds: a set of records [Counter -> Nat]
  MaxRequests  \* bound: the requests whose handler returns

Goroutine == Worker \cup Scraper
Counter == {"requests", "bytes", "latencySum", "errors"}

ASSUME MetricsAssumption ==
  /\ IsFiniteSet(Worker) /\ Worker \cap Scraper = {}
  /\ \A c \in Cost : c \in [Counter -> Nat] /\ c.requests = 1 /\ c.errors \in {0, 1}
  /\ MaxRequests \in Nat

VARIABLES
  metricsState,  \* the counters
  pc,            \* "idle", "handling", "adding", "loading" or "reporting"
  step,          \* the additions or loads made so far
  cost,          \* what the request of each worker adds
  snap,          \* what the scrape of each worker has loaded
  work,          \* history: what the requests whose handler returned amount to
  before         \* history: the counters when the scrape began

vars == <<metricsState, pc, step, cost, snap, work, before>>

Zero == [c \in Counter |-> 0]

\* Fault: errors are counted before the request is.
AddsErrorsFirst == <<"errors", "requests", "bytes", "latencySum">>

\* The order of the additions, and of the loads.
Adds  == <<"requests", "bytes", "latencySum", "errors">>
Loads == <<"requests", "latencySum", "errors", "bytes">>

Init ==
  /\ metricsState = Zero
  /\ pc = [g \in Goroutine |-> "idle"]
  /\ step = [g \in Goroutine |-> 0]
  /\ cost = [w \in Worker |-> Zero]
  /\ snap = [s \in Scraper |-> Zero]
  /\ work = Zero
  /\ before = [s \in Scraper |-> Zero]

Forward(w) ==
  /\ pc[w] = "idle"
  /\ pc' = [pc EXCEPT ![w] = "handling"]
  /\ UNCHANGED <<metricsState, step, cost, snap, work, before>>

\* next.ServeHTTP returns; a status of 500 or more is an error.
HandlerReturns(w) ==
  /\ pc[w] = "handling"
  /\ work.requests < MaxRequests
  /\ \E c \in Cost :
       /\ cost' = [cost EXCEPT ![w] = c]
       /\ work' = [n \in Counter |-> work[n] + c[n]]
  /\ pc' = [pc EXCEPT ![w] = "adding"]
  /\ UNCHANGED <<metricsState, step, snap, before>>

HandlerPanics(w) ==
  /\ pc[w] = "handling"
  /\ pc' = [pc EXCEPT ![w] = "idle"]
  /\ UNCHANGED <<metricsState, step, cost, snap, work, before>>

\* One more of the four operations of g, which is at `after` when it was the last.
Advance(g, after) ==
  IF step[g] = 3 THEN /\ pc' = [pc EXCEPT ![g] = after]
                      /\ step' = [step EXCEPT ![g] = 0]
                 ELSE /\ step' = [step EXCEPT ![g] = @ + 1]
                      /\ UNCHANGED pc

\* Fault: a plain +=, which another worker's addition to the counter can undo.
AddRacy(w) ==
  /\ pc[w] = "adding"
  /\ LET n == Adds[step[w] + 1]
         raced == \E v \in Worker \ {w} : pc[v] = "adding" /\ step[v] = step[w]
     IN  \/ metricsState' = [metricsState EXCEPT ![n] = @ + cost[w][n]]
         \/ raced /\ UNCHANGED metricsState
  /\ Advance(w, "idle")
  /\ UNCHANGED <<cost, snap, work, before>>

\* atomic.AddUint64; a request that was no error adds nothing to errors.
Add(w) ==
  /\ pc[w] = "adding"
  /\ LET n == Adds[step[w] + 1]
     IN  metricsState' = [metricsState EXCEPT ![n] = @ + cost[w][n]]
  /\ Advance(w, "idle")
  /\ cost' = IF step[w] = 3 THEN [cost EXCEPT ![w] = Zero] ELSE cost
  /\ UNCHANGED <<snap, work, before>>

\* A request for cfg.Path.
Scrape(s) ==
  /\ pc[s] = "idle"
  /\ pc' = [pc EXCEPT ![s] = "loading"]
  /\ before' = [before EXCEPT ![s] = metricsState]
  /\ UNCHANGED <<metricsState, step, cost, snap, work>>

\* Fault: a scrape takes the counts away.
LoadAndReset(s) ==
  /\ pc[s] = "loading"
  /\ LET n == Loads[step[s] + 1]
     IN  /\ snap' = [snap EXCEPT ![s][n] = metricsState[n]]
         /\ metricsState' = [metricsState EXCEPT ![n] = 0]
  /\ Advance(s, "reporting")
  /\ UNCHANGED <<cost, work, before>>

\* atomic.LoadUint64
Load(s) ==
  /\ pc[s] = "loading"
  /\ LET n == Loads[step[s] + 1]
     IN  snap' = [snap EXCEPT ![s][n] = metricsState[n]]
  /\ Advance(s, "reporting")
  /\ UNCHANGED <<metricsState, cost, work, before>>

\* The snapshot goes to the client.
Report(s) ==
  /\ pc[s] = "reporting"
  /\ pc' = [pc EXCEPT ![s] = "idle"]
  /\ snap' = [snap EXCEPT ![s] = Zero]
  /\ before' = [before EXCEPT ![s] = Zero]
  /\ UNCHANGED <<metricsState, step, cost, work>>

Next ==
  \/ \E w \in Worker : Forward(w) \/ HandlerReturns(w) \/ HandlerPanics(w) \/ Add(w)
  \/ \E s \in Scraper : Scrape(s) \/ Load(s) \/ Report(s)

Spec == Init /\ [][Next]_vars
-----------------------------------------------------------------------------
\* The types of the variables.
TypeOK ==
  /\ metricsState \in [Counter -> Nat] /\ work \in [Counter -> Nat]
  /\ pc \in [Goroutine -> {"idle", "handling", "adding", "loading", "reporting"}]
  /\ step \in [Goroutine -> 0..3]
  /\ cost \in [Worker -> Cost \cup {Zero}]
  /\ snap \in [Scraper -> [Counter -> Nat]]
  /\ before \in [Scraper -> [Counter -> Nat]]

\* What worker w has still to add to counter n.
Pending(w, n) ==
  IF pc[w] = "adding" /\ \E i \in step[w] + 1 .. 4 : Adds[i] = n THEN cost[w][n] ELSE 0

\* The units of counter n that workers have still to add, one by one.
Owed(n) == UNION {{w} \X (1..Pending(w, n)) : w \in Worker}

\* Every counter is what the finished requests amount to less what is still
\* being added: concurrent requests and scrapes lose and repeat nothing
\* (metrics.go:60-65).
NothingLost ==
  \A n \in Counter : metricsState[n] + Cardinality(Owed(n)) = work[n]

\* There are never more errors than requests, in the middle of any number of
\* updates: the request is counted first (metrics.go:60-65).
ErrorsWithinRequests == metricsState.errors <= metricsState.requests

\* What a scrape reports of a counter lies between the counter's values when
\* the scrape began and now, so later scrapes never report less (metrics.go:70-85).
SnapshotBracketed ==
  \A s \in Scraper : \A i \in 1..4 :
    (pc[s] = "reporting" \/ (pc[s] = "loading" /\ i <= step[s])) =>
      LET n == Loads[i] IN before[s][n] <= snap[s][n] /\ snap[s][n] <= metricsState[n]
=============================================================================
