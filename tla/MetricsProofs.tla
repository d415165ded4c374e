---------------------------- MODULE MetricsProofs ----------------------------
(***************************************************************************)
(* Metrics for every number of workers and scrapers.                        *)
(*                                                                          *)
(* ErrorsWithinRequests is not inductive: nothing in it tells that a worker *)
(* about to count an error has already counted its request.  Inv says so:   *)
(* the errors still owed, one for each worker in Owing, fit as well.  What  *)
(* a scrape has loaded stays between two values of a counter because        *)
(* counters never decrease, so Inv keeps the value at the start below the   *)
(* present one.                                                             *)
(*                                                                          *)
(* What a counter is still owed is a set of units, one worker's disjoint    *)
(* from another's: NothingLost is about its size, and a step changes the    *)
(* units of one worker only.                                                *)
(***************************************************************************)
EXTENDS Metrics, FiniteSetTheorems, TLAPS

\* Workers whose request is counted and whose error is not, yet.
Owing == {w \in Worker : pc[w] = "adding" /\ step[w] > 0 /\ cost[w].errors = 1}

\* Where each goroutine can be.
Places ==
  /\ \A w \in Worker : pc[w] \in {"idle", "handling", "adding"}
  /\ \A w \in Worker : pc[w] = "adding" => cost[w] \in Cost
  /\ \A w \in Worker : pc[w] # "adding" => step[w] = 0

ErrorsCovered == metricsState.errors + Cardinality(Owing) <= metricsState.requests

\* Counters have not decreased since a scrape began.
Grown ==
  \A s \in Scraper : pc[s] \in {"loading", "reporting"} =>
    \A n \in Counter : before[s][n] <= metricsState[n]

\* A scraper that is not loading has all its loads before it.
Resting == \A s \in Scraper : pc[s] # "loading" => step[s] = 0

Inv == TypeOK /\ Places /\ Resting /\ ErrorsCovered /\ Grown /\ SnapshotBracketed

LEMMA CostType ==
  ASSUME NEW c \in Cost \cup {Zero}
  PROVE  /\ c \in [Counter -> Nat]
         /\ c \in Cost => c.requests = 1
         /\ c.errors \in {0, 1}
BY MetricsAssumption DEF Zero, Counter

\* One addition to one counter.
LEMMA AddGrows ==
  ASSUME NEW m \in [Counter -> Nat], NEW c \in [Counter -> Nat], NEW n \in Counter
  PROVE  /\ [m EXCEPT ![n] = @ + c[n]] \in [Counter -> Nat]
         /\ \A k \in Counter : m[k] <= [m EXCEPT ![n] = @ + c[n]][k]
         /\ [m EXCEPT ![n] = @ + c[n]][n] = m[n] + c[n]
         /\ \A k \in Counter \ {n} : [m EXCEPT ![n] = @ + c[n]][k] = m[k]
OBVIOUS

LEMMA AddsOrder ==
  /\ \A i \in 1..4 : Adds[i] \in Counter /\ Loads[i] \in Counter
  /\ \A i \in 1..4 : (Adds[i] = "requests" <=> i = 1) /\ (Adds[i] = "errors" <=> i = 4)
  /\ "requests" \in Counter /\ "errors" \in Counter
BY DEF Adds, Loads, Counter

LEMMA OwingFinite == IsFiniteSet(Owing) /\ Cardinality(Owing) \in Nat
BY MetricsAssumption, FS_Subset, FS_CardinalityType DEF Owing

LEMMA InvInit == Init => Inv
<1> SUFFICES ASSUME Init PROVE Inv
  OBVIOUS
<1>1. TypeOK
  BY DEF Init, TypeOK, Zero, Goroutine
<1>2. Places
  BY DEF Init, Places, Goroutine
<1>3. ErrorsCovered
  <2>1. Owing = {}
    BY DEF Init, Owing, Goroutine
  <2> QED BY <2>1, FS_EmptySet DEF Init, ErrorsCovered, Zero, Counter
<1>4. Resting /\ Grown /\ SnapshotBracketed
  BY DEF Init, Resting, Grown, SnapshotBracketed, Goroutine
<1> QED BY <1>1, <1>2, <1>3, <1>4 DEF Inv

\* What a step of a worker other than an addition, or of a scraper, leaves.
LEMMA CountersKept ==
  ASSUME Inv, UNCHANGED metricsState, Owing' = Owing
  PROVE  ErrorsCovered'
BY DEF Inv, ErrorsCovered

\* A step that touches no scraper and lets no counter decrease.
LEMMA ScrapersKept ==
  ASSUME Inv, UNCHANGED <<snap, before>>,
         \A s \in Scraper : pc'[s] = pc[s] /\ step'[s] = step[s],
         metricsState' \in [Counter -> Nat],
         \A n \in Counter : metricsState[n] <= metricsState'[n]
  PROVE  Resting' /\ Grown' /\ SnapshotBracketed'
<1>1. \A s \in Scraper, n \in Counter : snap[s][n] \in Nat /\ before[s][n] \in Nat
  BY DEF Inv, TypeOK
<1>2. \A n \in Counter : metricsState[n] \in Nat /\ metricsState'[n] \in Nat
  BY DEF Inv, TypeOK
<1>3. Grown'
  BY <1>1, <1>2 DEF Inv, Grown
<1>4. ASSUME NEW s \in Scraper, NEW i \in 1..4,
             pc'[s] = "reporting" \/ (pc'[s] = "loading" /\ i <= step'[s])
      PROVE  /\ before'[s][Loads[i]] <= snap'[s][Loads[i]]
             /\ snap'[s][Loads[i]] <= metricsState'[Loads[i]]
  <2>1. Loads[i] \in Counter
    BY AddsOrder
  <2>2. /\ before[s][Loads[i]] <= snap[s][Loads[i]]
        /\ snap[s][Loads[i]] <= metricsState[Loads[i]]
    BY <1>4 DEF Inv, SnapshotBracketed
  <2> QED BY <1>1, <1>2, <2>1, <2>2
<1> QED BY <1>3, <1>4 DEF Inv, Resting, SnapshotBracketed

\* A worker's own steps leave the scrapers' places alone.
LEMMA Apart == \A w \in Worker, s \in Scraper : w # s /\ w \in Goroutine /\ s \in Goroutine
BY MetricsAssumption DEF Goroutine

LEMMA InvForward ==
  ASSUME Inv, NEW w \in Worker, Forward(w)
  PROVE  Inv'
<1>1. TypeOK'
  BY Apart DEF Inv, TypeOK, Forward, Goroutine
<1>2. Places'
  BY DEF Inv, TypeOK, Places, Forward, Goroutine
<1>3. Owing' = Owing
  BY DEF Inv, TypeOK, Owing, Forward, Goroutine
<1>4. Resting' /\ Grown' /\ SnapshotBracketed'
  <2>1. \A s \in Scraper : pc'[s] = pc[s] /\ step'[s] = step[s]
    BY Apart DEF Inv, TypeOK, Forward
  <2>2. metricsState' \in [Counter -> Nat] /\ \A n \in Counter : metricsState[n] <= metricsState'[n]
    BY DEF Inv, TypeOK, Forward
  <2> QED BY <2>1, <2>2, ScrapersKept DEF Forward
<1>5. ErrorsCovered'
  BY <1>3, CountersKept DEF Forward
<1> QED BY <1>1, <1>2, <1>4, <1>5 DEF Inv

LEMMA InvHandlerReturns ==
  ASSUME Inv, NEW w \in Worker, HandlerReturns(w)
  PROVE  Inv'
<1>0. PICK c \in Cost : /\ cost' = [cost EXCEPT ![w] = c]
                        /\ work' = [n \in Counter |-> work[n] + c[n]]
  BY DEF HandlerReturns
<1>1. TypeOK'
  <2>1. c \in [Counter -> Nat]
    BY CostType
  <2>2. work' \in [Counter -> Nat]
    BY <1>0, <2>1 DEF Inv, TypeOK
  <2>3. cost' \in [Worker -> Cost \cup {Zero}]
    BY <1>0 DEF Inv, TypeOK
  <2> QED BY <2>2, <2>3 DEF Inv, TypeOK, HandlerReturns, Goroutine
<1>2. Places'
  BY <1>0 DEF Inv, TypeOK, Places, HandlerReturns, Goroutine
<1>3. Owing' = Owing
  <2>1. step[w] = 0 /\ w \notin Owing
    BY DEF Inv, Places, Owing, HandlerReturns
  <2>2. w \notin Owing'
    BY <2>1 DEF Owing, HandlerReturns
  <2>3. \A v \in Worker \ {w} : v \in Owing' <=> v \in Owing
    BY <1>0 DEF Inv, TypeOK, Owing, HandlerReturns, Goroutine
  <2>4. Owing \subseteq Worker /\ Owing' \subseteq Worker
    BY DEF Owing
  <2> QED BY <2>1, <2>2, <2>3, <2>4
<1>4. Resting' /\ Grown' /\ SnapshotBracketed'
  <2>1. \A s \in Scraper : pc'[s] = pc[s] /\ step'[s] = step[s]
    BY Apart DEF Inv, TypeOK, HandlerReturns
  <2>2. metricsState' \in [Counter -> Nat] /\ \A n \in Counter : metricsState[n] <= metricsState'[n]
    BY DEF Inv, TypeOK, HandlerReturns
  <2> QED BY <2>1, <2>2, ScrapersKept DEF HandlerReturns
<1>5. ErrorsCovered'
  BY <1>3, CountersKept DEF HandlerReturns
<1> QED BY <1>1, <1>2, <1>4, <1>5 DEF Inv

LEMMA InvHandlerPanics ==
  ASSUME Inv, NEW w \in Worker, HandlerPanics(w)
  PROVE  Inv'
<1>1. TypeOK'
  BY DEF Inv, TypeOK, HandlerPanics, Goroutine
<1>2. Places'
  BY DEF Inv, TypeOK, Places, HandlerPanics, Goroutine
<1>3. Owing' = Owing
  BY DEF Inv, TypeOK, Owing, HandlerPanics, Goroutine
<1>4. Resting' /\ Grown' /\ SnapshotBracketed'
  <2>1. \A s \in Scraper : pc'[s] = pc[s] /\ step'[s] = step[s]
    BY Apart DEF Inv, TypeOK, HandlerPanics
  <2>2. metricsState' \in [Counter -> Nat] /\ \A n \in Counter : metricsState[n] <= metricsState'[n]
    BY DEF Inv, TypeOK, HandlerPanics
  <2> QED BY <2>1, <2>2, ScrapersKept DEF HandlerPanics
<1>5. ErrorsCovered'
  BY <1>3, CountersKept DEF HandlerPanics
<1> QED BY <1>1, <1>2, <1>4, <1>5 DEF Inv

\* An addition: the first counts the request and may begin to owe an error, the
\* last counts the error and owes it no more.
LEMMA InvAdd ==
  ASSUME Inv, NEW w \in Worker, Add(w)
  PROVE  Inv'
<1> DEFINE n == Adds[step[w] + 1]
<1>0. /\ pc[w] = "adding" /\ step[w] \in 0..3 /\ n \in Counter
      /\ cost[w] \in Cost /\ cost[w] \in [Counter -> Nat]
      /\ cost[w].requests = 1 /\ cost[w].errors \in {0, 1}
      /\ metricsState \in [Counter -> Nat]
      /\ w \in Goroutine /\ pc \in [Goroutine -> {"idle", "handling", "adding", "loading", "reporting"}]
      /\ step \in [Goroutine -> 0..3] /\ cost \in [Worker -> Cost \cup {Zero}]
  <2>1. pc[w] = "adding" /\ step[w] \in 0..3 /\ cost[w] \in Cost
    BY DEF Inv, TypeOK, Places, Add, Goroutine
  <2>2. n \in Counter
    BY <2>1, AddsOrder
  <2> QED BY <2>1, <2>2, CostType DEF Inv, TypeOK, Goroutine
<1>1. /\ metricsState' = [metricsState EXCEPT ![n] = @ + cost[w][n]]
      /\ cost' = IF step[w] = 3 THEN [cost EXCEPT ![w] = Zero] ELSE cost
      /\ UNCHANGED <<snap, work, before>>
      /\ step[w] = 3 => /\ pc' = [pc EXCEPT ![w] = "idle"]
                        /\ step' = [step EXCEPT ![w] = 0]
      /\ step[w] # 3 => /\ step' = [step EXCEPT ![w] = step[w] + 1]
                        /\ pc' = pc
  BY DEF Add, Advance
<1>2. (n = "requests" <=> step[w] = 0) /\ (n = "errors" <=> step[w] = 3)
  BY <1>0, AddsOrder
<1>3. /\ metricsState' \in [Counter -> Nat]
      /\ \A k \in Counter : metricsState[k] <= metricsState'[k]
      /\ metricsState'[n] = metricsState[n] + cost[w][n]
      /\ \A k \in Counter \ {n} : metricsState'[k] = metricsState[k]
  <2> HIDE DEF n
  <2> QED BY <1>0, <1>1, AddGrows
<1> HIDE DEF n
<1>4. TypeOK'
  <2>1. cost' \in [Worker -> Cost \cup {Zero}]
    BY <1>0, <1>1
  <2>2. pc' \in [Goroutine -> {"idle", "handling", "adding", "loading", "reporting"}]
    BY <1>0, <1>1
  <2>3. step' \in [Goroutine -> 0..3]
    BY <1>0, <1>1
  <2> QED BY <1>1, <1>3, <2>1, <2>2, <2>3 DEF Inv, TypeOK
<1>5. Places'
  BY <1>0, <1>1 DEF Inv, Places, Goroutine
<1>6. Resting' /\ Grown' /\ SnapshotBracketed'
  <2>1. \A s \in Scraper : pc'[s] = pc[s] /\ step'[s] = step[s]
    BY <1>0, <1>1, Apart
  <2> QED BY <1>1, <1>3, <2>1, ScrapersKept
<1>7. \A v \in Worker \ {w} : v \in Owing' <=> v \in Owing
  BY <1>0, <1>1 DEF Owing, Goroutine
<1>8. Owing \subseteq Worker /\ Owing' \subseteq Worker
  BY DEF Owing
<1>9. /\ metricsState.errors \in Nat /\ metricsState.requests \in Nat
      /\ metricsState.errors + Cardinality(Owing) <= metricsState.requests
      /\ IsFiniteSet(Owing) /\ Cardinality(Owing) \in Nat
  BY <1>0, AddsOrder, OwingFinite DEF Inv, ErrorsCovered
<1>10. CASE step[w] = 0
  <2>1. w \notin Owing
    BY <1>10 DEF Owing
  <2>2. metricsState'.requests = metricsState.requests + 1 /\ metricsState'.errors = metricsState.errors
    BY <1>0, <1>2, <1>3, <1>10, AddsOrder
  <2>3. Owing' = Owing \/ Owing' = Owing \cup {w}
    BY <1>7, <1>8, <2>1
  <2>4. Cardinality(Owing') <= Cardinality(Owing) + 1 /\ Cardinality(Owing') \in Nat
    BY <1>9, <2>1, <2>3, FS_AddElement
  <2> QED BY <1>4, <1>5, <1>6, <1>9, <2>2, <2>4 DEF Inv, ErrorsCovered
<1>11. CASE step[w] \in {1, 2}
  <2>1. w \in Owing' <=> w \in Owing
    BY <1>0, <1>1, <1>11 DEF Owing, Goroutine
  <2>2. Owing' = Owing
    BY <1>7, <1>8, <2>1
  <2>3. metricsState'.requests = metricsState.requests /\ metricsState'.errors = metricsState.errors
    BY <1>2, <1>3, <1>11, AddsOrder
  <2> QED BY <1>4, <1>5, <1>6, <1>9, <2>2, <2>3 DEF Inv, ErrorsCovered
<1>12. CASE step[w] = 3
  <2>1. w \notin Owing' /\ (w \in Owing <=> cost[w].errors = 1)
    BY <1>0, <1>1, <1>12 DEF Owing, Goroutine
  <2>2. metricsState'.requests = metricsState.requests /\ metricsState'.errors = metricsState.errors + cost[w].errors
    BY <1>2, <1>3, <1>12, AddsOrder
  <2>3. CASE cost[w].errors = 1
    <3>1. Owing' = Owing \ {w} /\ w \in Owing
      BY <1>7, <1>8, <2>1, <2>3
    <3>2. Cardinality(Owing') = Cardinality(Owing) - 1
      BY <1>9, <3>1, FS_RemoveElement
    <3> QED BY <1>4, <1>5, <1>6, <1>9, <2>2, <2>3, <3>2 DEF Inv, ErrorsCovered
  <2>4. CASE cost[w].errors = 0
    <3>1. Owing' = Owing
      BY <1>7, <1>8, <2>1, <2>4
    <3> QED BY <1>4, <1>5, <1>6, <1>9, <2>2, <2>4, <3>1 DEF Inv, ErrorsCovered
  <2> QED BY <1>0, <2>3, <2>4
<1> QED BY <1>0, <1>10, <1>11, <1>12

\* A scraper's own steps leave the workers' places and debts alone.
LEMMA WorkersKept ==
  ASSUME Inv, UNCHANGED <<metricsState, cost>>,
         \A w \in Worker : pc'[w] = pc[w] /\ step'[w] = step[w]
  PROVE  Places' /\ ErrorsCovered'
<1>1. Places'
  BY DEF Inv, Places
<1>2. Owing' = Owing
  BY DEF Owing
<1> QED BY <1>1, <1>2, CountersKept

LEMMA InvScrape ==
  ASSUME Inv, NEW s \in Scraper, Scrape(s)
  PROVE  Inv'
<1>1. TypeOK'
  BY DEF Inv, TypeOK, Scrape, Goroutine
<1>2. Places' /\ ErrorsCovered'
  <2>1. \A w \in Worker : pc'[w] = pc[w] /\ step'[w] = step[w]
    BY Apart DEF Inv, TypeOK, Scrape
  <2> QED BY <2>1, WorkersKept DEF Scrape
<1>3. Resting' /\ Grown'
  BY DEF Inv, TypeOK, Resting, Grown, Scrape, Goroutine
<1>4. SnapshotBracketed'
  <2>1. step[s] = 0
    BY DEF Inv, Resting, Scrape
  <2> QED BY <2>1, AddsOrder DEF Inv, TypeOK, SnapshotBracketed, Scrape, Goroutine
<1> QED BY <1>1, <1>2, <1>3, <1>4 DEF Inv

LEMMA InvReport ==
  ASSUME Inv, NEW s \in Scraper, Report(s)
  PROVE  Inv'
<1>1. TypeOK'
  BY DEF Inv, TypeOK, Report, Goroutine, Zero
<1>2. Places' /\ ErrorsCovered'
  <2>1. \A w \in Worker : pc'[w] = pc[w] /\ step'[w] = step[w]
    BY Apart DEF Inv, TypeOK, Report
  <2> QED BY <2>1, WorkersKept DEF Report
<1>3. Resting' /\ Grown' /\ SnapshotBracketed'
  BY AddsOrder DEF Inv, TypeOK, Resting, Grown, SnapshotBracketed, Report, Goroutine
<1> QED BY <1>1, <1>2, <1>3 DEF Inv

LEMMA InvLoad ==
  ASSUME Inv, NEW s \in Scraper, Load(s)
  PROVE  Inv'
<1> DEFINE n == Loads[step[s] + 1]
<1>0. /\ pc[s] = "loading" /\ step[s] \in 0..3 /\ n \in Counter
      /\ metricsState \in [Counter -> Nat]
      /\ s \in Goroutine /\ pc \in [Goroutine -> {"idle", "handling", "adding", "loading", "reporting"}]
      /\ step \in [Goroutine -> 0..3]
      /\ snap \in [Scraper -> [Counter -> Nat]] /\ before \in [Scraper -> [Counter -> Nat]]
  <2>1. pc[s] = "loading" /\ step[s] \in 0..3
    BY DEF Inv, TypeOK, Load, Goroutine
  <2> QED BY <2>1, AddsOrder DEF Inv, TypeOK, Goroutine
<1>1. /\ snap' = [snap EXCEPT ![s][n] = metricsState[n]]
      /\ UNCHANGED <<metricsState, cost, work, before>>
      /\ step[s] = 3 => /\ pc' = [pc EXCEPT ![s] = "reporting"]
                        /\ step' = [step EXCEPT ![s] = 0]
      /\ step[s] # 3 => /\ step' = [step EXCEPT ![s] = step[s] + 1]
                        /\ pc' = pc
  BY DEF Load, Advance
<1>2. ASSUME NEW i \in 1..4 PROVE Loads[i] \in Counter /\ (Loads[i] = n <=> i = step[s] + 1)
  BY <1>0 DEF Loads, Counter
<1> HIDE DEF n
<1>3. TypeOK'
  <2>1. pc' \in [Goroutine -> {"idle", "handling", "adding", "loading", "reporting"}]
    BY <1>0, <1>1
  <2>2. step' \in [Goroutine -> 0..3]
    <3>1. CASE step[s] = 3
      BY <1>0, <1>1, <3>1
    <3>2. CASE step[s] # 3
      BY <1>0, <1>1, <3>2
    <3> QED BY <3>1, <3>2
  <2>3. snap' \in [Scraper -> [Counter -> Nat]]
    BY <1>0, <1>1
  <2> QED BY <1>1, <2>1, <2>2, <2>3 DEF Inv, TypeOK
<1>4. Places' /\ ErrorsCovered'
  <2>1. \A w \in Worker : pc'[w] = pc[w] /\ step'[w] = step[w]
    BY <1>0, <1>1, Apart
  <2> QED BY <1>1, <2>1, WorkersKept
<1>5. Resting' /\ Grown'
  BY <1>0, <1>1 DEF Inv, Resting, Grown, Goroutine
<1>6. ASSUME NEW t \in Scraper, NEW i \in 1..4,
             pc'[t] = "reporting" \/ (pc'[t] = "loading" /\ i <= step'[t])
      PROVE  /\ before'[t][Loads[i]] <= snap'[t][Loads[i]]
             /\ snap'[t][Loads[i]] <= metricsState'[Loads[i]]
  <2>1. CASE t # s
    <3>1. pc'[t] = pc[t] /\ step'[t] = step[t] /\ snap'[t] = snap[t]
      BY <1>0, <1>1, <2>1 DEF Goroutine
    <3> QED BY <1>1, <1>6, <3>1 DEF Inv, SnapshotBracketed
  <2>2. CASE t = s /\ i = step[s] + 1
    <3>1. snap'[s][n] = metricsState[n] /\ Loads[i] = n
      BY <1>0, <1>1, <1>2, <2>2
    <3>2. before[s][n] <= metricsState[n]
      BY <1>0 DEF Inv, Grown
    <3> QED BY <1>0, <1>1, <2>2, <3>1, <3>2
  <2>3. CASE t = s /\ i # step[s] + 1
    <3>1. snap'[s][Loads[i]] = snap[s][Loads[i]]
      BY <1>0, <1>1, <1>2, <2>3
    <3>2. i <= step[s]
      BY <1>0, <1>1, <1>6, <2>3
    <3>3. before[s][Loads[i]] <= snap[s][Loads[i]] /\ snap[s][Loads[i]] <= metricsState[Loads[i]]
      BY <1>0, <3>2 DEF Inv, SnapshotBracketed
    <3> QED BY <1>1, <2>3, <3>1, <3>3
  <2> QED BY <2>1, <2>2, <2>3
<1>7. SnapshotBracketed'
  BY <1>6 DEF SnapshotBracketed
<1> QED BY <1>3, <1>4, <1>5, <1>7 DEF Inv

\* The four facts of every state of Metrics, for every set of goroutines and
\* every set of costs: the inductive invariant.
THEOREM InvHolds == Spec => []Inv
<1>1. Inv /\ [Next]_vars => Inv'
  <2> SUFFICES ASSUME Inv, [Next]_vars PROVE Inv'
    OBVIOUS
  <2>1. ASSUME NEW w \in Worker, Forward(w) \/ HandlerReturns(w) \/ HandlerPanics(w) \/ Add(w)
        PROVE  Inv'
    BY <2>1, InvForward, InvHandlerReturns, InvHandlerPanics, InvAdd
  <2>2. ASSUME NEW s \in Scraper, Scrape(s) \/ Load(s) \/ Report(s)
        PROVE  Inv'
    BY <2>2, InvScrape, InvLoad, InvReport
  <2>3. CASE UNCHANGED vars
    BY <2>3 DEF Inv, TypeOK, Places, Resting, ErrorsCovered, Owing, Grown, SnapshotBracketed, vars
  <2> QED BY <2>1, <2>2, <2>3 DEF Next
<1> QED BY InvInit, <1>1, PTL DEF Spec

\* The variables of Metrics have their types (metrics.go:20-28).
THEOREM TypeCorrect == Spec => []TypeOK
<1>1. Inv => TypeOK
  BY DEF Inv
<1> QED BY <1>1, InvHolds, PTL

\* No interleaving of additions shows more errors than requests
\* (metrics.go:60-65).
THEOREM ErrorsStayWithinRequests == Spec => []ErrorsWithinRequests
<1>1. Inv => ErrorsWithinRequests
  <2> SUFFICES ASSUME Inv PROVE metricsState.errors <= metricsState.requests
    BY DEF ErrorsWithinRequests
  <2>1. metricsState.errors \in Nat /\ metricsState.requests \in Nat
    BY AddsOrder DEF Inv, TypeOK
  <2> QED BY <2>1, OwingFinite DEF Inv, ErrorsCovered
<1> QED BY <1>1, InvHolds, PTL

\* The units that w alone owes, and those of the others.
Units(w, n) == {w} \X (1..Pending(w, n))
Others(w, n) == UNION {{v} \X (1..Pending(v, n)) : v \in Worker \ {w}}

\* NothingLost, with what makes Cardinality a number.
Lossless == NothingLost /\ \A n \in Counter : IsFiniteSet(Owed(n))

LEMMA UnitsCount ==
  ASSUME NEW w, NEW k \in Nat
  PROVE  IsFiniteSet({w} \X (1..k)) /\ Cardinality({w} \X (1..k)) = k
<1>1. IsFiniteSet(1..k) /\ Cardinality(1..k) = k
  BY FS_Interval
<1>2. IsFiniteSet({w}) /\ Cardinality({w}) = 1
  BY FS_Singleton
<1>3. Cardinality({w} \X (1..k)) = 1 * k /\ IsFiniteSet({w} \X (1..k))
  BY <1>1, <1>2, FS_Product
<1> QED BY <1>3

LEMMA DisjointUnion ==
  ASSUME NEW S, NEW T, IsFiniteSet(S), IsFiniteSet(T), S \cap T = {}
  PROVE  /\ IsFiniteSet(S \cup T)
         /\ Cardinality(S \cup T) = Cardinality(S) + Cardinality(T)
         /\ Cardinality(S) \in Nat /\ Cardinality(T) \in Nat
<1>1. Cardinality(S) \in Nat /\ Cardinality(T) \in Nat /\ Cardinality(S \cap T) = 0
  BY FS_CardinalityType, FS_EmptySet
<1>2. /\ IsFiniteSet(S \cup T)
      /\ Cardinality(S \cup T) = Cardinality(S) + Cardinality(T) - Cardinality(S \cap T)
  BY FS_Union
<1> QED BY <1>1, <1>2

LEMMA PendingType ==
  ASSUME Inv, NEW w \in Worker, NEW n \in Counter
  PROVE  Pending(w, n) \in Nat
BY CostType DEF Inv, TypeOK, Pending

\* A step that touches what one worker owes of one counter.
LEMMA OwedChanges ==
  ASSUME NEW w \in Worker, NEW n, Pending(w, n) \in Nat, Pending(w, n)' \in Nat,
         \A v \in Worker \ {w} : Pending(v, n)' = Pending(v, n),
         IsFiniteSet(Owed(n))
  PROVE  /\ IsFiniteSet(Owed(n)')
         /\ Cardinality(Owed(n)') = (Cardinality(Owed(n)) - Pending(w, n)) + Pending(w, n)'
<1>1. /\ Owed(n) = Others(w, n) \cup Units(w, n)
      /\ Owed(n)' = Others(w, n)' \cup Units(w, n)'
  BY DEF Owed, Others, Units
<1>2. Others(w, n)' = Others(w, n)
  BY DEF Others
<1>3. Others(w, n) \cap Units(w, n) = {} /\ Others(w, n) \cap Units(w, n)' = {}
  BY DEF Others, Units
<1>4. IsFiniteSet(Others(w, n))
  BY <1>1, FS_Subset
<1>5. /\ IsFiniteSet(Units(w, n)) /\ Cardinality(Units(w, n)) = Pending(w, n)
      /\ IsFiniteSet(Units(w, n)') /\ Cardinality(Units(w, n)') = Pending(w, n)'
  BY UnitsCount DEF Units
<1>6. Cardinality(Owed(n)) = Cardinality(Others(w, n)) + Pending(w, n)
  BY <1>1, <1>3, <1>4, <1>5, DisjointUnion
<1>7. IsFiniteSet(Owed(n)') /\ Cardinality(Owed(n)') = Cardinality(Others(w, n)) + Pending(w, n)'
  BY <1>1, <1>2, <1>3, <1>4, <1>5, DisjointUnion
<1> QED BY <1>4, <1>6, <1>7, FS_CardinalityType

\* A step that touches nothing of what is owed.
LEMMA OwedKept ==
  ASSUME Lossless, UNCHANGED <<metricsState, work>>,
         \A w \in Worker, n \in Counter : Pending(w, n)' = Pending(w, n)
  PROVE  Lossless'
<1>1. \A n \in Counter : Owed(n)' = Owed(n)
  BY DEF Owed
<1> QED BY <1>1 DEF Lossless, NothingLost

LEMMA LosslessReturns ==
  ASSUME Inv, Inv', Lossless, NEW w \in Worker, HandlerReturns(w)
  PROVE  Lossless'
<1>1. PICK c \in Cost : /\ cost' = [cost EXCEPT ![w] = c]
                        /\ work' = [n \in Counter |-> work[n] + c[n]]
  BY DEF HandlerReturns
<1> SUFFICES ASSUME NEW n \in Counter
             PROVE  /\ IsFiniteSet(Owed(n)')
                    /\ metricsState'[n] + Cardinality(Owed(n)') = work'[n]
  BY DEF Lossless, NothingLost
<1>2. Pending(w, n) = 0
  BY DEF HandlerReturns, Pending
<1>3. \E i \in 1..4 : Adds[i] = n
  BY DEF Adds, Counter
<1>4. Pending(w, n)' = c[n] /\ c[n] \in Nat
  <2>1. step[w] = 0 /\ step' = step /\ pc'[w] = "adding" /\ cost'[w] = c
    BY <1>1 DEF Inv, TypeOK, Places, HandlerReturns, Goroutine
  <2> QED BY <1>3, <2>1, CostType DEF Pending
<1>5. \A v \in Worker \ {w} : Pending(v, n)' = Pending(v, n)
  BY <1>1 DEF Inv, TypeOK, HandlerReturns, Pending, Goroutine
<1>6. IsFiniteSet(Owed(n)') /\ Cardinality(Owed(n)') = (Cardinality(Owed(n)) - 0) + c[n]
  BY <1>2, <1>4, <1>5, OwedChanges DEF Lossless
<1>7. /\ Cardinality(Owed(n)) \in Nat /\ metricsState'[n] = metricsState[n]
      /\ metricsState[n] \in Nat /\ work[n] \in Nat /\ work'[n] = work[n] + c[n]
      /\ metricsState[n] + Cardinality(Owed(n)) = work[n]
  BY <1>1, FS_CardinalityType DEF Lossless, NothingLost, HandlerReturns, Inv, TypeOK
<1> QED BY <1>4, <1>6, <1>7

LEMMA LosslessAdd ==
  ASSUME Inv, Inv', Lossless, NEW w \in Worker, Add(w)
  PROVE  Lossless'
<1> SUFFICES ASSUME NEW n \in Counter
             PROVE  /\ IsFiniteSet(Owed(n)')
                    /\ metricsState'[n] + Cardinality(Owed(n)') = work'[n]
  BY DEF Lossless, NothingLost
<1> DEFINE k == Adds[step[w] + 1]
<1>1. /\ pc[w] = "adding" /\ step[w] \in 0..3 /\ k \in Counter
      /\ cost[w] \in [Counter -> Nat] /\ metricsState \in [Counter -> Nat]
      /\ work[n] \in Nat /\ work' = work
      /\ metricsState' = [metricsState EXCEPT ![k] = @ + cost[w][k]]
  <2>1. pc[w] = "adding" /\ step[w] \in 0..3
    BY DEF Inv, TypeOK, Add, Goroutine
  <2> QED BY <2>1, AddsOrder, CostType DEF Inv, TypeOK, Add
<1> DEFINE paid == IF n = k THEN cost[w][n] ELSE 0
<1>2. Pending(w, n) = Pending(w, n)' + paid
  <2>1. CASE step[w] = 3
    <3>1. pc'[w] = "idle"
      BY <2>1 DEF Inv, TypeOK, Add, Advance, Goroutine
    <3>2. Pending(w, n)' = 0
      BY <3>1 DEF Pending
    <3>3. Pending(w, n) = paid
      BY <1>1, <2>1 DEF Pending
    <3> QED BY <1>1, <3>2, <3>3
  <2>2. CASE step[w] # 3
    <3>1. pc'[w] = "adding" /\ step'[w] = step[w] + 1 /\ cost'[w] = cost[w]
      BY <1>1, <2>2 DEF Inv, TypeOK, Add, Advance, Goroutine
    <3>2. \A i \in (step[w] + 2)..4 : Adds[i] # k
      BY <1>1 DEF Adds
    <3>3. (\E i \in (step[w] + 1)..4 : Adds[i] = n)
            <=> n = k \/ \E i \in (step[w] + 2)..4 : Adds[i] = n
      BY <1>1
    <3>4. step'[w] + 1 = step[w] + 2
      BY <1>1, <3>1
    <3>5. Pending(w, n)' = IF \E i \in (step[w] + 2)..4 : Adds[i] = n THEN cost[w][n] ELSE 0
      BY <3>1, <3>4 DEF Pending
    <3>6. Pending(w, n) = IF \E i \in (step[w] + 1)..4 : Adds[i] = n THEN cost[w][n] ELSE 0
      BY <1>1 DEF Pending
    <3>7. cost[w][n] \in Nat
      BY <1>1
    <3> HIDE DEF k
    <3> QED BY <3>2, <3>3, <3>5, <3>6, <3>7
  <2> QED BY <2>1, <2>2
<1>3. \A v \in Worker \ {w} : Pending(v, n)' = Pending(v, n)
  <2> SUFFICES ASSUME NEW v \in Worker \ {w} PROVE Pending(v, n)' = Pending(v, n)
    OBVIOUS
  <2>1. pc'[v] = pc[v] /\ step'[v] = step[v] /\ cost'[v] = cost[v]
    BY DEF Inv, TypeOK, Add, Advance, Goroutine
  <2> QED BY <2>1 DEF Pending
<1>4. Pending(w, n) \in Nat
  BY PendingType
<1>5. Pending(w, n)' \in Nat
  <2>1. Pending(w, n)' \in {cost'[w][n], 0}
    BY DEF Pending
  <2>2. cost'[w] \in [Counter -> Nat]
    BY CostType DEF Inv, TypeOK
  <2> QED BY <2>1, <2>2
<1>6. /\ IsFiniteSet(Owed(n)')
      /\ Cardinality(Owed(n)') = (Cardinality(Owed(n)) - Pending(w, n)) + Pending(w, n)'
  BY <1>3, <1>4, <1>5, OwedChanges DEF Lossless
<1>7. metricsState'[n] = metricsState[n] + paid /\ metricsState[n] \in Nat /\ paid \in Nat
  <2> HIDE DEF k
  <2> QED BY <1>1
<1>8. Cardinality(Owed(n)) \in Nat /\ metricsState[n] + Cardinality(Owed(n)) = work[n]
  BY FS_CardinalityType DEF Lossless, NothingLost
<1> HIDE DEF paid
<1> QED BY <1>1, <1>2, <1>4, <1>5, <1>6, <1>7, <1>8

LEMMA LosslessInit == Init => Lossless
<1> SUFFICES ASSUME Init, NEW n \in Counter
             PROVE  IsFiniteSet(Owed(n)) /\ metricsState[n] + Cardinality(Owed(n)) = work[n]
  BY DEF Lossless, NothingLost
<1>1. \A w \in Worker : Pending(w, n) = 0
  BY DEF Init, Pending, Goroutine
<1>2. Owed(n) = {}
  BY <1>1 DEF Owed
<1> QED BY <1>2, FS_EmptySet DEF Init, Zero

\* No addition is lost or made twice, whatever runs at the same time: each counter
\* and what is still owed to it make up the work of the returned requests
\* (metrics.go:60-65).
THEOREM NothingIsLost == Spec => []NothingLost
<1>1. Inv /\ Inv' /\ Lossless /\ [Next]_vars => Lossless'
  <2> SUFFICES ASSUME Inv, Inv', Lossless, [Next]_vars PROVE Lossless'
    OBVIOUS
  <2>1. ASSUME NEW w \in Worker, Forward(w) \/ HandlerPanics(w) PROVE Lossless'
    <3>1. \A v \in Worker, n \in Counter : Pending(v, n)' = Pending(v, n)
      BY <2>1 DEF Inv, TypeOK, Forward, HandlerPanics, Pending, Goroutine
    <3> QED BY <2>1, <3>1, OwedKept DEF Forward, HandlerPanics
  <2>2. ASSUME NEW w \in Worker, HandlerReturns(w) PROVE Lossless'
    BY <2>2, LosslessReturns
  <2>3. ASSUME NEW w \in Worker, Add(w) PROVE Lossless'
    BY <2>3, LosslessAdd
  <2>4. ASSUME NEW s \in Scraper, Scrape(s) \/ Load(s) \/ Report(s) PROVE Lossless'
    <3>1. \A v \in Worker : pc'[v] = pc[v] /\ step'[v] = step[v]
      BY <2>4, Apart DEF Inv, TypeOK, Scrape, Load, Report, Advance
    <3>2. UNCHANGED <<metricsState, work, cost>>
      BY <2>4 DEF Scrape, Load, Report
    <3>3. \A v \in Worker, n \in Counter : Pending(v, n)' = Pending(v, n)
      BY <3>1, <3>2 DEF Pending
    <3> QED BY <3>2, <3>3, OwedKept
  <2>5. CASE UNCHANGED vars
    <3>1. \A v \in Worker, n \in Counter : Pending(v, n)' = Pending(v, n)
      BY <2>5 DEF vars, Pending
    <3> QED BY <2>5, <3>1, OwedKept DEF vars
  <2> QED BY <2>1, <2>2, <2>3, <2>4, <2>5 DEF Next
<1>2. Lossless => NothingLost
  BY DEF Lossless
<1> QED BY InvHolds, LosslessInit, <1>1, <1>2, PTL DEF Spec

\* Whatever runs beside a scrape, each value it reports lies between the
\* counter's value when it began and the present one (metrics.go:70-85).
THEOREM SnapshotsBracketed == Spec => []SnapshotBracketed
<1>1. Inv => SnapshotBracketed
  BY DEF Inv
<1> QED BY <1>1, InvHolds, PTL
=============================================================================
