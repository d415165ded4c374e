------------------------------ MODULE Throttle ------------------------------
(***************************************************************************)
(* The Throttle middleware (src/internal/middleware/throttle.go): a         *)
(* semaphore made of a buffered channel caps the requests that are inside   *)
(* the next handler.  A request whose send blocks is parked on the          *)
(* channel's queue of senders; it gets a slot when a holder receives from   *)
(* the channel, or the status QueueTimeout configures when its timer fires. *)
(*                                                                          *)
(* The channel is the Go runtime's: a receive from a full channel with a    *)
(* parked sender completes that sender's send in the same step, oldest      *)
(* sender first, so the channel stays full.                                 *)
(***************************************************************************)
EXTENDS Integers, FiniteSets, SequencesExt

CONSTANTS
  Request,              \* the goroutines that serve requests
  MaxConcurrent,        \* cfg.MaxConcurrent as the caller gives it
  DefaultMaxConcurrent  \* DefaultThrottleConfig().MaxConcurrent

ASSUME ThrottleAssumption ==
  /\ IsFiniteSet(Request)
  /\ MaxConcurrent \in Int
  /\ DefaultMaxConcurrent \in Nat \ {0}

VARIABLES
  pc,     \* where each request is in the handler
  sem,    \* len(t.sem): the tokens in the channel's buffer
  sendq   \* the senders parked on t.sem, oldest first

vars == <<pc, sem, sendq>>

Slots == IF MaxConcurrent <= 0 THEN DefaultMaxConcurrent ELSE MaxConcurrent

Holding == {"running", "returned", "unwinding"}
Over    == {"served", "refused", "panicked"}
Holders == {r \in Request : pc[r] \in Holding}
Waiters == {r \in Request : pc[r] = "waiting"}

Init ==
  /\ pc = [r \in Request |-> "idle"]
  /\ sem = 0
  /\ sendq = <<>>

\* Fault: one more token than the buffer has room for.
AcquireOffByOne(r) ==
  /\ pc[r] = "idle"
  /\ sem <= Slots
  /\ pc' = [pc EXCEPT ![r] = "running"]
  /\ sem' = sem + 1
  /\ UNCHANGED sendq

\* The send finds room in the buffer.
Acquire(r) ==
  /\ pc[r] = "idle"
  /\ sem < Slots
  /\ pc' = [pc EXCEPT ![r] = "running"]
  /\ sem' = sem + 1
  /\ UNCHANGED sendq

\* The send finds the buffer full and parks.
Enqueue(r) ==
  /\ pc[r] = "idle"
  /\ sem >= Slots
  /\ pc' = [pc EXCEPT ![r] = "waiting"]
  /\ sendq' = Append(sendq, r)
  /\ UNCHANGED sem

\* The timer is already due when select looks at its cases: select picks
\* among the ready ones at random, so even a free slot does not help.
ExpireAtSelect(r) ==
  /\ pc[r] = "idle"
  /\ pc' = [pc EXCEPT ![r] = "refused"]
  /\ UNCHANGED <<sem, sendq>>

\* Fault: the timed-out sender stays parked.
TimeoutLeavesSender(r) ==
  /\ pc[r] = "waiting"
  /\ pc' = [pc EXCEPT ![r] = "refused"]
  /\ UNCHANGED <<sem, sendq>>

\* Fault: the select sits in a loop and the timed-out request parks again.
TimeoutRetriesSend(r) ==
  /\ pc[r] = "waiting"
  /\ \E i \in DOMAIN sendq : sendq[i] = r /\ sendq' = Append(RemoveAt(sendq, i), r)
  /\ UNCHANGED <<pc, sem>>

\* Fault: the timeout case lacks its return and falls through to the handler.
TimeoutRunsAnyway(r) ==
  /\ pc[r] = "waiting"
  /\ \E i \in DOMAIN sendq : sendq[i] = r /\ sendq' = RemoveAt(sendq, i)
  /\ pc' = [pc EXCEPT ![r] = "running"]
  /\ UNCHANGED sem

\* <-time.After(cfg.QueueTimeout) wins: the parked send is withdrawn.
QueueTimeout(r) ==
  /\ pc[r] = "waiting"
  /\ \E i \in DOMAIN sendq : sendq[i] = r /\ sendq' = RemoveAt(sendq, i)
  /\ pc' = [pc EXCEPT ![r] = "refused"]
  /\ UNCHANGED sem

\* Fault: the receive is not deferred, so a panic skips it.
PanicKeepsSlot(r) ==
  /\ pc[r] = "running"
  /\ pc' = [pc EXCEPT ![r] = "panicked"]
  /\ UNCHANGED <<sem, sendq>>

\* next.ServeHTTP returns, or panics: the deferred receive is still to run.
Return(r) ==
  /\ pc[r] = "running"
  /\ pc' = [pc EXCEPT ![r] = "returned"]
  /\ UNCHANGED <<sem, sendq>>

Panic(r) ==
  /\ pc[r] = "running"
  /\ pc' = [pc EXCEPT ![r] = "unwinding"]
  /\ UNCHANGED <<sem, sendq>>

\* Where a request goes once its deferred receive has run.
Outcome(r) == IF pc[r] = "unwinding" THEN "panicked" ELSE "served"

\* Fault: a release that does not look for parked senders.
ReleaseWakesNobody(r) ==
  /\ pc[r] \in {"returned", "unwinding"}
  /\ sem > 0
  /\ sem' = sem - 1
  /\ pc' = [pc EXCEPT ![r] = Outcome(r)]
  /\ UNCHANGED sendq

\* Fault: the slot goes to any parked sender.
ReleaseToAny(r) ==
  /\ pc[r] \in {"returned", "unwinding"}
  /\ \E i \in DOMAIN sendq :
       /\ pc' = [pc EXCEPT ![r] = Outcome(r), ![sendq[i]] = "running"]
       /\ sendq' = RemoveAt(sendq, i)
  /\ UNCHANGED sem

\* The deferred <-t.sem with no sender parked: a token leaves the buffer.
Release(r) ==
  /\ pc[r] \in {"returned", "unwinding"}
  /\ sendq = <<>>
  /\ sem > 0
  /\ sem' = sem - 1
  /\ pc' = [pc EXCEPT ![r] = Outcome(r)]
  /\ UNCHANGED sendq

\* The deferred <-t.sem with senders parked: the oldest one's send completes.
ReleaseTo(r) ==
  /\ pc[r] \in {"returned", "unwinding"}
  /\ sendq # <<>>
  /\ pc' = [pc EXCEPT ![r] = Outcome(r), ![Head(sendq)] = "running"]
  /\ sendq' = Tail(sendq)
  /\ UNCHANGED sem

\* The goroutine is done with this request; the next one starts afresh.
NextRequest(r) ==
  /\ pc[r] \in Over
  /\ pc' = [pc EXCEPT ![r] = "idle"]
  /\ UNCHANGED <<sem, sendq>>

Step(r) ==
  \/ Acquire(r) \/ Enqueue(r) \/ ExpireAtSelect(r) \/ QueueTimeout(r)
  \/ Return(r) \/ Panic(r)
  \/ Release(r) \/ ReleaseTo(r) \/ NextRequest(r)

Next == \E r \in Request : Step(r)

(***************************************************************************)
(* The timer of a parked request fires, and a deferred receive runs.  The   *)
(* next handler owes nothing: it may never return.                          *)
(***************************************************************************)
Fairness == \A r \in Request : WF_vars(QueueTimeout(r)) /\ WF_vars(Release(r) \/ ReleaseTo(r))

Spec == Init /\ [][Next]_vars
FairSpec == Spec /\ Fairness
-----------------------------------------------------------------------------
PC == {"idle", "waiting"} \cup Holding \cup Over

\* The types of the variables: the buffer never holds more tokens than its
\* capacity (throttle.go:58).
TypeOK ==
  /\ pc \in [Request -> PC]
  /\ sem \in 0..Slots
  /\ sendq \in Seq(Request)

\* Every token stands for exactly one request between its send and its
\* deferred receive: none leaks on a panic, a timeout or a hand-over, and none
\* is given back twice (throttle.go:62-70).
SlotsAccounted == sem = Cardinality(Holders)

\* A request is parked on the channel once if it is waiting, and not at all if
\* it is not: a timed-out request never receives a slot later.
QueueExact ==
  /\ ToSet(sendq) = Waiters
  /\ \A i, j \in DOMAIN sendq : sendq[i] = sendq[j] => i = j

\* No request waits while a slot is free, whatever the order of releases,
\* timeouts and arrivals (docs/middleware-throttle.md, "No slot").
FullWhileQueued == sendq # <<>> => sem = Slots

\* A request that starts running found nobody parked, or was the oldest one
\* parked: a newcomer cannot overtake those that wait.
NoOvertaking ==
  [][\A r \in Request :
       pc[r] # "running" /\ pc'[r] = "running" =>
         sendq = <<>> \/ r = Head(sendq)]_vars

\* A parked request is answered, with a slot or with the configured status,
\* even if no handler ever returns (throttle.go:61-68).
WaiterAnswered ==
  \A r \in Request : pc[r] = "waiting" ~> pc[r] \in {"running", "refused"}

\* The status of each request as the abstract limiter sees it.
LimitStatus ==
  [r \in Request |-> CASE pc[r] \in Holding   -> "inside"
                       [] pc[r] = "refused"   -> "refused"
                       [] OTHER               -> "outside"]

Limiter == INSTANCE ConcurrencyLimit WITH Limit <- Slots, status <- LimitStatus

\* The semaphore implements the abstract limiter: at most Slots requests are in
\* the next handler, and refused ones never get there.
LimitSpec == Limiter!Spec
=============================================================================
