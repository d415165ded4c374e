--------------------------- MODULE CircuitBreaker ---------------------------
(***************************************************************************)
(* The circuit breaker (src/internal/middleware/circuitbreaker.go) and the  *)
(* middleware that drives it.  Allow, RecordSuccess and RecordFailure each  *)
(* run under cb.mu, so each is one step; the upstream call between them is  *)
(* not under the lock, so any number of calls overlap and a result is       *)
(* recorded in whatever state the circuit has reached by then.              *)
(*                                                                          *)
(* Time is kept as the age of openedAt, which stops counting at             *)
(* OpenDuration: Allow only asks whether the age has reached it.            *)
(***************************************************************************)
EXTENDS Integers

CONSTANTS
  Call,          \* the goroutines that call through the middleware
  MaxFailures,   \* cfg.MaxFailures, which nothing validates
  OpenDuration,  \* cfg.OpenDuration in ticks
  FailureCap     \* bound: cb.failures stops counting here

\* The failure count at which the circuit opens: a MaxFailures below one opens
\* it at the first failure.
Threshold == IF MaxFailures < 1 THEN 1 ELSE MaxFailures

ASSUME BreakerAssumption ==
  /\ MaxFailures \in Int
  /\ OpenDuration \in Nat
  /\ FailureCap \in Nat /\ FailureCap >= Threshold

VARIABLES
  state,     \* cb.state
  failures,  \* cb.failures
  age,       \* time.Since(cb.openedAt), up to OpenDuration
  pc,        \* where each call is in the middleware
  healthy,   \* the upstream has stopped failing, for good
  outlived   \* history: the calls in flight the circuit has opened on

vars == <<state, failures, age, pc, healthy, outlived>>

InFlight == {c \in Call : pc[c] # "idle"}

Init ==
  /\ state = "Closed"
  /\ failures = 0
  /\ age = OpenDuration
  /\ pc = [c \in Call |-> "idle"]
  /\ healthy = FALSE
  /\ outlived = {}

\* Fault: half-open admits the probe and answers 503 to everybody else.
AdmitOnlyClosed(c) ==
  /\ pc[c] = "idle"
  /\ state # "Open"
  /\ IF state = "Closed" THEN pc' = [pc EXCEPT ![c] = "forwarding"] ELSE UNCHANGED pc
  /\ UNCHANGED <<state, failures, age, healthy, outlived>>

\* Allow in a state other than open.
Admit(c) ==
  /\ pc[c] = "idle"
  /\ state # "Open"
  /\ pc' = [pc EXCEPT ![c] = "forwarding"]
  /\ UNCHANGED <<state, failures, age, healthy, outlived>>

\* Fault: the circuit stays open while it lets the probe through.
ProbeStaysOpen(c) ==
  /\ pc[c] = "idle"
  /\ state = "Open" /\ age >= OpenDuration
  /\ pc' = [pc EXCEPT ![c] = "forwarding"]
  /\ UNCHANGED <<state, failures, age, healthy, outlived>>

\* Fault: the probe does not wait for OpenDuration.
ProbeEarly(c) ==
  /\ pc[c] = "idle"
  /\ state = "Open"
  /\ state' = "HalfOpen"
  /\ pc' = [pc EXCEPT ![c] = "forwarding"]
  /\ UNCHANGED <<failures, age, healthy, outlived>>

\* Allow in an open circuit whose OpenDuration has passed.
Probe(c) ==
  /\ pc[c] = "idle"
  /\ state = "Open" /\ age >= OpenDuration
  /\ state' = "HalfOpen"
  /\ pc' = [pc EXCEPT ![c] = "forwarding"]
  /\ UNCHANGED <<failures, age, healthy, outlived>>

\* Allow in an open circuit before that: the middleware answers 503 at once.
Reject(c) ==
  /\ pc[c] = "idle"
  /\ state = "Open" /\ age < OpenDuration
  /\ UNCHANGED vars

\* next.ServeHTTP returns with a status below 500, or with another one.
AnswerOK(c) ==
  /\ pc[c] = "forwarding"
  /\ pc' = [pc EXCEPT ![c] = "succeeded"]
  /\ UNCHANGED <<state, failures, age, healthy, outlived>>

AnswerError(c) ==
  /\ pc[c] = "forwarding"
  /\ ~healthy
  /\ pc' = [pc EXCEPT ![c] = "failed"]
  /\ UNCHANGED <<state, failures, age, healthy, outlived>>

\* next.ServeHTTP panics: nothing is deferred, so nothing is recorded.
Panic(c) ==
  /\ pc[c] = "forwarding"
  /\ ~healthy
  /\ pc' = [pc EXCEPT ![c] = "idle"]
  /\ outlived' = outlived \ {c}
  /\ UNCHANGED <<state, failures, age, healthy>>

\* Fault: a success forgives no failure once the circuit has opened.
SuccessKeepsFailures(c) ==
  /\ pc[c] = "succeeded"
  /\ state' = "Closed"
  /\ pc' = [pc EXCEPT ![c] = "idle"]
  /\ outlived' = outlived \ {c}
  /\ UNCHANGED <<failures, age, healthy>>

\* The circuit closes whatever its state, even on the success of a call it has
\* opened on.
RecordSuccess(c) ==
  /\ pc[c] = "succeeded"
  /\ failures' = 0
  /\ state' = "Closed"
  /\ pc' = [pc EXCEPT ![c] = "idle"]
  /\ outlived' = outlived \ {c}
  /\ UNCHANGED <<age, healthy>>

CountFailure == IF failures < FailureCap THEN failures + 1 ELSE failures

\* Fault: only a closed circuit opens, a half-open one just restarts its wait.
FailureOpensClosedOnly(c) ==
  /\ pc[c] = "failed"
  /\ failures' = CountFailure
  /\ pc' = [pc EXCEPT ![c] = "idle"]
  /\ IF CountFailure >= MaxFailures
       THEN /\ state' = IF state = "Closed" THEN "Open" ELSE state
            /\ age' = 0
            /\ outlived' = InFlight \ {c}
       ELSE UNCHANGED <<state, age>> /\ outlived' = outlived \ {c}
  /\ UNCHANGED healthy

\* A failure opens the circuit at the threshold, and restamps openedAt of a
\* circuit that is open already.
RecordFailure(c) ==
  /\ pc[c] = "failed"
  /\ failures' = CountFailure
  /\ pc' = [pc EXCEPT ![c] = "idle"]
  /\ IF CountFailure >= MaxFailures
       THEN state' = "Open" /\ age' = 0 /\ outlived' = InFlight \ {c}
       ELSE UNCHANGED <<state, age>> /\ outlived' = outlived \ {c}
  /\ UNCHANGED healthy

Tick ==
  /\ age < OpenDuration
  /\ age' = age + 1
  /\ UNCHANGED <<state, failures, pc, healthy, outlived>>

\* The upstream recovers: from here on it answers below 500.
Heal ==
  /\ ~healthy
  /\ healthy' = TRUE
  /\ UNCHANGED <<state, failures, age, pc, outlived>>

Allow(c) == Admit(c) \/ Probe(c) \/ Reject(c)
Finish(c) == RecordSuccess(c) \/ RecordFailure(c)

Next ==
  \/ \E c \in Call :
       \/ Allow(c)
       \/ AnswerOK(c) \/ AnswerError(c) \/ Panic(c)
       \/ Finish(c)
  \/ Tick
  \/ Heal

Spec == Init /\ [][Next]_vars
-----------------------------------------------------------------------------
\* The types of the variables; the history only names calls in flight.
TypeOK ==
  /\ state \in {"Closed", "Open", "HalfOpen"}
  /\ failures \in 0..FailureCap
  /\ age \in 0..OpenDuration
  /\ pc \in [Call -> {"idle", "forwarding", "succeeded", "failed"}]
  /\ healthy \in BOOLEAN
  /\ outlived \subseteq InFlight

\* The circuit is closed exactly while fewer failures than the threshold have
\* been counted since the last success, however calls overlap: it can neither
\* be stuck open on a forgiven count nor closed on one that should have opened
\* it (circuitbreaker.go:70-81).
StateMatchesFailures == state = "Closed" <=> failures < Threshold

\* The circuit is half-open only when OpenDuration has passed since the last
\* failure that opened it, late failures of overlapping calls included
\* (circuitbreaker.go:56, 79-81).
HalfOpenHasWaited == state = "HalfOpen" => age >= OpenDuration

\* While the circuit is open every call in flight was admitted before it last
\* opened: nothing gets through an open circuit (circuitbreaker.go:54-60).
OpenShutsOut == state = "Open" => InFlight = outlived

\* An open circuit changes by itself only after OpenDuration; before that, only
\* the result of a call it opened on can close it (circuitbreaker.go:56, 66-72).
OpenHolds ==
  [][state = "Open" /\ age < OpenDuration /\ state' # "Open" =>
       state' = "Closed" /\ \E c \in outlived : pc[c] = "succeeded" /\ pc'[c] = "idle"]_vars

\* Once the upstream has recovered, the circuit closes and stays closed, even
\* if a probe panicked, calls overlapped or rejections keep arriving meanwhile
\* (circuitbreaker.go:50-72).
ClosesForGood == healthy ~> [](state = "Closed")
=============================================================================
