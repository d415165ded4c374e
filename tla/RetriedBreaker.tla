--------------------------- MODULE RetriedBreaker ---------------------------
(***************************************************************************)
(* Retry around the circuit breaker, the order that docs/middleware-retry.md *)
(* recommends ("so that each retry attempt is counted as a separate call").  *)
(* Every client is a call of CircuitBreaker that goes through it once per    *)
(* attempt; the breaker's own 503 is a status that Retry retries, too.       *)
(*                                                                          *)
(* An answer below 500 is one of the upstream's or the 429 of a RateLimit    *)
(* between the breaker and the upstream.  Retry's Delay is the time, of any  *)
(* length, that a call spends before its next attempt.                      *)
(***************************************************************************)
EXTENDS CircuitBreaker, FiniteSets

CONSTANT MaxAttempts  \* RetryConfig.MaxAttempts, after its default

ASSUME RetryAssumption == MaxAttempts \in Nat \ {0} /\ IsFiniteSet(Call)

VARIABLES
  tries,  \* the attempt each call is at, 0 when it is not in Retry
  harm    \* history: failed answers since a probe or a recorded success

retryVars == <<vars, tries, harm>>

RetryInit == Init /\ tries = [c \in Call |-> 0] /\ harm = 0

Arrive(c) ==
  /\ tries[c] = 0
  /\ tries' = [tries EXCEPT ![c] = 1]
  /\ UNCHANGED <<vars, harm>>

\* next.ServeHTTP of an attempt that the breaker lets through.
Attempt(c) ==
  /\ tries[c] > 0
  /\ \/ Admit(c) /\ UNCHANGED harm
     \/ Probe(c) /\ harm' = 0
  /\ UNCHANGED tries

Ends(c) == tries' = [tries EXCEPT ![c] = 0]

\* Fault: an attempt that failed is not counted.
RetriesForever(c) == UNCHANGED tries

\* A status of RetryOn: another attempt, unless this was the last.
Retries(c) ==
  IF tries[c] < MaxAttempts THEN tries' = [tries EXCEPT ![c] = @ + 1] ELSE Ends(c)

\* What a status does depends on RetryOn: by default it has the breaker's 503 and
\* not 500, and it may have statuses that the breaker takes for a success.
AfterAttempt(c) == Retries(c) \/ Ends(c)

\* The breaker's 503.
AttemptRefused(c) ==
  /\ tries[c] > 0
  /\ Reject(c)
  /\ AfterAttempt(c)
  /\ UNCHANGED harm

UpstreamAnswers(c) ==
  /\ \/ AnswerOK(c) /\ UNCHANGED harm
     \/ AnswerError(c) /\ harm' = harm + 1
  /\ UNCHANGED tries

AttemptSucceeds(c) == RecordSuccess(c) /\ AfterAttempt(c) /\ harm' = 0

AttemptFails(c) == RecordFailure(c) /\ AfterAttempt(c) /\ UNCHANGED harm

\* The panic goes through Retry as well.
AttemptPanics(c) == Panic(c) /\ Ends(c) /\ UNCHANGED harm

Records(c) == AttemptSucceeds(c) \/ AttemptFails(c)

RetryNext ==
  \/ \E c \in Call :
       \/ Arrive(c) \/ Attempt(c) \/ AttemptRefused(c)
       \/ UpstreamAnswers(c) \/ AttemptPanics(c) \/ Records(c)
  \/ (Tick \/ Heal) /\ UNCHANGED <<tries, harm>>

RetrySpec == RetryInit /\ [][RetryNext]_retryVars

(***************************************************************************)
(* Time passes, clients keep coming, the code of both middlewares runs; an  *)
(* upstream answers once it has recovered, and owes nothing before.         *)
(***************************************************************************)
RetryFairness ==
  /\ WF_retryVars(Tick /\ UNCHANGED <<tries, harm>>)
  /\ \A c \in Call : /\ WF_retryVars(Arrive(c))
                     /\ WF_retryVars(Attempt(c) \/ AttemptRefused(c))
                     /\ WF_retryVars(healthy /\ UpstreamAnswers(c))
                     /\ WF_retryVars(Records(c))

FairRetrySpec == RetrySpec /\ RetryFairness
-----------------------------------------------------------------------------
\* However many attempts every client makes, the upstream fails a bounded
\* number of calls before a probe or a success intervenes: one short of the
\* threshold, and then those that were in flight.  This is what counting each
\* attempt as a call is for (docs/middleware-retry.md, "Interaction with
\* CircuitBreaker"; retry.go:59-75, circuitbreaker.go:74-83).
StormBounded == harm <= Threshold - 1 + Cardinality(Call)

\* Every request leaves Retry, whether the circuit refuses it, the upstream
\* fails it or both in turn, if only the upstream does not keep a call for ever
\* (retry.go:59-75).
EveryCallEnds ==
  (\A c \in Call : []<>(pc[c] # "forwarding")) =>
    \A c \in Call : tries[c] > 0 ~> tries[c] = 0
=============================================================================
