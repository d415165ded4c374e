---------------------------- MODULE BreakerProofs ----------------------------
(***************************************************************************)
(* CircuitBreaker for every set of calls, threshold and OpenDuration, and   *)
(* RetriedBreaker for every number of clients and attempts.                 *)
(*                                                                          *)
(* The four invariants of the breaker are inductive together: that a        *)
(* failure in a half-open circuit reopens it, and so keeps                  *)
(* HalfOpenHasWaited, follows from the count being at the threshold         *)
(* already; that an open circuit has no new call in flight follows from     *)
(* Probe leaving the open state.                                            *)
(*                                                                          *)
(* Under Retry the breaker is the same as far as the breaker goes, so what  *)
(* is proved of it holds there, and an outage harms a bounded number of     *)
(* calls: while the circuit is closed every failed answer is counted in     *)
(* failures or is about to be; while it is half-open the first one recorded *)
(* opens it, so all of them are about to be; and once it is open only calls *)
(* in flight can still fail.                                                *)
(***************************************************************************)
EXTENDS RetriedBreaker, FiniteSetTheorems, TLAPS

Inv == TypeOK /\ StateMatchesFailures /\ HalfOpenHasWaited /\ OpenShutsOut

LEMMA ThresholdType ==
  /\ Threshold \in Nat \ {0}
  /\ \A n \in Nat : n > 0 => (n >= MaxFailures <=> n >= Threshold)
<1>1. MaxFailures \in Int
  BY BreakerAssumption
<1>2. CASE MaxFailures < 1
  BY <1>1, <1>2 DEF Threshold
<1>3. CASE ~(MaxFailures < 1)
  BY <1>1, <1>3 DEF Threshold
<1> QED BY <1>2, <1>3

LEMMA InitInv == Init => Inv
<1> SUFFICES ASSUME Init PROVE Inv
  OBVIOUS
<1>1. /\ OpenDuration \in Nat /\ FailureCap \in Nat
      /\ Threshold \in Nat \ {0}
  BY BreakerAssumption, ThresholdType
<1>2. TypeOK
  <2>1. failures \in 0..FailureCap /\ age \in 0..OpenDuration
    BY <1>1 DEF Init
  <2> QED BY <2>1 DEF Init, TypeOK
<1>3. StateMatchesFailures /\ HalfOpenHasWaited /\ OpenShutsOut
  BY <1>1 DEF Init, StateMatchesFailures, HalfOpenHasWaited, OpenShutsOut
<1> QED BY <1>2, <1>3 DEF Inv

\* What one more failure makes of the count.
LEMMA CountFailureFacts ==
  ASSUME TypeOK
  PROVE  /\ CountFailure \in 0..FailureCap
         /\ CountFailure > 0
         /\ CountFailure >= failures
         /\ CountFailure >= MaxFailures <=> CountFailure >= Threshold
BY BreakerAssumption, ThresholdType DEF TypeOK, CountFailure

LEMMA NextInv == Inv /\ [Next]_vars => Inv'
<1> SUFFICES ASSUME Inv, [Next]_vars PROVE Inv'
  OBVIOUS
<1>0. /\ TypeOK /\ StateMatchesFailures /\ HalfOpenHasWaited /\ OpenShutsOut
      /\ OpenDuration \in Nat /\ FailureCap \in Nat
      /\ Threshold \in Nat \ {0} /\ FailureCap >= Threshold
  BY BreakerAssumption, ThresholdType DEF Inv
<1> USE DEF TypeOK, StateMatchesFailures, HalfOpenHasWaited, OpenShutsOut, InFlight
<1>1. ASSUME NEW c \in Call, Admit(c) PROVE Inv'
  BY <1>0, <1>1 DEF Admit, Inv
<1>2. ASSUME NEW c \in Call, Probe(c) PROVE Inv'
  BY <1>0, <1>2 DEF Probe, Inv
<1>3. ASSUME NEW c \in Call, AnswerOK(c) \/ AnswerError(c) PROVE Inv'
  BY <1>0, <1>3 DEF AnswerOK, AnswerError, Inv
<1>4. ASSUME NEW c \in Call, Panic(c) PROVE Inv'
  BY <1>0, <1>4 DEF Panic, Inv
<1>5. ASSUME NEW c \in Call, RecordSuccess(c) PROVE Inv'
  BY <1>0, <1>5 DEF RecordSuccess, Inv
<1>6. ASSUME NEW c \in Call, RecordFailure(c) PROVE Inv'
  <2>1. /\ CountFailure \in 0..FailureCap
        /\ CountFailure >= failures
        /\ CountFailure >= MaxFailures <=> CountFailure >= Threshold
    BY <1>0, CountFailureFacts
  <2> HIDE DEF CountFailure
  <2>2. CASE CountFailure >= MaxFailures
    BY <1>0, <1>6, <2>1, <2>2 DEF RecordFailure, Inv
  <2>3. CASE ~(CountFailure >= MaxFailures)
    <3>1. state = "Closed"
      BY <1>0, <2>1, <2>3
    <3> QED BY <1>0, <1>6, <2>1, <2>3, <3>1 DEF RecordFailure, Inv
  <2> QED BY <2>2, <2>3
<1>7. ASSUME Tick PROVE Inv'
  BY <1>0, <1>7 DEF Tick, Inv
<1>8. ASSUME Heal PROVE Inv'
  BY <1>0, <1>8 DEF Heal, Inv
<1>9. ASSUME UNCHANGED vars PROVE Inv'
  BY <1>0, <1>9 DEF vars, Inv
<1> QED
  BY <1>1, <1>2, <1>3, <1>4, <1>5, <1>6, <1>7, <1>8, <1>9
  DEF Next, Allow, Finish, Reject

\* Every invariant of the circuit holds in every reachable state.
THEOREM InvHolds == Spec => []Inv
BY InitInv, NextInv, PTL DEF Spec

\* The variables keep their types.
THEOREM TypeCorrect == Spec => []TypeOK
BY InvHolds, PTL DEF Inv

\* The circuit is closed exactly below the threshold, for any overlap of calls
\* and any MaxFailures, zero and negative ones included.
THEOREM StateMatches == Spec => []StateMatchesFailures
BY InvHolds, PTL DEF Inv

\* No probe is admitted before OpenDuration has passed since the last failure.
THEOREM ProbesWait == Spec => []HalfOpenHasWaited
BY InvHolds, PTL DEF Inv

\* Nothing in flight behind an open circuit was admitted since it opened.
THEOREM OpenCircuitShutsOut == Spec => []OpenShutsOut
BY InvHolds, PTL DEF Inv

\* Before OpenDuration has passed, an open circuit gives way only to the success
\* of a call it has opened on.
THEOREM OpenCircuitHolds == Spec => OpenHolds
<1> DEFINE A == state = "Open" /\ age < OpenDuration /\ state' # "Open" =>
                  state' = "Closed" /\ \E c \in outlived : pc[c] = "succeeded" /\ pc'[c] = "idle"
<1>1. Inv /\ [Next]_vars => [A]_vars
  <2> SUFFICES ASSUME Inv, Next, state = "Open", age < OpenDuration, state' # "Open"
               PROVE  state' = "Closed" /\ \E c \in outlived : pc[c] = "succeeded" /\ pc'[c] = "idle"
    OBVIOUS
  <2>1. age \in Int /\ OpenDuration \in Int /\ InFlight = outlived
    BY BreakerAssumption DEF Inv, TypeOK, OpenShutsOut
  <2>2. PICK c \in Call : RecordSuccess(c)
    BY <2>1
    DEF Next, Allow, Finish, Admit, Probe, Reject, AnswerOK, AnswerError, Panic,
        RecordFailure, Tick, Heal, vars
  <2>3. c \in outlived
    BY <2>1, <2>2 DEF RecordSuccess, InFlight
  <2>4. state' = "Closed" /\ pc[c] = "succeeded" /\ pc'[c] = "idle"
    BY <2>2 DEF RecordSuccess, Inv, TypeOK
  <2> QED BY <2>3, <2>4
<1> QED
  BY InvHolds, <1>1, PTL DEF Spec, OpenHolds, A
-----------------------------------------------------------------------------
At(where) == {c \in Call : pc[c] = where}

\* What the failed answers of the outage are bounded by in each state.
HarmAccounted ==
  /\ harm \in Nat
  /\ state = "Closed" => harm <= failures + Cardinality(At("failed"))
  /\ state = "HalfOpen" => harm <= Cardinality(At("failed"))
  /\ state = "Open" => harm + Cardinality(At("forwarding")) <= Threshold - 1 + Cardinality(Call)

RInv == Inv /\ HarmAccounted

LEMMA StepIsBreakerStep == [RetryNext]_retryVars => [Next]_vars
BY DEF RetryNext, retryVars, Next, Allow, Finish, Arrive, Attempt, AttemptRefused, UpstreamAnswers,
       AttemptSucceeds, AttemptFails, AttemptPanics, Records, Reject, vars

\* Retry changes nothing of the breaker but by calling it: every behaviour of
\* the composition is one of the breaker.
THEOREM ImplementsBreaker == RetrySpec => Spec
BY StepIsBreakerStep, PTL DEF RetrySpec, RetryInit, Spec

\* The breaker keeps its promises under Retry.
THEOREM BreakerHoldsUnderRetry ==
  RetrySpec => /\ [](StateMatchesFailures /\ HalfOpenHasWaited /\ OpenShutsOut)
               /\ OpenHolds
BY ImplementsBreaker, StateMatches, ProbesWait, OpenCircuitShutsOut, OpenCircuitHolds, PTL

\* The four sets of calls are finite, and those in two of them are not more
\* than all.
LEMMA AtFacts ==
  ASSUME NEW a, NEW b, a # b
  PROVE  /\ IsFiniteSet(At(a)) /\ Cardinality(At(a)) \in Nat
         /\ Cardinality(Call) \in Nat
         /\ Cardinality(At(a)) + Cardinality(At(b)) <= Cardinality(Call)
<1>1. IsFiniteSet(Call) /\ At(a) \subseteq Call /\ At(b) \subseteq Call
  BY RetryAssumption DEF At
<1>2. /\ IsFiniteSet(At(a)) /\ IsFiniteSet(At(b)) /\ At(a) \cap At(b) = {}
      /\ At(a) \cup At(b) \subseteq Call
  BY <1>1, FS_Subset DEF At
<1>3. Cardinality(At(a) \cup At(b)) = Cardinality(At(a)) + Cardinality(At(b)) - Cardinality(At(a) \cap At(b))
  BY <1>2, FS_Union
<1>4. Cardinality(At(a) \cup At(b)) <= Cardinality(Call)
  BY <1>1, <1>2, FS_Subset
<1>5. /\ Cardinality(At(a)) \in Nat /\ Cardinality(At(b)) \in Nat /\ Cardinality(Call) \in Nat
      /\ Cardinality(At(a) \cap At(b)) = 0
  BY <1>1, <1>2, FS_CardinalityType, FS_EmptySet
<1> QED BY <1>2, <1>3, <1>4, <1>5

\* A call that goes from one place to another is taken from the first set and
\* added to the second.
LEMMA Moves ==
  ASSUME pc \in [Call -> {"idle", "forwarding", "succeeded", "failed"}], NEW c \in Call,
         NEW a, NEW b, pc[c] = a, a # b, pc' = [pc EXCEPT ![c] = b]
  PROVE  /\ Cardinality(At(a)') = Cardinality(At(a)) - 1
         /\ Cardinality(At(b)') = Cardinality(At(b)) + 1
<1>1. /\ At(a)' = At(a) \ {c} /\ c \in At(a)
      /\ At(b)' = At(b) \cup {c} /\ c \notin At(b)
  BY DEF At
<1>2. IsFiniteSet(At(a)) /\ IsFiniteSet(At(b))
  BY AtFacts
<1>3. /\ Cardinality(At(a) \ {c}) = Cardinality(At(a)) - 1
      /\ Cardinality(At(b) \cup {c}) = Cardinality(At(b)) + 1
  BY <1>1, <1>2, FS_RemoveElement, FS_AddElement
<1> QED BY <1>1, <1>3

LEMMA RInitInv == RetryInit => RInv
<1> SUFFICES ASSUME RetryInit PROVE RInv
  OBVIOUS
<1>1. Inv /\ state = "Closed" /\ failures = 0 /\ harm = 0
  BY InitInv DEF RetryInit, Init
<1>2. Cardinality(At("failed")) \in Nat
  BY AtFacts, "failed" # "idle"
<1> QED BY <1>1, <1>2 DEF RInv, HarmAccounted

LEMMA RNextInv == RInv /\ [RetryNext]_retryVars => RInv'
<1> SUFFICES ASSUME RInv, [RetryNext]_retryVars PROVE HarmAccounted'
  BY StepIsBreakerStep, NextInv DEF RInv
<1> DEFINE Fwd == Cardinality(At("forwarding"))
           Bad == Cardinality(At("failed"))
<1>1. /\ TypeOK /\ StateMatchesFailures /\ HarmAccounted
      /\ pc \in [Call -> {"idle", "forwarding", "succeeded", "failed"}]
      /\ failures \in Nat /\ harm \in Nat /\ Threshold \in Nat \ {0}
      /\ FailureCap \in Nat /\ FailureCap >= Threshold /\ failures <= FailureCap
  BY BreakerAssumption, ThresholdType DEF RInv, Inv, HarmAccounted, TypeOK
<1>2. /\ Fwd \in Nat /\ Bad \in Nat /\ Cardinality(Call) \in Nat
      /\ Fwd + Bad <= Cardinality(Call)
  BY AtFacts, "forwarding" # "failed"
<1> USE DEF HarmAccounted
<1>3. ASSUME NEW c \in Call, Attempt(c) PROVE HarmAccounted'
  <2>1. Bad' = Bad
    BY <1>1, <1>3 DEF Attempt, Admit, Probe, At
  <2>2. CASE Admit(c) /\ UNCHANGED harm
    BY <1>1, <1>2, <2>1, <2>2 DEF Admit
  <2>3. CASE Probe(c) /\ harm' = 0
    BY <1>1, <1>2, <2>1, <2>3 DEF Probe
  <2> QED BY <1>3, <2>2, <2>3 DEF Attempt
<1>4. ASSUME NEW c \in Call, UpstreamAnswers(c) PROVE HarmAccounted'
  <2>1. CASE AnswerOK(c) /\ UNCHANGED harm
    <3>1. pc[c] = "forwarding" /\ pc' = [pc EXCEPT ![c] = "succeeded"]
      BY <2>1 DEF AnswerOK
    <3>2. Fwd' = Fwd - 1
      BY <1>1, <3>1, Moves
    <3>3. At("failed")' = At("failed")
      BY <1>1, <3>1 DEF At
    <3> QED BY <1>1, <1>2, <2>1, <3>2, <3>3 DEF AnswerOK
  <2>2. CASE AnswerError(c) /\ harm' = harm + 1
    <3>1. pc[c] = "forwarding" /\ pc' = [pc EXCEPT ![c] = "failed"]
      BY <2>2 DEF AnswerError
    <3>2. Fwd' = Fwd - 1 /\ Bad' = Bad + 1
      BY <1>1, <3>1, Moves
    <3> QED BY <1>1, <1>2, <2>2, <3>2 DEF AnswerError
  <2> QED BY <1>4, <2>1, <2>2 DEF UpstreamAnswers
<1>5. ASSUME NEW c \in Call, AttemptPanics(c) PROVE HarmAccounted'
  <2>1. pc[c] = "forwarding" /\ pc' = [pc EXCEPT ![c] = "idle"]
    BY <1>5 DEF AttemptPanics, Panic
  <2>2. Fwd' = Fwd - 1
    BY <1>1, <2>1, Moves
  <2>3. At("failed")' = At("failed")
    BY <1>1, <2>1 DEF At
  <2> QED BY <1>1, <1>2, <1>5, <2>2, <2>3 DEF AttemptPanics, Panic
<1>6. ASSUME NEW c \in Call, AttemptSucceeds(c) PROVE HarmAccounted'
  <2>1. pc[c] = "succeeded" /\ pc' = [pc EXCEPT ![c] = "idle"]
    BY <1>6 DEF AttemptSucceeds, RecordSuccess
  <2>2. At("failed")' = At("failed")
    BY <1>1, <2>1 DEF At
  <2> QED BY <1>1, <1>2, <1>6, <2>2 DEF AttemptSucceeds, RecordSuccess
<1>7. ASSUME NEW c \in Call, AttemptFails(c) PROVE HarmAccounted'
  <2>0. pc[c] = "failed" /\ pc' = [pc EXCEPT ![c] = "idle"]
    BY <1>7 DEF AttemptFails, RecordFailure
  <2>1. Bad' = Bad - 1
    BY <1>1, <2>0, Moves
  <2>7. At("forwarding")' = At("forwarding")
    BY <1>1, <2>0 DEF At
  <2>2. CountFailure >= MaxFailures <=> CountFailure >= Threshold
    BY <1>1, CountFailureFacts
  <2>3. UNCHANGED harm /\ failures' = CountFailure
    BY <1>7 DEF AttemptFails, RecordFailure
  <2>4. CASE CountFailure >= Threshold
    <3>1. state' = "Open"
      BY <1>7, <2>2, <2>4 DEF AttemptFails, RecordFailure
    <3>2. state = "Closed" => failures <= Threshold - 1
      BY <1>1 DEF StateMatchesFailures
    <3>3. state \in {"Closed", "Open", "HalfOpen"}
      BY <1>1 DEF TypeOK
    <3> QED BY <1>1, <1>2, <2>1, <2>3, <2>7, <3>1, <3>2, <3>3
  <2>5. CASE ~(CountFailure >= Threshold)
    <3>1. UNCHANGED state /\ CountFailure = failures + 1
      BY <1>1, <1>7, <2>2, <2>5 DEF AttemptFails, RecordFailure, CountFailure
    <3>2. state = "Closed"
      BY <1>1, <2>5, <3>1 DEF StateMatchesFailures
    <3> QED BY <1>1, <1>2, <2>1, <2>3, <3>1, <3>2
  <2> QED BY <2>4, <2>5
<1>8. ASSUME UNCHANGED <<state, failures, pc, harm>> PROVE HarmAccounted'
  BY <1>1, <1>8 DEF At
<1> QED
  BY <1>3, <1>4, <1>5, <1>6, <1>7, <1>8
  DEF RetryNext, retryVars, vars, Arrive, AttemptRefused, Reject, Records, Tick, Heal

\* The failed answers of an outage are bounded, whatever MaxAttempts is and
\* however many clients there are.
THEOREM StormIsBounded == RetrySpec => []StormBounded
<1>1. RInv => StormBounded
  <2> SUFFICES ASSUME RInv PROVE StormBounded
    OBVIOUS
  <2>1. /\ TypeOK /\ StateMatchesFailures /\ HarmAccounted
        /\ failures \in Nat /\ Threshold \in Nat \ {0}
    BY BreakerAssumption, ThresholdType DEF RInv, Inv, TypeOK
  <2>2. /\ Cardinality(At("forwarding")) \in Nat /\ Cardinality(At("failed")) \in Nat
        /\ Cardinality(Call) \in Nat
        /\ Cardinality(At("forwarding")) + Cardinality(At("failed")) <= Cardinality(Call)
    BY AtFacts, "forwarding" # "failed"
  <2>3. state \in {"Closed", "Open", "HalfOpen"} /\ (state = "Closed" => failures <= Threshold - 1)
    BY <2>1 DEF TypeOK, StateMatchesFailures
  <2> QED BY <2>1, <2>2, <2>3 DEF HarmAccounted, StormBounded
<1> QED BY RInitInv, RNextInv, <1>1, PTL DEF RetrySpec
=============================================================================
