--------------------------- MODULE TimeoutProofs ---------------------------
(***************************************************************************)
(* What a timer bounds: ThrottledTimeout for every set of requests, every   *)
(* MaxConcurrent and both nestings, and HealthProbe for any number of       *)
(* requests and connections and any Timeout.                                *)
(*                                                                          *)
(* ThrottledTimeout is a Throttle to which the timeout adds nothing: each   *)
(* of its steps is one of the throttle's or leaves the throttle alone, so   *)
(* what is proved of the throttle carries over.  The rest is two invariants *)
(* of the timeout: one per request about who has written to its response,   *)
(* one that ties the place of the handler to the place in the throttle.     *)
(*                                                                          *)
(* HealthProbe: a timer runs for every connection that is in use, since     *)
(* each probe has one of its own and only closing the connection stops it.  *)
(***************************************************************************)
EXTENDS ThrottledTimeout, HealthProbe, TLAPS, FiniteSetTheorems, SequenceTheorems

TP == INSTANCE ThrottleProofs

USE ThrottledAssumption

\* The throttle of the composition is the one of ThrottleProofs, whose instance
\* brings its own copy of the library operators.
LEMMA SameThrottle ==
  /\ TP!ThrottleAssumption
  /\ T!Slots = TP!Slots /\ T!Holders = TP!Holders /\ T!Holding = TP!Holding
  /\ \A S : Cardinality(S) = TP!Cardinality(S)
<1>1. \A S : IsFiniteSet(S) <=> TP!IsFiniteSet(S)
  BY DEF IsFiniteSet, TP!IsFiniteSet
<1>2. \A S : Cardinality(S) = TP!Cardinality(S)
  BY DEF Cardinality, TP!Cardinality
<1>3. T!Slots = TP!Slots /\ T!Holders = TP!Holders /\ T!Holding = TP!Holding
  BY DEF T!Slots, TP!Slots, T!Holders, TP!Holders, T!Holding, TP!Holding
<1> QED BY <1>1, <1>2, <1>3 DEF TP!ThrottleAssumption

\* Whatever the order of the two middlewares, and whatever the timeout and its
\* handlers do, the semaphore and its queue go through the steps of a throttle
\* (throttle.go:61-71 inside or around timeout.go:44-57).
THEOREM ImplementsThrottle == Spec => TP!Spec
<1>1. Init => TP!Init
  BY DEF Init, T!Init, TP!Init
<1>2. [Next]_vars => [TP!Next]_queueVars
  <2> SUFFICES ASSUME [Next]_vars PROVE [TP!Next]_queueVars
    OBVIOUS
  <2>1. ASSUME NEW r \in Request, ThrottleStep(r) PROVE TP!Next
    <3>1. CASE T!Acquire(r) \/ T!Enqueue(r) \/ T!ExpireAtSelect(r)
      BY <3>1, SameThrottle
      DEF T!Acquire, TP!Acquire, T!Enqueue, TP!Enqueue, T!ExpireAtSelect, TP!ExpireAtSelect,
          TP!Next, TP!Step
    <3>2. CASE T!QueueTimeout(r)
      BY <3>2 DEF T!QueueTimeout, TP!QueueTimeout, T!RemoveAt, TP!RemoveAt, TP!Next, TP!Step
    <3>3. CASE T!Release(r) \/ T!ReleaseTo(r)
      BY <3>3
      DEF T!Release, TP!Release, T!ReleaseTo, TP!ReleaseTo, T!Outcome, TP!Outcome, TP!Next, TP!Step
    <3> QED BY <2>1, <3>1, <3>2, <3>3 DEF ThrottleStep
  <2>2. ASSUME NEW r \in Request, LeaveSlot(r) \/ ReturnToThrottle(r) PROVE TP!Next
    BY <2>2 DEF LeaveSlot, ReturnToThrottle, T!Return, TP!Return, TP!Next, TP!Step
  <2>3. ASSUME NEW r \in Request, HandlerPanics(r) PROVE [TP!Next]_queueVars
    BY <2>3 DEF HandlerPanics, T!Panic, TP!Panic, TP!Next, TP!Step
  <2>4. ASSUME NEW r \in Request,
               \/ EnterTimeout(r) \/ Deadline(r) \/ ServeStep(r)
               \/ EndGoroutine(r) \/ CrashStep(r) \/ WorkStep(r) \/ LeaveTimeout(r)
        PROVE  UNCHANGED queueVars
    BY <2>4 DEF EnterTimeout, Deadline, ServeStep, EndGoroutine, CrashStep, WorkStep, LeaveTimeout
  <2>5. CASE UNCHANGED vars
    BY <2>5 DEF vars
  <2> QED BY <2>1, <2>2, <2>3, <2>4, <2>5 DEF Next, HandlerStep
<1> QED BY <1>1, <1>2, PTL DEF Spec, TP!Spec, TP!vars, queueVars

\* What the throttle's own proof gives, here.
LEMMA ThrottleHolds == Spec => []TP!Inv
BY TP!InvHolds, SameThrottle, ImplementsThrottle, PTL

-----------------------------------------------------------------------------
\* Where the handler is, against where the throttle inside the timeout has it: it
\* is at work only between the send and the receive of the request.
Nested == \A r \in Request : TimeoutOutside =>
  /\ handler[r] = "none" => pc[r] = "idle"
  /\ handler[r] \in Busy \cup {"heading"} =>
       pc[r] \in {"idle", "waiting", "refused", "running"}

\* The state of the timeout around it.
Placed ==
  /\ pc \in [Request -> TP!PC]
  /\ main \in [Request -> {"idle", "selecting", "checking", "refusing", "explaining", "returned"}]
  /\ handler \in [Request -> Busy \cup {"none", "heading", "leaving", "dying", "gone", "dead"}]
  /\ \A r \in Request : main[r] = "idle" => handler[r] = "none"

LEMMA NestedInit == Init => Nested /\ Placed
<1> SUFFICES ASSUME Init PROVE Nested /\ Placed
  OBVIOUS
<1>1. /\ pc = [r \in Request |-> "idle"] /\ main = [r \in Request |-> "idle"]
      /\ handler = [r \in Request |-> "none"]
  BY DEF Init, TimeoutInit, T!Init
<1> QED BY <1>1 DEF Nested, Placed, TP!PC, Busy

\* One step of one request; a release may also move the head of the queue.
LEMMA NestedNext == Nested /\ Placed /\ TP!Inv /\ [Next]_vars => Nested' /\ Placed'
<1> SUFFICES ASSUME Nested, Placed, TP!Inv, [Next]_vars PROVE Nested' /\ Placed'
  OBVIOUS
<1> USE DEF Placed, Busy, TimeoutOutside, ThrottleOutside, TP!PC, TP!Holding, TP!Over
<1>1. ASSUME NEW r \in Request, ThrottleStep(r) PROVE Nested' /\ Placed'
  <2>1. UNCHANGED <<order, main, handler>> /\ (TimeoutOutside => handler[r] # "none")
    BY <1>1 DEF ThrottleStep, tvars
  <2>2. CASE T!Acquire(r) \/ T!Enqueue(r) \/ T!ExpireAtSelect(r)
    BY <2>1, <2>2 DEF T!Acquire, T!Enqueue, T!ExpireAtSelect, Nested
  <2>3. CASE T!QueueTimeout(r)
    BY <2>1, <2>3 DEF T!QueueTimeout, Nested
  <2>4. CASE T!Release(r)
    BY <2>1, <2>4 DEF T!Release, T!Outcome, Nested
  <2>5. CASE T!ReleaseTo(r)
    <3>1. Head(sendq) \in Request /\ pc[Head(sendq)] = "waiting"
      <4>1. sendq \in Seq(Request) /\ sendq # <<>>
        BY <2>5 DEF TP!Inv, TP!TypeOK, T!ReleaseTo
      <4>2. 1 \in DOMAIN sendq /\ Head(sendq) = sendq[1]
        BY <4>1
      <4> QED BY <4>2 DEF TP!Inv, TP!QueueExact, TP!ToSet, TP!Waiters
    <3> QED BY <2>1, <2>5, <3>1 DEF T!ReleaseTo, T!Outcome, Nested
  <2> QED BY <1>1, <2>2, <2>3, <2>4, <2>5 DEF ThrottleStep
<1>2. ASSUME NEW r \in Request, EnterTimeout(r) PROVE Nested' /\ Placed'
  BY <1>2 DEF EnterTimeout, Start, queueVars, Nested
<1>3. ASSUME NEW r \in Request, Deadline(r) \/ ServeStep(r) \/ CrashStep(r)
      PROVE  Nested' /\ Placed'
  <2>1. CASE Deadline(r) \/ CrashStep(r)
    BY <2>1 DEF Deadline, Expire, CrashStep, Crash, queueVars, Nested
  <2>2. CASE ServeStep(r)
    <3>1. /\ UNCHANGED <<order, pc, handler>> /\ main[r] # "idle"
          /\ \E m \in {"checking", "refusing", "explaining", "returned"} : main' = [main EXCEPT ![r] = m]
      BY <2>2
      DEF ServeStep, Serve, SelectDone, SelectExpired, CheckUnwritten, CheckWritten, RefuseHeader,
          RefuseBody, Returns, queueVars
    <3> QED BY <3>1 DEF Nested
  <2> QED BY <1>3, <2>1, <2>2
<1>4. ASSUME NEW r \in Request, WorkStep(r) PROVE Nested' /\ Placed'
  <2>1. /\ UNCHANGED <<order, pc, main>> /\ (TimeoutOutside => pc[r] \in {"running", "refused"})
        /\ main[r] # "idle"
        /\ \E h \in {"heading", "headed", "bodied"} : handler' = [handler EXCEPT ![r] = h]
    BY <1>4 DEF WorkStep, Work, Announce, HandlerHeader, HandlerBody, queueVars
  <2> QED BY <2>1 DEF Nested
<1>5. ASSUME NEW r \in Request, LeaveSlot(r) \/ LeaveTimeout(r) PROVE Nested' /\ Placed'
  BY <1>5 DEF LeaveSlot, T!Return, LeaveTimeout, HandlerReturn, queueVars, Nested
<1>6. ASSUME NEW r \in Request, HandlerPanics(r) PROVE Nested' /\ Placed'
  BY <1>6 DEF HandlerPanics, T!Panic, HandlerPanic, queueVars, Nested
<1>7. ASSUME NEW r \in Request, EndGoroutine(r) PROVE Nested' /\ Placed'
  BY <1>7 DEF EndGoroutine, CloseDone, queueVars, Nested
<1>8. ASSUME NEW r \in Request, ReturnToThrottle(r) PROVE Nested' /\ Placed'
  BY <1>8 DEF ReturnToThrottle, T!Return, tvars, Nested
<1>9. CASE UNCHANGED vars
  BY <1>9 DEF vars, tvars, queueVars, Nested
<1> QED
  BY <1>1, <1>2, <1>3, <1>4, <1>5, <1>6, <1>7, <1>8, <1>9 DEF Next, HandlerStep

\* However many clients have been answered 504, the handlers still at work hold
\* a slot each, so there are never more of them than MaxConcurrent, for any number
\* of requests (throttle.go:69-70 on the goroutine of timeout.go:44-47).
THEOREM HandlersAreCapped == Spec => []HandlersCapped
<1>1. Nested /\ Placed /\ TP!Inv => HandlersCapped
  <2> SUFFICES ASSUME Nested, Placed, TP!Inv, TimeoutOutside
               PROVE  Cardinality(InHandler) <= T!Slots
    BY DEF HandlersCapped
  <2>1. InHandler \subseteq T!Holders
    BY DEF InHandler, Nested, T!Holders, T!Holding
  <2>2. IsFiniteSet(T!Holders)
    BY FS_Subset DEF T!Holders, ThrottledAssumption
  <2>3. /\ Cardinality(InHandler) \in Nat /\ Cardinality(T!Holders) \in Nat
        /\ Cardinality(InHandler) <= Cardinality(T!Holders)
    BY <2>1, <2>2, FS_Subset, FS_CardinalityType
  <2>4. T!Slots \in Nat /\ sem \in 0..T!Slots /\ sem = Cardinality(T!Holders)
    BY SameThrottle, TP!SlotsType DEF TP!Inv, TP!TypeOK, TP!SlotsAccounted
  <2> QED BY <2>3, <2>4
<1> QED BY <1>1, NestedInit, NestedNext, ThrottleHolds, PTL DEF Spec
-----------------------------------------------------------------------------
Response(statuses, chunks) ==
  [status: statuses, header: {{}}, sent: {{}}, body: Seq(chunks)]

Any == Response(Nat, {"handler", "timeout"})
\* What the handler alone has made of its response.
Own == Response({0, 200}, {"handler"})

\* Who has written: before the select nobody but the handler; where done won,
\* nobody but the handler, which has ended by then.
Unspoilt ==
  /\ resp \in [Request -> Any] /\ via \in [Request -> {"none", "done", "expired"}]
  /\ done \in [Request -> BOOLEAN]
  /\ \A r \in Request :
       /\ done[r] => handler[r] \in {"gone", "dead"}
       /\ via[r] = "none" <=> main[r] \in {"idle", "selecting"}
       /\ via[r] = "done" => main[r] = "returned" /\ done[r] /\ resp[r].status = 200
       /\ via[r] # "expired" => resp[r] \in Own /\ r \notin late

LEMMA WriterFacts ==
  ASSUME NEW w \in Any, NEW code \in Nat \ {0}, NEW chunk \in {"handler", "timeout"}
  PROVE  /\ WriteHeader(w, code) \in Any /\ Write(w, chunk) \in Any /\ Finished(w) \in Any
         /\ Finished(w).status # 0
         /\ w \in Own => /\ WriteHeader(w, 200) \in Own /\ Write(w, "handler") \in Own
                         /\ Finished(w) \in Own
<1> USE DEF Any, Own, Response
<1>1. ASSUME NEW c \in Nat \ {0}
      PROVE  /\ WriteHeader(w, c) \in Any /\ WriteHeader(w, c).status # 0
             /\ WriteHeader(w, c).body = w.body
             /\ w \in Own /\ c = 200 => WriteHeader(w, c) \in Own
  BY <1>1 DEF WriteHeader
<1>2. PICK v \in Any : v = WriteHeader(w, 200) /\ v.body = w.body /\ (w \in Own => v \in Own)
  <2>1. 200 \in Nat \ {0}
    OBVIOUS
  <2> QED BY <1>1, <2>1
<1>3. ASSUME NEW c \in {"handler", "timeout"}
      PROVE  Write(w, c) = [v EXCEPT !.body = Append(v.body, c)]
  BY <1>2 DEF Write
<1>4. Write(w, chunk) \in Any
  <2>1. Append(v.body, chunk) \in Seq({"handler", "timeout"})
    OBVIOUS
  <2> QED BY <1>3, <2>1
<1>5. ASSUME w \in Own PROVE Write(w, "handler") \in Own
  <2>1. v \in Own /\ Append(v.body, "handler") \in Seq({"handler"})
    BY <1>2, <1>5
  <2>2. Write(w, "handler") = [v EXCEPT !.body = Append(v.body, "handler")]
    BY <1>3
  <2>3. [v EXCEPT !.body = Append(v.body, "handler")] \in Own
    BY <2>1
  <2> QED BY <2>2, <2>3
<1>6. WriteHeader(w, code) \in Any
  BY <1>1
<1>7. /\ Finished(w) \in Any /\ Finished(w).status # 0
      /\ w \in Own => WriteHeader(w, 200) \in Own /\ Finished(w) \in Own
  <2>1. Finished(w) = v
    BY <1>2 DEF Finished
  <2>2. WriteHeader(w, 200).status # 0
    BY <1>1, 200 \in Nat \ {0}
  <2> QED BY <1>2, <2>1, <2>2
<1> QED BY <1>4, <1>5, <1>6, <1>7

LEMMA UnspoiltInit == Init => Unspoilt
<1> SUFFICES ASSUME Init PROVE Unspoilt
  OBVIOUS
<1>1. FreshResponse \in Any /\ FreshResponse \in Own
  BY DEF FreshResponse, Any, Own, Response
<1> QED BY <1>1 DEF Init, TimeoutInit, Unspoilt

LEMMA UnspoiltNext == Placed /\ Unspoilt /\ [Next]_vars => Unspoilt'
<1> SUFFICES ASSUME Placed, Unspoilt, [Next]_vars PROVE Unspoilt'
  OBVIOUS
<1> USE DEF Unspoilt, Placed, Busy
\* The steps that leave every response alone.
<1>1. ASSUME NEW r \in Request,
             \/ ThrottleStep(r) \/ ReturnToThrottle(r) \/ Deadline(r) \/ CrashStep(r)
             \/ EnterTimeout(r) \/ LeaveSlot(r) \/ LeaveTimeout(r) \/ HandlerPanics(r)
      PROVE  Unspoilt'
  <2>1. CASE ThrottleStep(r) \/ ReturnToThrottle(r)
    BY <2>1 DEF ThrottleStep, ReturnToThrottle, tvars
  <2>2. CASE Deadline(r) \/ CrashStep(r)
    BY <2>2 DEF Deadline, Expire, CrashStep, Crash
  <2>3. CASE EnterTimeout(r)
    BY <2>3 DEF EnterTimeout, Start
  <2>4. CASE LeaveSlot(r) \/ LeaveTimeout(r) \/ HandlerPanics(r)
    BY <2>4 DEF LeaveSlot, LeaveTimeout, HandlerReturn, HandlerPanics, HandlerPanic
  <2> QED BY <1>1, <2>1, <2>2, <2>3, <2>4
<1>2. ASSUME NEW r \in Request, EndGoroutine(r) PROVE Unspoilt'
  BY <1>2 DEF EndGoroutine, CloseDone
<1>3. ASSUME NEW r \in Request, WorkStep(r) PROVE Unspoilt'
  <2>1. CASE Announce(r)
    BY <2>1 DEF Announce
  <2>2. CASE HandlerHeader(r) \/ HandlerBody(r)
    <3>1. PICK w \in Any : /\ Delivered(r, w)
                           /\ resp[r] \in Own => w \in Own
      BY <2>2, WriterFacts DEF HandlerHeader, HandlerBody
    <3>2. /\ UNCHANGED <<main, via, done>> /\ ~done[r]
          /\ \E h \in {"headed", "bodied"} : handler' = [handler EXCEPT ![r] = h]
      BY <2>2 DEF HandlerHeader, HandlerBody
    <3>3. via[r] # "none" \/ main[r] # "returned"
      OBVIOUS
    <3>4. via[r] # "done"
      BY <3>2
    <3> QED BY <3>1, <3>2, <3>3, <3>4 DEF Delivered
  <2> QED BY <1>3, <2>1, <2>2 DEF WorkStep, Work
<1>4. ASSUME NEW r \in Request, ServeStep(r) PROVE Unspoilt'
  <2>1. CASE SelectDone(r)
    <3>1. /\ Finished(resp[r]) \in Own /\ Finished(resp[r]) \in Any
          /\ Finished(resp[r]).status = 200
      <4>1. resp[r] \in Any /\ resp[r] \in Own
        BY <2>1 DEF SelectDone
      <4>2. Finished(resp[r]) \in Own /\ Finished(resp[r]) \in Any /\ Finished(resp[r]).status # 0
        BY <4>1, WriterFacts
      <4> QED BY <4>2 DEF Own, Response
    <3> QED BY <2>1, <3>1 DEF SelectDone, Returns
  <2>2. CASE SelectExpired(r) \/ CheckUnwritten(r)
    BY <2>2 DEF SelectExpired, CheckUnwritten
  <2>3. CASE CheckWritten(r) \/ RefuseHeader(r) \/ RefuseBody(r)
    <3>1. PICK w \in Any : resp' = [resp EXCEPT ![r] = w]
      BY <2>3, WriterFacts DEF CheckWritten, RefuseHeader, RefuseBody, Returns
    <3>2. /\ UNCHANGED <<via, handler, done, late>> /\ via[r] = "expired"
          /\ \E m \in {"explaining", "returned"} : main' = [main EXCEPT ![r] = m]
      BY <2>3 DEF CheckWritten, RefuseHeader, RefuseBody, Returns
    <3> QED BY <3>1, <3>2
  <2> QED BY <1>4, <2>1, <2>2, <2>3 DEF ServeStep, Serve
<1>5. CASE UNCHANGED vars
  BY <1>5 DEF vars, tvars
<1> QED BY <1>1, <1>2, <1>3, <1>4, <1>5 DEF Next, HandlerStep

\* A handler whose end the select saw has had the response to itself: its status
\* stands, nothing of the timeout is in the body and nothing is written after,
\* in both nestings and for any number of requests (timeout.go:49-52).
THEOREM InTimeStaysIntact == Spec => []InTimeIntact
<1>1. Unspoilt => InTimeIntact
  <2> SUFFICES ASSUME Unspoilt, NEW r \in Request, via[r] = "done"
               PROVE  /\ handler[r] \in {"gone", "dead"} /\ r \notin late
                      /\ resp[r].status = 200
                      /\ "timeout" \notin {resp[r].body[i] : i \in DOMAIN resp[r].body}
    BY DEF InTimeIntact
  <2>1. resp[r].body \in Seq({"handler"})
    BY DEF Unspoilt, Own, Response
  <2>2. \A i \in DOMAIN resp[r].body : resp[r].body[i] = "handler"
    BY <2>1
  <2> QED BY <2>2 DEF Unspoilt
<1> QED BY <1>1, NestedInit, NestedNext, UnspoiltInit, UnspoiltNext, ThrottleHolds, PTL DEF Spec
-----------------------------------------------------------------------------
(***************************************************************************)
(* HealthProbe.                                                             *)
(***************************************************************************)
ProbeTypeOK ==
  /\ stage \in [Prober -> {"idle", "probing", "ok", "degraded"}]
  /\ probe \in [Prober -> Conn \cup {"none"}]
  /\ use \in [Conn -> {"free", "probed", "unread"}]
  /\ timed \in [Conn -> BOOLEAN]
  /\ age \in [Conn -> Nat]

\* Every connection in use is timed.
Timed == \A c \in Conn : use[c] # "free" => timed[c]

\* Probes have connections of their own.
OwnConnection ==
  /\ \A r \in Prober : stage[r] = "probing" => probe[r] \in Conn /\ use[probe[r]] = "probed"
  /\ \A r, s \in Prober : stage[r] = "probing" /\ stage[s] = "probing" /\ r # s => probe[r] # probe[s]

ProbeInv == ProbeTypeOK /\ Timed /\ OwnConnection /\ HeldNoLonger

LEMMA LimitType == Limit \in Nat \ {0} /\ AgeCap = Limit + 1
BY ProbeAssumption DEF Limit, AgeCap

LEMMA ProbeInitInv == ProbeInit => ProbeInv
BY DEF ProbeInit, ProbeInv, ProbeTypeOK, Timed, OwnConnection, HeldNoLonger

\* A verdict that leaves a connection in use only with its timer running keeps
\* the invariant.
LEMMA VerdictInv ==
  ASSUME ProbeInv, NEW r \in Prober, NEW verdict \in {"ok", "degraded"},
         NEW left \in {"free", "unread"}, NEW running \in BOOLEAN,
         left = "unread" => running, Verdict(r, verdict, left, running)
  PROVE  ProbeInv'
<1>1. /\ stage[r] = "probing" /\ probe[r] \in Conn /\ UNCHANGED age
      /\ stage' = [stage EXCEPT ![r] = verdict] /\ probe' = [probe EXCEPT ![r] = "none"]
      /\ use' = [use EXCEPT ![probe[r]] = left] /\ timed' = [timed EXCEPT ![probe[r]] = running]
  BY DEF Verdict, ProbeInv, OwnConnection
<1>2. ProbeTypeOK'
  BY <1>1 DEF ProbeInv, ProbeTypeOK
<1>3. Timed' /\ HeldNoLonger'
  BY <1>1 DEF ProbeInv, ProbeTypeOK, Timed, HeldNoLonger, OwnConnection
<1>4. ASSUME NEW s \in Prober, stage'[s] = "probing"
      PROVE  s # r /\ stage[s] = "probing" /\ probe'[s] = probe[s] /\ use'[probe[s]] = "probed"
  <2>1. s # r /\ stage[s] = "probing"
    BY <1>1, <1>4 DEF ProbeInv, ProbeTypeOK
  <2>2. probe[s] # probe[r] /\ use[probe[s]] = "probed"
    BY <1>1, <2>1 DEF ProbeInv, OwnConnection
  <2> QED BY <1>1, <2>1, <2>2 DEF ProbeInv, ProbeTypeOK, OwnConnection
<1>5. OwnConnection'
  BY <1>4 DEF ProbeInv, OwnConnection
<1> QED BY <1>2, <1>3, <1>5 DEF ProbeInv

LEMMA ProbeNextInv == ProbeInv /\ [ProbeNext]_probeVars => ProbeInv'
<1> SUFFICES ASSUME ProbeInv, [ProbeNext]_probeVars PROVE ProbeInv'
  OBVIOUS
<1>1. ASSUME NEW r \in Prober, NEW c \in Conn, Get(r, c) PROVE ProbeInv'
  <2>1. (Limit > 0) = TRUE /\ 0 <= Limit
    BY LimitType
  <2>2. timed' = [timed EXCEPT ![c] = TRUE]
    BY <1>1, <2>1 DEF Get
  <2>3. ProbeTypeOK'
    BY <1>1, <2>2 DEF Get, ProbeInv, ProbeTypeOK
  <2>4. Timed'
    BY <1>1, <2>2 DEF Get, ProbeInv, ProbeTypeOK, Timed
  <2>5. HeldNoLonger'
    BY <1>1, <2>1 DEF Get, ProbeInv, ProbeTypeOK, HeldNoLonger
  <2>6. OwnConnection'
    BY <1>1 DEF Get, ProbeInv, ProbeTypeOK, OwnConnection
  <2> QED BY <2>3, <2>4, <2>5, <2>6 DEF ProbeInv
<1>2. ASSUME NEW r \in Prober, GetRefused(r) \/ Reply(r) PROVE ProbeInv'
  BY <1>2 DEF GetRefused, Reply, ProbeInv, ProbeTypeOK, Timed, OwnConnection, HeldNoLonger
<1>3. ASSUME NEW r \in Prober, AnswerOK(r) PROVE ProbeInv'
  BY <1>3, VerdictInv DEF AnswerOK
<1>4. ASSUME NEW r \in Prober, AnswerError(r) PROVE ProbeInv'
  <2>1. stage[r] = "probing"
    BY <1>4 DEF AnswerError, Verdict
  <2>2. timed[probe[r]] = TRUE
    BY <2>1 DEF ProbeInv, OwnConnection, Timed, ProbeTypeOK
  <2> QED BY <1>4, <2>2, VerdictInv DEF AnswerError
<1>5. ASSUME NEW r \in Prober, ProbeTimesOut(r) PROVE ProbeInv'
  BY <1>5, VerdictInv DEF ProbeTimesOut
<1>6. ASSUME NEW c \in Conn, UnreadTimesOut(c) PROVE ProbeInv'
  <2>1. ProbeTypeOK' /\ Timed' /\ HeldNoLonger'
    BY <1>6 DEF UnreadTimesOut, ProbeInv, ProbeTypeOK, Timed, HeldNoLonger
  <2>2. OwnConnection'
    BY <1>6 DEF UnreadTimesOut, ProbeInv, ProbeTypeOK, OwnConnection
  <2> QED BY <2>1, <2>2 DEF ProbeInv
<1>7. ASSUME Tick PROVE ProbeInv'
  <2>1. ProbeTypeOK' /\ Timed' /\ OwnConnection'
    BY <1>7 DEF Tick, ProbeInv, ProbeTypeOK, Timed, OwnConnection
  <2>2. ASSUME NEW c \in Conn, use[c] # "free" PROVE age'[c] <= Limit
    <3>1. timed[c] /\ ~TimeIsUp(c) /\ age[c] \in Nat
      BY <1>7, <2>2 DEF Tick, ProbeInv, Timed, ProbeTypeOK
    <3>2. age'[c] <= age[c] + 1
      BY <1>7, <3>1 DEF Tick
    <3>3. age'[c] \in Nat
      BY <2>1 DEF ProbeTypeOK
    <3> QED BY <3>1, <3>2, <3>3, LimitType DEF TimeIsUp
  <2> QED BY <1>7, <2>1, <2>2 DEF ProbeInv, HeldNoLonger, Tick
<1>8. CASE UNCHANGED probeVars
  BY <1>8 DEF probeVars, ProbeInv, ProbeTypeOK, Timed, OwnConnection, HeldNoLonger
<1> QED BY <1>1, <1>2, <1>3, <1>4, <1>5, <1>6, <1>7, <1>8 DEF ProbeNext

\* The variables keep their types, for any number of requests and connections.
THEOREM ProbeTypeCorrect == ProbeSpec => []ProbeTypeOK
BY ProbeInitInv, ProbeNextInv, PTL DEF ProbeSpec, ProbeInv

\* No connection serves a probe for longer than the timeout, although the body
\* of a failed one is never closed.
THEOREM ProbesLetGo == ProbeSpec => []HeldNoLonger
BY ProbeInitInv, ProbeNextInv, PTL DEF ProbeSpec, ProbeInv
=============================================================================
