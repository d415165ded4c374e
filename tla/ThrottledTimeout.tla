-------------------------- MODULE ThrottledTimeout --------------------------
(***************************************************************************)
(* Throttle and RequestTimeout around one handler, in either order.         *)
(*                                                                          *)
(* "timeout outside" is RequestTimeout(Throttle(handler)): the wait for a   *)
(* slot and the handler both run on the goroutine of the timeout, and       *)
(* Throttle does not look at the context, so a request that has been        *)
(* answered 504 keeps its place in the queue and its slot.                  *)
(*                                                                          *)
(* "throttle outside" is Throttle(RequestTimeout(handler)): the slot belongs *)
(* to the serving goroutine and is given back when that one returns.        *)
(*                                                                          *)
(* Every request passes once.                                               *)
(***************************************************************************)
EXTENDS RequestTimeout, Integers, FiniteSets

CONSTANTS MaxConcurrent, DefaultMaxConcurrent

ASSUME ThrottledAssumption ==
  IsFiniteSet(Request) /\ MaxConcurrent \in Int /\ DefaultMaxConcurrent \in Nat \ {0}

VARIABLES
  order,          \* how the two middlewares are nested
  pc, sem, sendq  \* the throttle's

T == INSTANCE Throttle

queueVars == <<pc, sem, sendq>>
vars == <<order, tvars, queueVars>>

TimeoutOutside  == order = "timeout outside"
ThrottleOutside == order = "throttle outside"

Init ==
  /\ order \in {"timeout outside", "throttle outside"}
  /\ TimeoutInit /\ T!Init

\* The throttle's own steps, once the request has reached it.
ThrottleStep(r) ==
  /\ alive
  /\ TimeoutOutside => handler[r] # "none"
  /\ \/ T!Acquire(r) \/ T!Enqueue(r) \/ T!ExpireAtSelect(r)
     \/ T!QueueTimeout(r) \/ T!Release(r) \/ T!ReleaseTo(r)
  /\ UNCHANGED <<order, tvars>>

\* The request enters RequestTimeout.
EnterTimeout(r) ==
  /\ ThrottleOutside => pc[r] = "running"
  /\ Start(r)
  /\ UNCHANGED <<order, queueVars>>

\* The timeout's own steps: the deadline, the serving goroutine, the crash.
Deadline(r) == Expire(r) /\ UNCHANGED <<order, queueVars>>
ServeStep(r) == Serve(r) /\ UNCHANGED <<order, queueVars>>
CrashStep(r) == Crash(r) /\ UNCHANGED <<order, queueVars>>

\* What is inside RequestTimeout writes: the handler or, in "timeout outside",
\* also the throttle that refuses the request.
WorkStep(r) ==
  /\ TimeoutOutside => pc[r] \in {"running", "refused"}
  /\ Work(r)
  /\ UNCHANGED <<order, queueVars>>

\* Fault: the slot is given back as soon as the client has been answered.
LetGo(r) ==
  /\ TimeoutOutside
  /\ IF main[r] = "returned" THEN T!Return(r) /\ UNCHANGED <<order, tvars>>
                             ELSE T!Return(r) /\ HandlerReturn(r) /\ UNCHANGED order

\* The handler returns to the throttle it runs in, whose receive is next.
LeaveSlot(r) ==
  /\ TimeoutOutside
  /\ T!Return(r) /\ HandlerReturn(r)
  /\ UNCHANGED order

\* The throttle that refused, or the handler it does not know of, returns.
LeaveTimeout(r) ==
  /\ \/ ThrottleOutside
     \/ pc[r] = "refused" /\ handler[r] = "bodied"
  /\ HandlerReturn(r)
  /\ UNCHANGED <<order, queueVars>>

HandlerPanics(r) ==
  /\ IF TimeoutOutside THEN T!Panic(r) ELSE UNCHANGED queueVars
  /\ HandlerPanic(r)
  /\ UNCHANGED order

\* The goroutine's deferred close, after those of the handlers inside it.
EndGoroutine(r) ==
  /\ TimeoutOutside => pc[r] \in T!Over
  /\ CloseDone(r)
  /\ UNCHANGED <<order, queueVars>>

\* RequestTimeout returns to the throttle around it.
ReturnToThrottle(r) ==
  /\ ThrottleOutside
  /\ alive /\ main[r] = "returned"
  /\ T!Return(r)
  /\ UNCHANGED <<order, tvars>>

HandlerStep(r) == WorkStep(r) \/ LeaveSlot(r) \/ LeaveTimeout(r)

Next == \E r \in Request :
  \/ ThrottleStep(r) \/ EnterTimeout(r) \/ ReturnToThrottle(r)
  \/ Deadline(r) \/ ServeStep(r) \/ EndGoroutine(r) \/ CrashStep(r)
  \/ HandlerStep(r) \/ HandlerPanics(r)

Spec == Init /\ [][Next]_vars

(***************************************************************************)
(* The deadline passes, the middlewares' own code runs and the timer of the *)
(* throttle fires.  Handlers owe nothing: one that ignores its context may  *)
(* never return.                                                            *)
(***************************************************************************)
Fairness == \A r \in Request :
  /\ WF_vars(Deadline(r)) /\ WF_vars(ServeStep(r))
  /\ WF_vars(EndGoroutine(r)) /\ WF_vars(CrashStep(r)) /\ WF_vars(ReturnToThrottle(r))
  /\ WF_vars((pc[r] # "idle" \/ handler[r] # "none") /\ ThrottleStep(r))

FairSpec == Spec /\ Fairness

\* A handler that looks at its context returns once it is done.
HonoursContext == \A r \in Request : WF_vars(expired[r] /\ HandlerStep(r))
-----------------------------------------------------------------------------
\* The requests that are in the handler itself, answered or not.
InHandler == {r \in Request :
  /\ handler[r] \in Busy \cup {"heading"}
  /\ pc[r] \notin {"idle", "waiting", "refused"}}

\* A slot covers the handler's whole run, even when its client has long been
\* answered 504 (throttle.go:69-70 on the goroutine of timeout.go:44-47).
HandlersCapped == TimeoutOutside => Cardinality(InHandler) <= T!Slots

\* When the client has been answered, the goroutine of a handler that honours
\* its context ends, and with it the slot: nothing is left blocked
\* (timeout.go:39, 45, throttle.go:69).
NothingLeft ==
  HonoursContext =>
    \A r \in Request :
      main[r] = "returned" ~>
        \/ handler[r] \in {"gone", "dead"} /\ pc[r] \notin T!Holding
        \/ ~alive
=============================================================================
