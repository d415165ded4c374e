----------------------------- MODULE HealthProbe -----------------------------
(***************************************************************************)
(* HealthCheck's probe of the upstream (healthcheck.go).  Every request for *)
(* the health path makes an http.Client of its own with Timeout and gets    *)
(* UpstreamURL.  The client's timer starts with Get and goes on after the   *)
(* answer, until the body has been closed: HealthCheck closes it below 500  *)
(* only, so otherwise the timer is all that ever gives the connection back. *)
(*                                                                          *)
(* The upstream may answer, refuse the connection or hang.                  *)
(***************************************************************************)
EXTENDS Integers

CONSTANTS
  Prober,          \* the goroutines that serve the health path
  Conn,            \* bound: the connections to the upstream there can be
  Timeout,         \* cfg.Timeout in ticks, 0 when it is not set
  DefaultTimeout   \* DefaultHealthCheckConfig().Timeout

ASSUME ProbeAssumption ==
  /\ Timeout \in Nat /\ DefaultTimeout \in Nat \ {0}
  /\ "none" \notin Conn

\* Fault: a Timeout that is not set is handed to the client, which takes it
\* for none.
TimeoutAsGiven == Timeout

Limit == IF Timeout = 0 THEN DefaultTimeout ELSE Timeout

VARIABLES
  stage,  \* where each request is; with its answer when it has one
  probe,  \* the connection of its probe, or "none"
  use,    \* what a connection is: "free", "probed", or "unread" with a body nobody closes
  timed,  \* the client's timer is running for this connection
  age     \* the time since Get, up to one more than the timeout

probeVars == <<stage, probe, use, timed, age>>

AgeCap == (IF Timeout = 0 THEN DefaultTimeout ELSE Timeout) + 1

ProbeInit ==
  /\ stage = [r \in Prober |-> "idle"] /\ probe = [r \in Prober |-> "none"]
  /\ use = [c \in Conn |-> "free"]
  /\ timed = [c \in Conn |-> FALSE] /\ age = [c \in Conn |-> 0]

\* client.Get has a connection and has sent its request.
Get(r, c) ==
  /\ stage[r] = "idle" /\ use[c] = "free"
  /\ stage' = [stage EXCEPT ![r] = "probing"] /\ probe' = [probe EXCEPT ![r] = c]
  /\ use' = [use EXCEPT ![c] = "probed"]
  /\ timed' = [timed EXCEPT ![c] = Limit > 0] /\ age' = [age EXCEPT ![c] = 0]

\* It gets none: err # nil at once.
GetRefused(r) ==
  /\ stage[r] = "idle"
  /\ stage' = [stage EXCEPT ![r] = "degraded"]
  /\ UNCHANGED <<probe, use, timed, age>>

\* The request's probe ends with this verdict and leaves its connection so.
Verdict(r, verdict, left, running) ==
  /\ stage[r] = "probing"
  /\ stage' = [stage EXCEPT ![r] = verdict] /\ probe' = [probe EXCEPT ![r] = "none"]
  /\ use' = [use EXCEPT ![probe[r]] = left] /\ timed' = [timed EXCEPT ![probe[r]] = running]
  /\ UNCHANGED age

\* Below 500 the body is closed, and with it the timer.
AnswerOK(r) == Verdict(r, "ok", "free", FALSE)

\* Fault: the timer covers the answer's header only.
AnswerErrorStopsTimer(r) == Verdict(r, "degraded", "unread", FALSE)

\* From 500 on it is not: connection and timer are left as they are.
AnswerError(r) == Verdict(r, "degraded", "unread", timed[probe[r]])

TimeIsUp(c) == timed[c] /\ age[c] >= Limit

\* The timer fires before the answer: Get returns an error.
ProbeTimesOut(r) ==
  /\ stage[r] = "probing" /\ TimeIsUp(probe[r])
  /\ Verdict(r, "degraded", "free", FALSE)

\* It fires after the answer: the connection with the unread body is closed.
UnreadTimesOut(c) ==
  /\ use[c] = "unread" /\ TimeIsUp(c)
  /\ use' = [use EXCEPT ![c] = "free"] /\ timed' = [timed EXCEPT ![c] = FALSE]
  /\ UNCHANGED <<stage, probe, age>>

\* 200 for ok, 503 for degraded.
Reply(r) ==
  /\ stage[r] \in {"ok", "degraded"}
  /\ stage' = [stage EXCEPT ![r] = "idle"]
  /\ UNCHANGED <<probe, use, timed, age>>

\* Timers fire when they are due.
Tick ==
  /\ \A c \in Conn : ~TimeIsUp(c)
  /\ age' = [c \in Conn |-> IF use[c] # "free" /\ age[c] < AgeCap THEN age[c] + 1 ELSE age[c]]
  /\ UNCHANGED <<stage, probe, use, timed>>

ProbeNext ==
  \/ \E r \in Prober :
       \/ \E c \in Conn : Get(r, c)
       \/ GetRefused(r) \/ AnswerOK(r) \/ AnswerError(r) \/ ProbeTimesOut(r) \/ Reply(r)
  \/ \E c \in Conn : UnreadTimesOut(c)
  \/ Tick

ProbeSpec == ProbeInit /\ [][ProbeNext]_probeVars

(***************************************************************************)
(* Time passes and timers fire; the upstream owes nothing.                  *)
(***************************************************************************)
ProbeFairness ==
  /\ WF_probeVars(Tick)
  /\ \A r \in Prober : WF_probeVars(ProbeTimesOut(r)) /\ WF_probeVars(Reply(r))
  /\ \A c \in Conn : WF_probeVars(UnreadTimesOut(c))

FairProbeSpec == ProbeSpec /\ ProbeFairness
-----------------------------------------------------------------------------
\* What keeps the bodies that are never closed from piling up: no connection
\* serves a probe for longer than the timeout, be it waited for or forgotten,
\* so there are never more of them than one timeout has seen probes
\* (healthcheck.go:60-69).
HeldNoLonger == \A c \in Conn : use[c] # "free" => age[c] <= Limit

\* A health request is answered even if the upstream hangs, and with a Timeout
\* that was not set as well (healthcheck.go:46-48, 60-69).
HealthAnswered == \A r \in Prober : stage[r] # "idle" ~> stage[r] = "idle"
=============================================================================
