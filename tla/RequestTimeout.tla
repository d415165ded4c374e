--------------------------- MODULE RequestTimeout ---------------------------
(***************************************************************************)
(* The timeout middleware (src/internal/middleware/timeout.go).  The        *)
(* wrapped handler runs on a goroutine of its own and writes to the same    *)
(* ResponseWriter as the serving goroutine, which waits for it or for the   *)
(* request's context.  Only the channel done orders the two: pw.written is  *)
(* shared without a lock, so the read of it falls anywhere between the      *)
(* handler's steps, and setting it and the write it announces are two steps. *)
(*                                                                          *)
(* A handler that panics unwinds its own goroutine, where nothing recovers: *)
(* the deferred close runs and then the process dies.                       *)
(***************************************************************************)
EXTENDS HTTPResponse

CONSTANT Request

VARIABLES
  main,     \* where the serving goroutine of each request is
  via,      \* the case its select took
  handler,  \* where the handler's goroutine is
  written,  \* pw.written
  expired,  \* ctx.Done() is closed
  done,     \* done is closed
  resp,     \* the response of each request
  late,     \* history: requests whose handler wrote after ServeHTTP returned
  alive     \* the process runs

tvars == <<main, via, handler, written, expired, done, resp, late, alive>>

TimeoutInit ==
  /\ main = [r \in Request |-> "idle"]
  /\ via = [r \in Request |-> "none"]
  /\ handler = [r \in Request |-> "none"]
  /\ written = [r \in Request |-> FALSE]
  /\ expired = [r \in Request |-> FALSE]
  /\ done = [r \in Request |-> FALSE]
  /\ resp = [r \in Request |-> FreshResponse]
  /\ late = {}
  /\ alive = TRUE

\* The goroutine starts and the serving goroutine reaches its select.
Start(r) ==
  /\ alive /\ main[r] = "idle"
  /\ main' = [main EXCEPT ![r] = "selecting"]
  /\ handler' = [handler EXCEPT ![r] = "fresh"]
  /\ UNCHANGED <<via, written, expired, done, resp, late, alive>>

\* cfg.Timeout has passed, or the client has gone and the parent context with it.
Expire(r) ==
  /\ alive /\ main[r] = "selecting" /\ ~expired[r]
  /\ expired' = [expired EXCEPT ![r] = TRUE]
  /\ UNCHANGED <<main, via, handler, written, done, resp, late, alive>>

\* ServeHTTP returns: cancel() runs and the server completes the response w.
Returns(r, w) ==
  /\ main' = [main EXCEPT ![r] = "returned"]
  /\ expired' = [expired EXCEPT ![r] = TRUE]
  /\ resp' = [resp EXCEPT ![r] = Finished(w)]

SelectDone(r) ==
  /\ alive /\ main[r] = "selecting" /\ done[r]
  /\ via' = [via EXCEPT ![r] = "done"]
  /\ Returns(r, resp[r])
  /\ UNCHANGED <<handler, written, done, late, alive>>

\* Fault: the deadline is noticed only with the handler's end.
SelectExpiredWhenDone(r) ==
  /\ alive /\ main[r] = "selecting" /\ expired[r] /\ done[r]
  /\ main' = [main EXCEPT ![r] = "checking"]
  /\ via' = [via EXCEPT ![r] = "expired"]
  /\ UNCHANGED <<handler, written, expired, done, resp, late, alive>>

SelectExpired(r) ==
  /\ alive /\ main[r] = "selecting" /\ expired[r]
  /\ main' = [main EXCEPT ![r] = "checking"]
  /\ via' = [via EXCEPT ![r] = "expired"]
  /\ UNCHANGED <<handler, written, expired, done, resp, late, alive>>

\* !pw.written, read while the handler may be about to set it.
CheckUnwritten(r) ==
  /\ alive /\ main[r] = "checking" /\ ~written[r]
  /\ main' = [main EXCEPT ![r] = "refusing"]
  /\ UNCHANGED <<via, handler, written, expired, done, resp, late, alive>>

CheckWritten(r) ==
  /\ alive /\ main[r] = "checking" /\ written[r]
  /\ Returns(r, resp[r])
  /\ UNCHANGED <<via, handler, written, done, late, alive>>

\* w.WriteHeader(504)
RefuseHeader(r) ==
  /\ alive /\ main[r] = "refusing"
  /\ main' = [main EXCEPT ![r] = "explaining"]
  /\ resp' = [resp EXCEPT ![r] = WriteHeader(@, 504)]
  /\ UNCHANGED <<via, handler, written, expired, done, late, alive>>

\* w.Write([]byte(msg))
RefuseBody(r) ==
  /\ alive /\ main[r] = "explaining"
  /\ Returns(r, Write(resp[r], "timeout"))
  /\ UNCHANGED <<via, handler, written, done, late, alive>>

\* What the handler writes reaches the response only while ServeHTTP has not
\* returned; after that the writer is no longer the handler's to use.  Its
\* status, whatever it is, stands as 200.
Delivered(r, w) ==
  IF main[r] = "returned"
    THEN late' = late \cup {r} /\ UNCHANGED resp
    ELSE resp' = [resp EXCEPT ![r] = w] /\ UNCHANGED late

\* Fault: the first write already counts as the handler's end.
AnnounceDone(r) ==
  /\ alive /\ handler[r] = "fresh"
  /\ handler' = [handler EXCEPT ![r] = "heading"]
  /\ written' = [written EXCEPT ![r] = TRUE]
  /\ done' = [done EXCEPT ![r] = TRUE]
  /\ UNCHANGED <<main, via, expired, resp, late, alive>>

\* pw.WriteHeader sets pw.written ...
Announce(r) ==
  /\ alive /\ handler[r] = "fresh"
  /\ handler' = [handler EXCEPT ![r] = "heading"]
  /\ written' = [written EXCEPT ![r] = TRUE]
  /\ UNCHANGED <<main, via, expired, done, resp, late, alive>>

\* ... and then writes the header.
HandlerHeader(r) ==
  /\ alive /\ handler[r] = "heading"
  /\ handler' = [handler EXCEPT ![r] = "headed"]
  /\ Delivered(r, WriteHeader(resp[r], 200))
  /\ UNCHANGED <<main, via, written, expired, done, alive>>

HandlerBody(r) ==
  /\ alive /\ handler[r] = "headed"
  /\ handler' = [handler EXCEPT ![r] = "bodied"]
  /\ Delivered(r, Write(resp[r], "handler"))
  /\ UNCHANGED <<main, via, written, expired, done, alive>>

Busy == {"fresh", "headed", "bodied"}

HandlerReturn(r) ==
  /\ alive /\ handler[r] \in Busy
  /\ handler' = [handler EXCEPT ![r] = "leaving"]
  /\ UNCHANGED <<main, via, written, expired, done, resp, late, alive>>

HandlerPanic(r) ==
  /\ alive /\ handler[r] \in Busy
  /\ handler' = [handler EXCEPT ![r] = "dying"]
  /\ UNCHANGED <<main, via, written, expired, done, resp, late, alive>>

\* Fault: done is an unbuffered channel that the goroutine sends on.
SendDone(r) ==
  /\ alive /\ handler[r] \in {"leaving", "dying"} /\ main[r] = "selecting"
  /\ handler' = [handler EXCEPT ![r] = IF @ = "leaving" THEN "gone" ELSE "dead"]
  /\ done' = [done EXCEPT ![r] = TRUE]
  /\ UNCHANGED <<main, via, written, expired, resp, late, alive>>

\* The deferred close(done) never waits for anybody.
CloseDone(r) ==
  /\ alive /\ handler[r] \in {"leaving", "dying"}
  /\ handler' = [handler EXCEPT ![r] = IF @ = "leaving" THEN "gone" ELSE "dead"]
  /\ done' = [done EXCEPT ![r] = TRUE]
  /\ UNCHANGED <<main, via, written, expired, resp, late, alive>>

\* The panic reaches the top of the goroutine.
Crash(r) ==
  /\ alive /\ handler[r] = "dead"
  /\ alive' = FALSE
  /\ UNCHANGED <<main, via, handler, written, expired, done, resp, late>>

\* The serving goroutine once it is in the middleware.
Serve(r) ==
  \/ SelectDone(r) \/ SelectExpired(r)
  \/ CheckUnwritten(r) \/ CheckWritten(r) \/ RefuseHeader(r) \/ RefuseBody(r)

\* What the wrapped handler does while it runs.
Work(r) == Announce(r) \/ HandlerHeader(r) \/ HandlerBody(r)
-----------------------------------------------------------------------------
\* A handler that is seen to finish has the response to itself, and is finished
\* with it: nothing of the timeout is mixed in, nothing is written afterwards
\* (timeout.go:49-52).
InTimeIntact ==
  \A r \in Request : via[r] = "done" =>
    /\ handler[r] \in {"gone", "dead"} /\ r \notin late
    /\ resp[r].status = 200 /\ "timeout" \notin {resp[r].body[i] : i \in DOMAIN resp[r].body}

\* Every request that reaches the middleware is answered, even if its handler
\* never returns, unless the process dies (timeout.go:49-57).
EveryRequestAnswered ==
  \A r \in Request : main[r] = "selecting" ~> main[r] = "returned" \/ ~alive

=============================================================================
