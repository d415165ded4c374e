----------------------------- MODULE RateLimiter -----------------------------
(***************************************************************************)
(* The per-client rate limiter (src/internal/middleware/ratelimit.go).      *)
(* Allow runs under r.mu and reads the clock there, so one call is one      *)
(* step; the clock moves between calls.                                     *)
(***************************************************************************)
EXTENDS Integers, Sequences

CONSTANTS
  Key,      \* what clientIP returns: the forwarded address or the peer's host
  max,      \* r.max, which nothing validates
  window,   \* r.window in ticks
  MaxTime   \* bound: the clock stops here

ASSUME RateAssumption ==
  /\ max \in Int
  /\ window \in Nat
  /\ MaxTime \in Nat

VARIABLES
  now,        \* the clock
  count,      \* b.count per key; 0 while the key has no bucket
  windowEnd,  \* b.windowEnd per key
  log,        \* history: when each key's admissions happened, oldest first
  starts      \* history: which of them opened a bucket

vars == <<now, count, windowEnd, log, starts>>

Init ==
  /\ now = 0
  /\ count = [k \in Key |-> 0]
  /\ windowEnd = [k \in Key |-> 0]
  /\ log = [k \in Key |-> <<>>]
  /\ starts = [k \in Key |-> {}]

\* !ok || now.After(b.windowEnd)
Expired(k) == count[k] = 0 \/ now > windowEnd[k]

\* b.count >= r.max in a bucket that has not expired.
Refused(k) == ~Expired(k) /\ count[k] >= max

Admitted(k) == log' = [log EXCEPT ![k] = Append(@, now)]

\* Fault: the window of a fresh bucket is twice too long.
OpenTooLong(k) ==
  /\ Expired(k)
  /\ count' = [count EXCEPT ![k] = 1]
  /\ windowEnd' = [windowEnd EXCEPT ![k] = now + 2 * window]
  /\ Admitted(k)
  /\ starts' = [starts EXCEPT ![k] = @ \cup {Len(log[k]) + 1}]
  /\ UNCHANGED now

\* A fresh bucket admits the request that opens it, whatever max is.
OpenBucket(k) ==
  /\ Expired(k)
  /\ count' = [count EXCEPT ![k] = 1]
  /\ windowEnd' = [windowEnd EXCEPT ![k] = now + window]
  /\ Admitted(k)
  /\ starts' = [starts EXCEPT ![k] = @ \cup {Len(log[k]) + 1}]
  /\ UNCHANGED now

\* Fault: one request more than max.
AdmitOffByOne(k) ==
  /\ ~Expired(k)
  /\ count[k] <= max
  /\ count' = [count EXCEPT ![k] = @ + 1]
  /\ Admitted(k)
  /\ UNCHANGED <<now, windowEnd, starts>>

\* A bucket with room admits.
Admit(k) ==
  /\ ~Expired(k)
  /\ count[k] < max
  /\ count' = [count EXCEPT ![k] = @ + 1]
  /\ Admitted(k)
  /\ UNCHANGED <<now, windowEnd, starts>>

\* A full bucket answers 429 and leaves no trace.
Refuse(k) == Refused(k) /\ UNCHANGED vars

Tick ==
  /\ now < MaxTime
  /\ now' = now + 1
  /\ UNCHANGED <<count, windowEnd, log, starts>>

Allow(k) == OpenBucket(k) \/ Admit(k) \/ Refuse(k)

Next == Tick \/ \E k \in Key : Allow(k)

Spec == Init /\ [][Next]_vars
-----------------------------------------------------------------------------
\* What one bucket can admit: at least the request that opens it.
Quota == IF max < 1 THEN 1 ELSE max

\* The types of the variables.
TypeOK ==
  /\ now \in Nat
  /\ count \in [Key -> 0..Quota]
  /\ windowEnd \in [Key -> Nat]
  /\ log \in [Key -> Seq(Nat)]
  /\ starts \in [Key -> SUBSET Nat]

\* However a client times its requests, more than twice the quota never get
\* through within one window's time, closed at both ends: two buckets can be
\* drained back to back, three cannot (ratelimit.go:31-47).
BurstBound ==
  \A k \in Key : \A i \in 1..Len(log[k]) - 2 * Quota :
    log[k][i + 2 * Quota] > log[k][i] + window

\* A client is refused only if the last max requests it got through are at most
\* one window old: a limit that is not used up never refuses, and an old burst
\* is forgiven in time (ratelimit.go:38-44).
RefusalEarned ==
  \A k \in Key : Refused(k) /\ max > 0 =>
    Len(log[k]) >= max /\ now <= log[k][Len(log[k]) - max + 1] + window
=============================================================================
