------------------------------- MODULE Dedupe -------------------------------
(***************************************************************************)
(* The idempotency-key cache (src/internal/middleware/dedupe.go).  The      *)
(* lookup and the store each hold the mutex; the upstream call between them *)
(* and the writing of a replay do not.  A response is known by the upstream *)
(* call it came from: calls are numbered in the order they start.           *)
(***************************************************************************)
EXTENDS Naturals

CONSTANTS
  Request,   \* the goroutines that serve requests
  Key,       \* idempotency keys
  NoKey,     \* the header is absent or empty
  TTL,       \* cfg.TTL in ticks, after its default has been applied
  MaxCalls,  \* bound: upstream calls in a behaviour
  MaxTime    \* bound: the clock stops here

ASSUME DedupeAssumption ==
  /\ NoKey \notin Key
  /\ TTL \in Nat \ {0}
  /\ MaxCalls \in Nat /\ MaxTime \in Nat

VARIABLES
  now,      \* the clock
  cache,    \* per key, the response held and when it expires
  pc,       \* where each request is in the handler
  key,      \* the key of each request
  answer,   \* the call whose response each request carries; 0 for none
  lookedAt, \* history: when each request looked its key up
  calls,    \* history: upstream calls started so far
  stored    \* history: every response put in the cache, and when

vars == <<now, cache, pc, key, answer, lookedAt, calls, stored>>

\* A key that is absent from the map looks like one that expired before time
\* began.
NoEntry == [call |-> 0, expires |-> 0]

Init ==
  /\ now = 0
  /\ cache = [k \in Key |-> NoEntry]
  /\ pc = [r \in Request |-> "idle"]
  /\ key = [r \in Request |-> NoKey]
  /\ answer = [r \in Request |-> 0]
  /\ lookedAt = [r \in Request |-> 0]
  /\ calls = 0
  /\ stored = {}

Arrive(r, k) ==
  /\ pc[r] = "idle"
  /\ pc' = [pc EXCEPT ![r] = "looking"]
  /\ key' = [key EXCEPT ![r] = k]
  /\ UNCHANGED <<now, cache, answer, lookedAt, calls, stored>>

\* The handler is left; what it knew goes with its stack frame.
Leave(r) ==
  /\ pc' = [pc EXCEPT ![r] = "idle"]
  /\ key' = [key EXCEPT ![r] = NoKey]
  /\ answer' = [answer EXCEPT ![r] = 0]
  /\ lookedAt' = [lookedAt EXCEPT ![r] = 0]

\* Fault: the expiry of the entry is not looked at.
HitIgnoresExpiry(k) == cache[k].call # 0

\* ok && time.Now().Before(entry.expires)
Hit(k) == now < cache[k].expires

\* The lookup finds a live entry and keeps a pointer to it past the unlock.
LookupHit(r) ==
  /\ pc[r] = "looking" /\ key[r] \in Key
  /\ Hit(key[r])
  /\ pc' = [pc EXCEPT ![r] = "replaying"]
  /\ answer' = [answer EXCEPT ![r] = cache[key[r]].call]
  /\ lookedAt' = [lookedAt EXCEPT ![r] = now]
  /\ UNCHANGED <<now, cache, key, calls, stored>>

\* The entry is written to the client, without the mutex.
Replay(r) ==
  /\ pc[r] = "replaying"
  /\ Leave(r)
  /\ UNCHANGED <<now, cache, calls, stored>>

\* The lookup finds nothing to replay, or there is no key to look up: the
\* request goes upstream.
Forward(r) ==
  /\ pc[r] = "looking"
  /\ key[r] \in Key => ~Hit(key[r])
  /\ calls < MaxCalls
  /\ calls' = calls + 1
  /\ pc' = [pc EXCEPT ![r] = "forwarding"]
  /\ answer' = [answer EXCEPT ![r] = calls + 1]
  /\ lookedAt' = [lookedAt EXCEPT ![r] = now]
  /\ UNCHANGED <<now, cache, key, stored>>

\* The upstream answers a request that carries a key.
Answered(r) ==
  /\ pc[r] = "forwarding" /\ key[r] \in Key
  /\ pc' = [pc EXCEPT ![r] = "storing"]
  /\ UNCHANGED <<now, cache, key, answer, lookedAt, calls, stored>>

\* The handler ends with the upstream call: the request carries no key, or the
\* call panics and the store below it never runs.
EndWithCall(r) ==
  /\ pc[r] = "forwarding"
  /\ Leave(r)
  /\ UNCHANGED <<now, cache, calls, stored>>

\* Fault: an entry that is there already is kept, expired or not.
StoreOnce(r) ==
  /\ pc[r] = "storing"
  /\ cache' = IF cache[key[r]].call = 0
                THEN [cache EXCEPT ![key[r]] = [call |-> answer[r], expires |-> now + TTL]]
                ELSE cache
  /\ stored' = stored \cup {[key |-> key[r], call |-> answer[r], at |-> now]}
  /\ Leave(r)
  /\ UNCHANGED <<now, calls>>

\* The entry lives for TTL from the end of the call; the last one to finish
\* replaces whatever the key held.
Store(r) ==
  /\ pc[r] = "storing"
  /\ cache' = [cache EXCEPT ![key[r]] = [call |-> answer[r], expires |-> now + TTL]]
  /\ stored' = stored \cup {[key |-> key[r], call |-> answer[r], at |-> now]}
  /\ Leave(r)
  /\ UNCHANGED <<now, calls>>

Tick ==
  /\ now < MaxTime
  /\ now' = now + 1
  /\ UNCHANGED <<cache, pc, key, answer, lookedAt, calls, stored>>

Next ==
  \/ \E r \in Request :
       \/ \E k \in Key \cup {NoKey} : Arrive(r, k)
       \/ LookupHit(r) \/ Replay(r)
       \/ Forward(r) \/ Answered(r) \/ EndWithCall(r) \/ Store(r)
  \/ Tick

Spec == Init /\ [][Next]_vars
-----------------------------------------------------------------------------
Entry == [call : 0..MaxCalls, expires : Nat]

\* The types of the variables.
TypeOK ==
  /\ now \in 0..MaxTime
  /\ cache \in [Key -> Entry]
  /\ pc \in [Request -> {"idle", "looking", "replaying", "forwarding", "storing"}]
  /\ key \in [Request -> Key \cup {NoKey}]
  /\ answer \in [Request -> 0..MaxCalls]
  /\ lookedAt \in [Request -> 0..MaxTime]
  /\ calls \in 0..MaxCalls
  /\ stored \subseteq [key : Key, call : 1..MaxCalls, at : 0..MaxTime]

\* A replay is the complete response of an earlier call with the same key, and
\* it had been stored for less than TTL when the request looked the key up,
\* however many stores, panics and expiries came in between (dedupe.go:53-64).
ReplayIsFresh ==
  \A r \in Request : pc[r] = "replaying" =>
    \E s \in stored : /\ s.key = key[r] /\ s.call = answer[r]
                      /\ s.at <= lookedAt[r] /\ lookedAt[r] < s.at + TTL

\* A key goes upstream again only when every response ever stored for it is at
\* least TTL old: what the cache has learnt is never forgotten early, even when
\* overlapping calls overwrite each other's entries (dedupe.go:54, 71-78).
UpstreamOnlyWhenStale ==
  [][\A r \in Request : pc[r] = "looking" /\ pc'[r] = "forwarding" =>
       \A s \in stored : s.key = key[r] => now >= s.at + TTL]_vars
=============================================================================
