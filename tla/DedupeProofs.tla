---------------------------- MODULE DedupeProofs ----------------------------
(***************************************************************************)
(* Dedupe for every set of requests and keys, every TTL and every bound.    *)
(*                                                                          *)
(* Two facts about the cache carry both results: what a key holds was       *)
(* stored for that key (CacheKnown), and it outlives everything ever stored *)
(* for it (CacheNewest), since the clock never runs backwards and the last  *)
(* store wins.                                                              *)
(***************************************************************************)
EXTENDS Dedupe, TLAPS

CacheKnown ==
  \A k \in Key : cache[k] # NoEntry =>
    \E s \in stored : s.key = k /\ s.call = cache[k].call /\ s.at + TTL = cache[k].expires

CacheNewest ==
  \A s \in stored : s.at <= now /\ s.at + TTL <= cache[s.key].expires

\* Only a request with a key stores, and it carries the call it made.
StoresOwnCall ==
  \A r \in Request : /\ pc[r] \in {"forwarding", "storing"} => answer[r] > 0
                     /\ pc[r] = "storing" => key[r] \in Key

Inv == TypeOK /\ CacheKnown /\ CacheNewest /\ StoresOwnCall /\ ReplayIsFresh

LEMMA InitInv == Init => Inv
<1> SUFFICES ASSUME Init PROVE Inv
  OBVIOUS
<1>1. TypeOK
  BY DedupeAssumption DEF Init, TypeOK, NoEntry, Entry
<1>2. CacheKnown /\ CacheNewest /\ StoresOwnCall /\ ReplayIsFresh
  BY DEF Init, CacheKnown, CacheNewest, StoresOwnCall, ReplayIsFresh
<1> QED BY <1>1, <1>2 DEF Inv

\* Leaving the handler disturbs no other request, and is never a replay.
LEMMA LeaveKeeps ==
  ASSUME TypeOK, StoresOwnCall, ReplayIsFresh, NEW r \in Request, Leave(r), stored \subseteq stored'
  PROVE  /\ pc' \in [Request -> {"idle", "looking", "replaying", "forwarding", "storing"}]
         /\ key' \in [Request -> Key \cup {NoKey}]
         /\ answer' \in [Request -> 0..MaxCalls]
         /\ lookedAt' \in [Request -> 0..MaxTime]
         /\ StoresOwnCall' /\ ReplayIsFresh'
<1>1. MaxCalls \in Nat /\ MaxTime \in Nat
  BY DedupeAssumption
<1>2. ASSUME NEW q \in Request, pc'[q] = "replaying"
      PROVE  \E s \in stored' : /\ s.key = key'[q] /\ s.call = answer'[q]
                                /\ s.at <= lookedAt'[q] /\ lookedAt'[q] < s.at + TTL
  <2>1. q # r /\ pc[q] = "replaying"
        /\ key'[q] = key[q] /\ answer'[q] = answer[q] /\ lookedAt'[q] = lookedAt[q]
    BY <1>2 DEF TypeOK, Leave
  <2> QED BY <2>1 DEF ReplayIsFresh
<1>3. StoresOwnCall'
  BY DEF TypeOK, Leave, StoresOwnCall
<1> QED BY <1>1, <1>2, <1>3 DEF TypeOK, Leave, ReplayIsFresh

\* The cache, the clock and the history stay as they are.
LEMMA CacheUntouched ==
  ASSUME CacheKnown, CacheNewest, UNCHANGED <<now, cache, stored>>
  PROVE  CacheKnown' /\ CacheNewest'
BY DEF CacheKnown, CacheNewest

LEMMA NextInv == Inv /\ [Next]_vars => Inv'
<1> SUFFICES ASSUME Inv, [Next]_vars PROVE Inv'
  OBVIOUS
<1>0. /\ TypeOK /\ CacheKnown /\ CacheNewest /\ StoresOwnCall /\ ReplayIsFresh
      /\ TTL \in Nat \ {0} /\ NoKey \notin Key
      /\ MaxCalls \in Nat /\ MaxTime \in Nat
  BY DedupeAssumption DEF Inv
<1>1. ASSUME NEW r \in Request, NEW k \in Key \cup {NoKey}, Arrive(r, k) PROVE Inv'
  <2>1. TypeOK'
    BY <1>0, <1>1 DEF Arrive, TypeOK
  <2>2. StoresOwnCall' /\ ReplayIsFresh'
    BY <1>0, <1>1 DEF Arrive, TypeOK, StoresOwnCall, ReplayIsFresh
  <2> QED BY <1>0, <1>1, <2>1, <2>2, CacheUntouched DEF Arrive, Inv
<1>2. ASSUME NEW r \in Request, LookupHit(r) PROVE Inv'
  <2>1. TypeOK'
    BY <1>0, <1>2 DEF LookupHit, TypeOK, Entry
  <2>2. PICK s \in stored : /\ s.key = key[r] /\ s.call = cache[key[r]].call
                            /\ s.at + TTL = cache[key[r]].expires
    <3>1. key[r] \in Key /\ now \in Nat /\ now < cache[key[r]].expires
      BY <1>0, <1>2 DEF LookupHit, Hit, TypeOK
    <3>2. cache[key[r]] # NoEntry
      BY <3>1 DEF NoEntry
    <3> QED BY <1>0, <3>1, <3>2 DEF CacheKnown
  <2>3. s.at <= now /\ now < s.at + TTL
    BY <1>0, <1>2, <2>2 DEF LookupHit, Hit, CacheNewest
  <2>4. ReplayIsFresh'
    BY <1>0, <1>2, <2>2, <2>3 DEF LookupHit, TypeOK, ReplayIsFresh
  <2>5. StoresOwnCall'
    BY <1>0, <1>2 DEF LookupHit, TypeOK, StoresOwnCall
  <2> QED BY <1>0, <1>2, <2>1, <2>4, <2>5, CacheUntouched DEF LookupHit, Inv
<1>3. ASSUME NEW r \in Request, Replay(r) \/ EndWithCall(r) PROVE Inv'
  <2>1. Leave(r) /\ UNCHANGED <<now, cache, calls, stored>>
    BY <1>3 DEF Replay, EndWithCall
  <2>2. TypeOK' /\ StoresOwnCall' /\ ReplayIsFresh'
    BY <1>0, <2>1, LeaveKeeps DEF TypeOK
  <2> QED BY <1>0, <2>1, <2>2, CacheUntouched DEF Inv
<1>4. ASSUME NEW r \in Request, Forward(r) PROVE Inv'
  <2>1. TypeOK'
    BY <1>0, <1>4 DEF Forward, TypeOK
  <2>2. StoresOwnCall' /\ ReplayIsFresh'
    BY <1>0, <1>4 DEF Forward, TypeOK, StoresOwnCall, ReplayIsFresh
  <2> QED BY <1>0, <1>4, <2>1, <2>2, CacheUntouched DEF Forward, Inv
<1>5. ASSUME NEW r \in Request, Answered(r) PROVE Inv'
  <2>1. TypeOK'
    BY <1>0, <1>5 DEF Answered, TypeOK
  <2>2. StoresOwnCall' /\ ReplayIsFresh'
    BY <1>0, <1>5 DEF Answered, TypeOK, StoresOwnCall, ReplayIsFresh
  <2> QED BY <1>0, <1>5, <2>1, <2>2, CacheUntouched DEF Answered, Inv
<1>6. ASSUME NEW r \in Request, Store(r) PROVE Inv'
  <2> DEFINE e == [call |-> answer[r], expires |-> now + TTL]
             new == [key |-> key[r], call |-> answer[r], at |-> now]
  <2>1. /\ cache' = [cache EXCEPT ![key[r]] = e] /\ stored' = stored \cup {new}
        /\ Leave(r) /\ now' = now /\ calls' = calls
    BY <1>6 DEF Store
  <2>2. StoresOwnCall' /\ ReplayIsFresh'
    BY <1>0, <2>1, LeaveKeeps
  <2>3. /\ pc' \in [Request -> {"idle", "looking", "replaying", "forwarding", "storing"}]
        /\ key' \in [Request -> Key \cup {NoKey}]
        /\ answer' \in [Request -> 0..MaxCalls]
        /\ lookedAt' \in [Request -> 0..MaxTime]
    BY <1>0, <2>1, LeaveKeeps
  <2>4. key[r] \in Key /\ answer[r] \in 1..MaxCalls /\ now \in 0..MaxTime
    BY <1>0, <1>6 DEF Store, StoresOwnCall, TypeOK
  <2>5. e \in Entry /\ new \in [key : Key, call : 1..MaxCalls, at : 0..MaxTime]
    BY <1>0, <2>4 DEF Entry
  <2>6. /\ e.call = answer[r] /\ e.expires = now + TTL
        /\ new.key = key[r] /\ new.call = answer[r] /\ new.at = now
        /\ cache'[key[r]] = e
        /\ \A k \in Key \ {key[r]} : cache'[k] = cache[k]
    BY <1>0, <2>1, <2>4 DEF TypeOK
  <2> HIDE DEF e, new
  <2>7. TypeOK'
    BY <1>0, <2>1, <2>3, <2>4, <2>5 DEF TypeOK
  <2>8. CacheKnown'
    <3> SUFFICES ASSUME NEW k \in Key, cache'[k] # NoEntry
                 PROVE  \E s \in stored' : /\ s.key = k /\ s.call = cache'[k].call
                                           /\ s.at + TTL = cache'[k].expires
      BY DEF CacheKnown, NoEntry
    <3>1. CASE k = key[r]
      BY <2>1, <2>6, <3>1
    <3>2. CASE k # key[r]
      BY <1>0, <2>1, <2>6, <3>2 DEF CacheKnown
    <3> QED BY <3>1, <3>2
  <2>9. CacheNewest'
    <3> SUFFICES ASSUME NEW s \in stored'
                 PROVE  s.at <= now /\ s.at + TTL <= cache'[s.key].expires
      BY <2>1 DEF CacheNewest
    <3>1. CASE s = new
      BY <1>0, <2>4, <2>6, <3>1
    <3>2. CASE s \in stored
      <4>1. s.at <= now /\ s.at + TTL <= cache[s.key].expires
            /\ s.key \in Key /\ s.at \in 0..MaxTime
        BY <1>0, <3>2 DEF CacheNewest, TypeOK
      <4> QED BY <1>0, <2>4, <2>6, <4>1
    <3> QED BY <2>1, <3>1, <3>2
  <2> QED BY <2>2, <2>7, <2>8, <2>9 DEF Inv
<1>7. ASSUME Tick PROVE Inv'
  <2>1. TypeOK'
    BY <1>0, <1>7 DEF Tick, TypeOK
  <2>2. CacheKnown' /\ StoresOwnCall' /\ ReplayIsFresh'
    BY <1>0, <1>7 DEF Tick, CacheKnown, StoresOwnCall, ReplayIsFresh
  <2>3. CacheNewest'
    BY <1>0, <1>7 DEF Tick, CacheNewest, TypeOK
  <2> QED BY <2>1, <2>2, <2>3 DEF Inv
<1>8. ASSUME UNCHANGED vars PROVE Inv'
  BY <1>0, <1>8 DEF vars, Inv, TypeOK, CacheKnown, CacheNewest, StoresOwnCall, ReplayIsFresh
<1> QED
  BY <1>1, <1>2, <1>3, <1>4, <1>5, <1>6, <1>7, <1>8 DEF Next

\* What the cache holds, in every reachable state.
THEOREM InvHolds == Spec => []Inv
BY InitInv, NextInv, PTL DEF Spec

\* The variables keep their types.
THEOREM TypeCorrect == Spec => []TypeOK
BY InvHolds, PTL DEF Inv

\* Every replay is a complete response of its own key, live when looked up, for
\* any number of overlapping requests (dedupe.go:53-64).
THEOREM ReplaysAreFresh == Spec => []ReplayIsFresh
BY InvHolds, PTL DEF Inv

\* Nothing goes upstream while a response stored for its key is younger than TTL
\* (dedupe.go:54, 71-78).
THEOREM NeverForgetsEarly == Spec => UpstreamOnlyWhenStale
<1> DEFINE A == \A r \in Request : pc[r] = "looking" /\ pc'[r] = "forwarding" =>
                  \A s \in stored : s.key = key[r] => now >= s.at + TTL
<1>1. Inv /\ [Next]_vars => [A]_vars
  <2> SUFFICES ASSUME Inv, Next, NEW q \in Request, pc[q] = "looking",
                      pc'[q] = "forwarding", NEW s \in stored, s.key = key[q]
               PROVE  now >= s.at + TTL
    OBVIOUS
  <2>0. /\ TypeOK /\ CacheNewest /\ TTL \in Nat /\ MaxTime \in Nat
    BY DedupeAssumption DEF Inv
  <2>1. Forward(q)
    BY <2>0
    DEF Next, Arrive, LookupHit, Replay, Forward, Answered, EndWithCall, Store, Leave, Tick, TypeOK
  <2>2. s.key \in Key /\ s.at \in 0..MaxTime /\ now \in Nat
        /\ s.at + TTL <= cache[s.key].expires /\ cache[s.key].expires \in Nat
    BY <2>0 DEF TypeOK, CacheNewest, Entry
  <2>3. ~(now < cache[s.key].expires)
    BY <2>1, <2>2 DEF Forward, Hit
  <2> QED BY <2>0, <2>2, <2>3
<1> QED
  BY InvHolds, <1>1, PTL DEF Spec, UpstreamOnlyWhenStale, A
=============================================================================
