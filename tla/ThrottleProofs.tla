--------------------------- MODULE ThrottleProofs ---------------------------
(***************************************************************************)
(* Throttle for every set of requests and every MaxConcurrent.              *)
(*                                                                          *)
(* The inductive invariant ties the channel's length to the requests that   *)
(* hold a slot, its queue of senders to the requests that wait, and says    *)
(* the channel is full while anybody waits.  Each conjunct needs the        *)
(* others: a hand-over keeps the count right only because the head of the   *)
(* queue is a waiting request other than the one that releases.             *)
(***************************************************************************)
EXTENDS Throttle, TLAPS, FiniteSetTheorems, SequenceTheorems

Inv == TypeOK /\ SlotsAccounted /\ QueueExact /\ FullWhileQueued

USE ThrottleAssumption

LEMMA SlotsType == Slots \in Nat \ {0}
BY DEF Slots

\* RemoveAt drops the i-th element and closes the gap.
LEMMA RemoveAtFacts ==
  ASSUME NEW S, NEW s \in Seq(S), NEW i \in DOMAIN s
  PROVE  /\ RemoveAt(s, i) \in Seq(S)
         /\ Len(RemoveAt(s, i)) = Len(s) - 1
         /\ \A j \in 1..Len(s) - 1 : RemoveAt(s, i)[j] = IF j < i THEN s[j] ELSE s[j + 1]
<1> DEFINE a == SubSeq(s, 1, i - 1)
           b == SubSeq(s, i + 1, Len(s))
<1>1. /\ Len(s) \in Nat
      /\ DOMAIN s = 1..Len(s)
      /\ i \in 1..Len(s)
      /\ \A j \in 1..Len(s) : s[j] \in S
  OBVIOUS
<1>2. /\ a \in Seq(S)
      /\ Len(a) = i - 1
      /\ \A j \in 1..i - 1 : a[j] = s[j]
  <2>1. \A j \in 1..i - 1 : s[j] \in S
    BY <1>1
  <2> QED BY <1>1, <2>1, SubSeqProperties
<1>3. /\ b \in Seq(S)
      /\ Len(b) = Len(s) - i
      /\ \A j \in 1..Len(s) - i : b[j] = s[j + i]
  <2>1. \A j \in i + 1..Len(s) : s[j] \in S
    BY <1>1
  <2>2. /\ b \in Seq(S)
        /\ Len(b) = IF i + 1 <= Len(s) THEN Len(s) - (i + 1) + 1 ELSE 0
        /\ \A j \in 1..Len(s) - (i + 1) + 1 : b[j] = s[i + 1 + j - 1]
    BY <1>1, <2>1, SubSeqProperties
  <2> HIDE DEF b
  <2>3. Len(b) = Len(s) - i
    BY <1>1, <2>2
  <2>4. ASSUME NEW j \in 1..Len(s) - i PROVE b[j] = s[j + i]
    <3>1. j \in 1..Len(s) - (i + 1) + 1 /\ i + 1 + j - 1 = j + i
      BY <1>1
    <3> QED BY <2>2, <3>1
  <2> QED BY <2>2, <2>3, <2>4
<1>4. RemoveAt(s, i) = a \o b
  BY DEF RemoveAt
<1>5. /\ a \o b \in Seq(S)
      /\ Len(a \o b) = Len(a) + Len(b)
      /\ \A j \in 1..Len(a) + Len(b) :
           (a \o b)[j] = IF j <= Len(a) THEN a[j] ELSE b[j - Len(a)]
  BY <1>2, <1>3, ConcatProperties
<1> HIDE DEF a, b
<1>6. ASSUME NEW j \in 1..Len(s) - 1
      PROVE  (a \o b)[j] = IF j < i THEN s[j] ELSE s[j + 1]
  <2>1. CASE j < i
    BY <1>1, <1>2, <1>3, <1>5, <2>1
  <2>2. CASE ~(j < i)
    <3>1. /\ j \in 1..Len(a) + Len(b)
          /\ ~(j <= Len(a))
          /\ j - Len(a) \in 1..Len(s) - i
      BY <1>1, <1>2, <1>3, <2>2
    <3>2. (a \o b)[j] = b[j - Len(a)]
      BY <1>5, <3>1
    <3>3. b[j - Len(a)] = s[j - Len(a) + i]
      BY <1>3, <3>1
    <3>4. j - Len(a) + i = j + 1
      BY <1>1, <1>2
    <3> QED BY <2>2, <3>2, <3>3, <3>4
  <2> QED BY <2>1, <2>2
<1> QED BY <1>1, <1>2, <1>3, <1>4, <1>5, <1>6

\* Holders is finite, so counting it obeys the usual arithmetic.
LEMMA HoldersFinite == IsFiniteSet(Holders) /\ Cardinality(Holders) \in Nat
BY FS_Subset, FS_CardinalityType DEF Holders

LEMMA InitInv == Init => Inv
<1> SUFFICES ASSUME Init PROVE Inv
  OBVIOUS
<1>1. Holders = {} /\ Waiters = {}
  BY DEF Init, Holders, Waiters, Holding
<1> QED
  BY <1>1, FS_EmptySet, SlotsType
  DEF Init, Inv, TypeOK, SlotsAccounted, QueueExact, FullWhileQueued, PC, ToSet

\* The channel's accounting is preserved by every step.
LEMMA NextInv == Inv /\ [Next]_vars => Inv'
<1> SUFFICES ASSUME Inv, [Next]_vars PROVE Inv'
  OBVIOUS
<1> USE DEF Inv
<1>0. /\ TypeOK /\ SlotsAccounted /\ QueueExact /\ FullWhileQueued
      /\ Slots \in Nat /\ sem \in Nat /\ sem <= Slots
      /\ Len(sendq) \in Nat
      /\ DOMAIN sendq = 1..Len(sendq)
      /\ \A i \in DOMAIN sendq : sendq[i] \in Request /\ pc[sendq[i]] = "waiting"
      /\ \A q \in Request : pc[q] = "waiting" => \E i \in DOMAIN sendq : sendq[i] = q
  BY SlotsType DEF QueueExact, TypeOK, ToSet, Waiters
<1>1. ASSUME NEW r \in Request, Acquire(r) PROVE Inv'
  <2>1. TypeOK'
    <3>1. sem + 1 \in 0..Slots
      BY <1>1, <1>0, SlotsType DEF Acquire, TypeOK
    <3> QED BY <1>0, <1>1, <3>1 DEF Acquire, TypeOK, PC, Holding
  <2>2. Holders' = Holders \cup {r} /\ r \notin Holders
    BY <1>0, <1>1 DEF Acquire, TypeOK, Holders, Holding
  <2>3. SlotsAccounted'
    BY <1>0, <1>1, <2>2, HoldersFinite, FS_AddElement DEF Acquire, SlotsAccounted
  <2>4. QueueExact'
    BY <1>0, <1>1 DEF Acquire, QueueExact, TypeOK, Waiters
  <2>5. FullWhileQueued'
    BY <1>0, <1>1 DEF Acquire, FullWhileQueued, TypeOK
  <2> QED BY <2>1, <2>3, <2>4, <2>5
<1>2. ASSUME NEW r \in Request, Enqueue(r) PROVE Inv'
  <2>1. /\ sendq' \in Seq(Request)
        /\ Len(sendq') = Len(sendq) + 1
        /\ DOMAIN sendq' = 1..Len(sendq) + 1
        /\ sendq'[Len(sendq) + 1] = r
        /\ \A i \in 1..Len(sendq) : sendq'[i] = sendq[i]
    BY <1>0, <1>2 DEF Enqueue, TypeOK
  <2>2. TypeOK'
    BY <1>0, <1>2, <2>1 DEF Enqueue, TypeOK, PC
  <2>3. SlotsAccounted'
    <3>1. Holders' = Holders
      BY <1>0, <1>2 DEF Enqueue, TypeOK, Holders, Holding
    <3> QED BY <1>0, <1>2, <3>1 DEF Enqueue, SlotsAccounted
  <2>4. QueueExact'
    <3>1. ToSet(sendq') = ToSet(sendq) \cup {r}
      BY <1>0, <2>1 DEF ToSet
    <3>2. Waiters' = Waiters \cup {r}
      BY <1>0, <1>2 DEF Enqueue, TypeOK, Waiters
    <3>3. \A i \in 1..Len(sendq) : sendq[i] # r
      BY <1>0, <1>2 DEF Enqueue
    <3> QED BY <1>0, <2>1, <3>1, <3>2, <3>3 DEF QueueExact
  <2>5. FullWhileQueued'
    BY <1>0, <1>2 DEF Enqueue, FullWhileQueued, TypeOK
  <2> QED BY <2>2, <2>3, <2>4, <2>5
<1>3. ASSUME NEW r \in Request, QueueTimeout(r) PROVE Inv'
  <2> PICK k \in DOMAIN sendq : sendq[k] = r /\ sendq' = RemoveAt(sendq, k)
    BY <1>3 DEF QueueTimeout
  <2>1. /\ sendq' \in Seq(Request)
        /\ Len(sendq') = Len(sendq) - 1
        /\ DOMAIN sendq' = 1..Len(sendq) - 1
        /\ \A j \in 1..Len(sendq) - 1 :
             sendq'[j] = IF j < k THEN sendq[j] ELSE sendq[j + 1]
    <3>1. sendq \in Seq(Request)
      BY <1>0 DEF TypeOK
    <3>2. /\ RemoveAt(sendq, k) \in Seq(Request)
          /\ Len(RemoveAt(sendq, k)) = Len(sendq) - 1
          /\ \A j \in 1..Len(sendq) - 1 :
               RemoveAt(sendq, k)[j] = IF j < k THEN sendq[j] ELSE sendq[j + 1]
      BY <3>1, RemoveAtFacts
    <3> QED BY <3>2
  <2>2. TypeOK'
    BY <1>0, <1>3, <2>1 DEF QueueTimeout, TypeOK, PC, Over
  <2>3. SlotsAccounted'
    <3>1. Holders' = Holders
      BY <1>0, <1>3 DEF QueueTimeout, TypeOK, Holders, Holding
    <3> QED BY <1>0, <1>3, <3>1 DEF QueueTimeout, SlotsAccounted
  <2>4. QueueExact'
    <3>1. Waiters' = Waiters \ {r}
      BY <1>0, <1>3 DEF QueueTimeout, TypeOK, Waiters
    <3>2. \A i, j \in DOMAIN sendq : sendq[i] = sendq[j] => i = j
      BY <1>0 DEF QueueExact
    <3>3. ASSUME NEW i \in DOMAIN sendq', NEW j \in DOMAIN sendq', sendq'[i] = sendq'[j]
          PROVE  i = j
      <4> DEFINE from(n) == IF n < k THEN n ELSE n + 1
      <4>1. /\ from(i) \in DOMAIN sendq /\ sendq'[i] = sendq[from(i)]
            /\ from(j) \in DOMAIN sendq /\ sendq'[j] = sendq[from(j)]
            /\ i \in Int /\ j \in Int /\ k \in Int
        BY <1>0, <2>1
      <4>2. from(i) = from(j)
        BY <3>2, <3>3, <4>1
      <4> QED BY <4>1, <4>2
    <3>4. \A j \in DOMAIN sendq' : sendq'[j] \in Waiters \ {r}
      BY <1>0, <2>1, <3>2 DEF Waiters
    <3>5. ASSUME NEW q \in Waiters \ {r} PROVE \E j \in DOMAIN sendq' : sendq'[j] = q
      <4>1. PICK i \in DOMAIN sendq : sendq[i] = q
        BY <1>0 DEF Waiters
      <4>2. CASE i < k
        BY <1>0, <2>1, <4>1, <4>2
      <4>3. CASE i > k
        <5>1. i - 1 \in DOMAIN sendq' /\ sendq'[i - 1] = q
          BY <1>0, <2>1, <4>1, <4>3
        <5> QED BY <5>1
      <4> QED BY <1>0, <4>1, <4>2, <4>3
    <3> QED BY <3>1, <3>3, <3>4, <3>5 DEF QueueExact, ToSet
  <2>5. FullWhileQueued'
    BY <1>0, <1>3, <2>1 DEF QueueTimeout, FullWhileQueued, TypeOK
  <2> QED BY <2>2, <2>3, <2>4, <2>5
<1>4. ASSUME NEW r \in Request,
             ExpireAtSelect(r) \/ Return(r) \/ Panic(r) \/ NextRequest(r)
      PROVE  Inv'
  <2>1. TypeOK'
    BY <1>0, <1>4 DEF ExpireAtSelect, Return, Panic, NextRequest, TypeOK, PC, Holding, Over
  <2>2. Holders' = Holders /\ Waiters' = Waiters
    BY <1>0, <1>4
    DEF ExpireAtSelect, Return, Panic, NextRequest, TypeOK, Holders, Waiters, Holding, Over
  <2>3. sem' = sem /\ sendq' = sendq
    BY <1>4 DEF ExpireAtSelect, Return, Panic, NextRequest
  <2> QED
    BY <1>0, <2>1, <2>2, <2>3 DEF SlotsAccounted, QueueExact, FullWhileQueued
<1>5. ASSUME NEW r \in Request, Release(r) PROVE Inv'
  <2>1. TypeOK'
    <3>1. sem' \in 0..Slots
      BY <1>0, <1>5 DEF Release
    <3> QED BY <1>0, <1>5, <3>1 DEF Release, TypeOK, PC, Holding, Over, Outcome
  <2>2. Holders' = Holders \ {r} /\ r \in Holders
    BY <1>0, <1>5 DEF Release, TypeOK, Holders, Holding, Outcome
  <2>3. SlotsAccounted'
    BY <1>0, <1>5, <2>2, HoldersFinite, FS_RemoveElement DEF Release, SlotsAccounted
  <2>4. Waiters' = Waiters
    BY <1>0, <1>5 DEF Release, TypeOK, Waiters, Outcome
  <2> QED
    BY <1>0, <1>5, <2>1, <2>3, <2>4 DEF Release, QueueExact, FullWhileQueued
<1>6. ASSUME NEW r \in Request, ReleaseTo(r) PROVE Inv'
  <2> DEFINE h == Head(sendq)
  <2>1. /\ h = sendq[1] /\ 1 \in DOMAIN sendq /\ h \in Request
        /\ pc[h] = "waiting" /\ h # r
        /\ sendq' \in Seq(Request)
        /\ Len(sendq') = Len(sendq) - 1
        /\ DOMAIN sendq' = 1..Len(sendq) - 1
        /\ \A j \in 1..Len(sendq) - 1 : sendq'[j] = sendq[j + 1]
    <3>1. sendq # <<>> /\ sendq' = Tail(sendq) /\ pc[r] # "waiting"
      BY <1>6 DEF ReleaseTo
    <3> QED BY <1>0, <3>1, HeadTailProperties DEF TypeOK
  <2> HIDE DEF h
  <2>2. pc' = [pc EXCEPT ![r] = Outcome(r), ![h] = "running"] /\ sem' = sem
    BY <1>6 DEF ReleaseTo, h
  <2>3. TypeOK'
    BY <1>0, <2>1, <2>2 DEF TypeOK, PC, Holding, Over, Outcome
  <2>4. /\ Holders' = (Holders \ {r}) \cup {h}
        /\ r \in Holders /\ h \notin Holders
    BY <1>0, <1>6, <2>1, <2>2 DEF ReleaseTo, TypeOK, Holders, Holding, Outcome
  <2>5. SlotsAccounted'
    <3>1. /\ IsFiniteSet(Holders \ {r})
          /\ Cardinality(Holders \ {r}) = Cardinality(Holders) - 1
      BY <2>4, HoldersFinite, FS_RemoveElement
    <3>2. Cardinality(Holders') = Cardinality(Holders) - 1 + 1
      BY <2>4, <3>1, FS_AddElement
    <3> QED BY <1>0, <2>2, <3>2, HoldersFinite DEF SlotsAccounted
  <2>6. QueueExact'
    <3>1. Waiters' = Waiters \ {h}
      BY <1>0, <1>6, <2>1, <2>2 DEF ReleaseTo, TypeOK, Waiters, Outcome
    <3>2. \A i, j \in DOMAIN sendq : sendq[i] = sendq[j] => i = j
      BY <1>0 DEF QueueExact
    <3>3. ASSUME NEW i \in DOMAIN sendq', NEW j \in DOMAIN sendq', sendq'[i] = sendq'[j]
          PROVE  i = j
      <4>1. /\ i + 1 \in DOMAIN sendq /\ sendq'[i] = sendq[i + 1]
            /\ j + 1 \in DOMAIN sendq /\ sendq'[j] = sendq[j + 1]
            /\ i \in Int /\ j \in Int
        BY <1>0, <2>1
      <4>2. i + 1 = j + 1
        BY <3>2, <3>3, <4>1
      <4> QED BY <4>1, <4>2
    <3>4. \A j \in DOMAIN sendq' : sendq'[j] \in Waiters \ {h}
      BY <1>0, <2>1, <3>2 DEF Waiters
    <3>5. ASSUME NEW q \in Waiters \ {h} PROVE \E j \in DOMAIN sendq' : sendq'[j] = q
      <4>1. PICK i \in DOMAIN sendq : sendq[i] = q
        BY <1>0 DEF Waiters
      <4>2. i - 1 \in DOMAIN sendq' /\ sendq'[i - 1] = q
        BY <1>0, <2>1, <4>1
      <4> QED BY <4>2
    <3> QED BY <3>1, <3>3, <3>4, <3>5 DEF QueueExact, ToSet
  <2>7. FullWhileQueued'
    BY <1>0, <1>6, <2>2 DEF ReleaseTo, FullWhileQueued
  <2> QED BY <2>3, <2>5, <2>6, <2>7
<1>7. CASE UNCHANGED vars
  BY <1>0, <1>7
  DEF vars, TypeOK, SlotsAccounted, QueueExact, FullWhileQueued, Holders, Waiters
<1> QED
  BY <1>1, <1>2, <1>3, <1>4, <1>5, <1>6, <1>7 DEF Next, Step

\* The three accounts of the semaphore hold in every reachable state.
THEOREM InvHolds == Spec => []Inv
BY InitInv, NextInv, PTL DEF Spec

\* The variables keep their types; the buffer never overflows (throttle.go:58).
THEOREM TypeCorrect == Spec => []TypeOK
BY InvHolds, PTL DEF Inv

\* Every token in the channel is one request between its send and its deferred
\* receive, for any number of requests and any MaxConcurrent (throttle.go:62-70).
THEOREM SlotsConserved == Spec => []SlotsAccounted
BY InvHolds, PTL DEF Inv

\* The parked senders are exactly the requests that wait, once each.
THEOREM QueueIsExact == Spec => []QueueExact
BY InvHolds, PTL DEF Inv

\* Nobody waits while a slot is free.
THEOREM NeverIdleWhileQueued == Spec => []FullWhileQueued
BY InvHolds, PTL DEF Inv

\* A request that starts running overtakes nobody: an arrival finds the queue
\* empty, since a free slot means nobody waits, and a release serves its head.
THEOREM NoOvertakingHolds == Spec => NoOvertaking
<1> DEFINE Fair(r) == pc[r] # "running" /\ pc'[r] = "running" =>
                        sendq = <<>> \/ r = Head(sendq)
<1>1. Inv /\ [Next]_vars => [\A r \in Request : Fair(r)]_vars
  <2> SUFFICES ASSUME Inv, Next, NEW q \in Request, pc[q] # "running", pc'[q] = "running",
                      sendq # <<>>
               PROVE  q = Head(sendq)
    BY DEF Fair
  <2>1. PICK r \in Request : Step(r)
    BY DEF Next
  <2>2. pc \in [Request -> PC] /\ sem = Slots
    BY DEF Inv, TypeOK, FullWhileQueued
  <2>3. CASE ReleaseTo(r)
    BY <2>2, <2>3 DEF ReleaseTo, Outcome
  <2>4. CASE Acquire(r)
    BY <2>2, <2>4, SlotsType DEF Acquire
  <2>5. CASE \/ Enqueue(r) \/ ExpireAtSelect(r) \/ QueueTimeout(r) \/ Return(r)
             \/ Panic(r) \/ Release(r) \/ NextRequest(r)
    BY <2>2, <2>5
    DEF Enqueue, ExpireAtSelect, QueueTimeout, Return, Panic, Release, NextRequest, Outcome
  <2> QED BY <2>1, <2>3, <2>4, <2>5 DEF Step
<1> QED
  BY InvHolds, <1>1, PTL DEF Spec, NoOvertaking, Fair

\* The abstract module counts with its own copy of Cardinality: it is the same.
LEMMA SameCardinality == ASSUME NEW S PROVE Limiter!Cardinality(S) = Cardinality(S)
BY Zenon DEF Limiter!Cardinality, Cardinality

\* The semaphore implements the abstract limiter under LimitStatus: never more
\* than Slots requests in the next handler, refused ones not at all.
THEOREM ImplementsLimit == Spec => LimitSpec
<1> USE DEF LimitStatus, Holding
<1>1. Init => Limiter!Init
  BY DEF Init, Limiter!Init
<1>2. Inv /\ [Next]_vars => [Limiter!Next]_LimitStatus
  <2> SUFFICES ASSUME Inv, [Next]_vars PROVE Limiter!Next \/ LimitStatus' = LimitStatus
    OBVIOUS
  <2>0. pc \in [Request -> PC] /\ Limiter!Inside = Holders
    BY DEF Inv, TypeOK, Limiter!Inside, Holders
  <2>1. ASSUME NEW r \in Request, Acquire(r) PROVE Limiter!Enter(r)
    <3>1. Cardinality(Holders) < Slots
      BY <2>1 DEF Inv, SlotsAccounted, Acquire
    <3>2. Limiter!Cardinality(Limiter!Inside) < Slots
      BY <2>0, <3>1, SameCardinality
    <3> QED BY <2>0, <2>1, <3>2 DEF Acquire, Limiter!Enter
  <2>2. ASSUME NEW r \in Request, Enqueue(r) \/ Return(r) \/ Panic(r)
        PROVE  LimitStatus' = LimitStatus
    BY <2>0, <2>2 DEF Enqueue, Return, Panic
  <2>3. ASSUME NEW r \in Request, ExpireAtSelect(r) \/ QueueTimeout(r)
        PROVE  Limiter!Refuse(r)
    BY <2>0, <2>3 DEF ExpireAtSelect, QueueTimeout, Limiter!Refuse
  <2>4. ASSUME NEW r \in Request, Release(r) PROVE Limiter!Leave(r)
    BY <2>0, <2>4 DEF Release, Outcome, Limiter!Leave
  <2>5. ASSUME NEW r \in Request, ReleaseTo(r) PROVE Limiter!HandOver(r, Head(sendq))
    <3> DEFINE h == Head(sendq)
    <3>1. h \in Request /\ pc[h] = "waiting"
      <4>1. sendq \in Seq(Request) /\ sendq # <<>> /\ ToSet(sendq) = Waiters
        BY <2>5 DEF Inv, TypeOK, QueueExact, ReleaseTo
      <4>2. h = sendq[1] /\ 1 \in DOMAIN sendq
        BY <4>1
      <4> QED BY <4>1, <4>2 DEF ToSet, Waiters
    <3>2. pc' = [pc EXCEPT ![r] = Outcome(r), ![h] = "running"]
      BY <2>5 DEF ReleaseTo
    <3> HIDE DEF h
    <3>3. Limiter!HandOver(r, h)
      BY <2>0, <2>5, <3>1, <3>2 DEF ReleaseTo, Outcome, Limiter!HandOver
    <3> QED BY <3>3 DEF h
  <2>6. ASSUME NEW r \in Request, NextRequest(r)
        PROVE  Limiter!Forget(r) \/ LimitStatus' = LimitStatus
    BY <2>0, <2>6 DEF NextRequest, Over, Limiter!Forget
  <2>7. ASSUME UNCHANGED vars PROVE LimitStatus' = LimitStatus
    BY <2>7 DEF vars
  <2>8. ASSUME NEW r \in Request, ReleaseTo(r) PROVE Head(sendq) \in Request
    BY <2>8, HeadTailProperties DEF Inv, TypeOK, ReleaseTo
  <2>9. ASSUME NEW r \in Request, Step(r) PROVE Limiter!Next \/ LimitStatus' = LimitStatus
    <3> HIDE DEF LimitStatus
    <3>1. CASE Acquire(r)
      BY <2>1, <3>1 DEF Limiter!Next
    <3>2. CASE Enqueue(r) \/ Return(r) \/ Panic(r)
      BY <2>2, <3>2
    <3>3. CASE ExpireAtSelect(r) \/ QueueTimeout(r)
      BY <2>3, <3>3 DEF Limiter!Next
    <3>4. CASE Release(r)
      BY <2>4, <3>4 DEF Limiter!Next
    <3>5. CASE ReleaseTo(r)
      BY <2>5, <2>8, <3>5 DEF Limiter!Next
    <3>6. CASE NextRequest(r)
      BY <2>6, <3>6 DEF Limiter!Next
    <3> QED BY <2>9, <3>1, <3>2, <3>3, <3>4, <3>5, <3>6 DEF Step
  <2> QED BY <2>7, <2>9 DEF Next
<1> QED
  BY <1>1, <1>2, InvHolds, PTL DEF Spec, LimitSpec, Limiter!Spec
=============================================================================
