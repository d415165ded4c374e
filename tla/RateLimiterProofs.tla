-------------------------- MODULE RateLimiterProofs --------------------------
(***************************************************************************)
(* RateLimiter for every set of clients, every max and every window.        *)
(*                                                                          *)
(* BurstBound is not inductive.  Its reason is how buckets lie on the log:  *)
(* every stretch of Quota admissions is followed, within the next Quota, by *)
(* one that opened a bucket (Reopened), and the openings of two different   *)
(* buckets are more than a window apart (Spaced).  Both are stated of one   *)
(* client's log s, openings S, count c and window end w at time t.          *)
(***************************************************************************)
EXTENDS RateLimiter, TLAPS

\* The log is in the order of time.
Ordered(s, t) ==
  /\ \A i \in 1..Len(s) : s[i] <= t
  /\ \A i, j \in 1..Len(s) : i <= j => s[i] <= s[j]

\* The current bucket holds the last c admissions, and its first one set its
\* window; no opening is later than that.
Current(s, S, c, w) ==
  /\ c <= Len(s) /\ c <= Quota
  /\ Len(s) > 0 => c > 0
  /\ \A b \in S : b \in 1..Len(s) /\ b <= Len(s) - c + 1
  /\ c > 0 => Len(s) - c + 1 \in S /\ w = s[Len(s) - c + 1] + window

Spaced(s, S) == \A b, d \in S : b < d => s[d] > s[b] + window

Reopened(s, S) ==
  \A i \in 1..Len(s) - Quota : \E b \in S : i < b /\ b <= i + Quota

BucketInv(s, S, c, w, t) ==
  Ordered(s, t) /\ Current(s, S, c, w) /\ Spaced(s, S) /\ Reopened(s, S)

Inv ==
  /\ TypeOK
  /\ \A k \in Key : BucketInv(log[k], starts[k], count[k], windowEnd[k], now)

LEMMA QuotaType ==
  /\ Quota \in Nat \ {0} /\ window \in Nat /\ max \in Int
  /\ \A n \in Nat : n < max => n + 1 <= Quota
BY RateAssumption DEF Quota

\* What appending one admission at time t does to a log.
LEMMA AppendLog ==
  ASSUME NEW s \in Seq(Nat), NEW t \in Nat
  PROVE  /\ Append(s, t) \in Seq(Nat)
         /\ Len(s) \in Nat
         /\ Len(Append(s, t)) = Len(s) + 1
         /\ Append(s, t)[Len(s) + 1] = t
         /\ \A i \in 1..Len(s) : Append(s, t)[i] = s[i] /\ s[i] \in Nat
OBVIOUS

\* An admission now keeps the log in order.
LEMMA OrderedAppend ==
  ASSUME NEW s \in Seq(Nat), NEW t \in Nat, Ordered(s, t)
  PROVE  Ordered(Append(s, t), t)
<1> DEFINE a == Append(s, t)
           n == Len(s)
<1>1. /\ n \in Nat /\ Len(a) = n + 1 /\ a[n + 1] = t
      /\ \A i \in 1..n : a[i] = s[i] /\ s[i] \in Nat
      /\ \A i \in 1..n : s[i] <= t
      /\ \A i, j \in 1..n : i <= j => s[i] <= s[j]
  BY AppendLog DEF Ordered
<1> SUFFICES Ordered(a, t)
  OBVIOUS
<1> HIDE DEF a, n
<1>2. ASSUME NEW i \in 1..n + 1 PROVE a[i] <= t
  BY <1>1
<1>3. ASSUME NEW i \in 1..n + 1, NEW j \in 1..n + 1, i <= j PROVE a[i] <= a[j]
  <2>1. CASE j = n + 1
    BY <1>1, <1>2, <2>1
  <2>2. CASE j # n + 1
    <3>1. i \in 1..n /\ j \in 1..n
      BY <1>1, <1>3, <2>2
    <3> QED BY <1>1, <1>3, <3>1
  <2> QED BY <2>1, <2>2
<1> QED BY <1>1, <1>2, <1>3 DEF Ordered

\* Opening a bucket once the last one has expired.
LEMMA OpenKeeps ==
  ASSUME NEW s \in Seq(Nat), NEW S, NEW c \in Nat, NEW w \in Nat, NEW t \in Nat,
         BucketInv(s, S, c, w, t), c = 0 \/ t > w
  PROVE  BucketInv(Append(s, t), S \cup {Len(s) + 1}, 1, t + window, t)
<1> DEFINE a == Append(s, t)
           n == Len(s)
           N == S \cup {n + 1}
<1>0. Quota \in Nat \ {0} /\ window \in Nat
  BY QuotaType
<1>1. /\ n \in Nat /\ Len(a) = n + 1 /\ a[n + 1] = t
      /\ \A i \in 1..n : a[i] = s[i] /\ s[i] \in Nat
  BY AppendLog
<1>2. /\ \A i, j \in 1..n : i <= j => s[i] <= s[j]
      /\ c <= n
      /\ n > 0 => c > 0
      /\ \A b \in S : b \in 1..n /\ b <= n - c + 1
      /\ c > 0 => n - c + 1 \in S /\ w = s[n - c + 1] + window
      /\ \A b, d \in S : b < d => s[d] > s[b] + window
      /\ \A i \in 1..n - Quota : \E b \in S : i < b /\ b <= i + Quota
  BY DEF BucketInv, Ordered, Current, Spaced, Reopened
<1> SUFFICES BucketInv(a, N, 1, t + window, t)
  OBVIOUS
<1>3. Ordered(a, t)
  BY OrderedAppend DEF BucketInv
<1> HIDE DEF a, n
<1>4. Current(a, N, 1, t + window)
  BY <1>0, <1>1, <1>2 DEF Current
<1>5. ASSUME NEW b \in S PROVE t > s[b] + window
  <2>1. b \in 1..n /\ c > 0 /\ t > w /\ n - c + 1 \in 1..n /\ b <= n - c + 1
    BY <1>1, <1>2
  <2>2. s[b] <= s[n - c + 1] /\ w = s[n - c + 1] + window
    BY <1>2, <2>1
  <2>3. s[b] \in Nat /\ s[n - c + 1] \in Nat
    BY <1>1, <2>1
  <2> QED BY <1>0, <2>1, <2>2, <2>3
<1>6. ASSUME NEW b \in N, NEW d \in N, b < d PROVE a[d] > a[b] + window
  <2>1. b \in S /\ b \in 1..n
    BY <1>1, <1>2, <1>6
  <2>2. CASE d = n + 1
    BY <1>1, <1>5, <2>1, <2>2
  <2>3. CASE d \in S
    <3>1. d \in 1..n /\ s[d] > s[b] + window
      BY <1>2, <1>6, <2>1, <2>3
    <3> QED BY <1>1, <2>1, <3>1
  <2> QED BY <2>2, <2>3
<1>7. ASSUME NEW i \in 1..n + 1 - Quota PROVE \E b \in N : i < b /\ b <= i + Quota
  <2>1. CASE i = n + 1 - Quota
    <3>1. n + 1 \in N /\ i < n + 1 /\ n + 1 <= i + Quota
      BY <1>0, <1>1, <2>1
    <3> QED BY <3>1
  <2>2. CASE i # n + 1 - Quota
    <3>1. i \in 1..n - Quota
      BY <1>0, <1>1, <2>2
    <3> QED BY <1>2, <3>1
  <2> QED BY <2>1, <2>2
<1>8. Spaced(a, N)
  BY <1>6 DEF Spaced
<1>9. Reopened(a, N)
  <2>1. Len(a) - Quota = n + 1 - Quota
    BY <1>0, <1>1
  <2> QED BY <1>7, <2>1, Zenon DEF Reopened
<1> QED BY <1>3, <1>4, <1>8, <1>9 DEF BucketInv

\* Admitting one more request into a bucket that has room.
LEMMA AdmitKeeps ==
  ASSUME NEW s \in Seq(Nat), NEW S, NEW c \in Nat, NEW w \in Nat, NEW t \in Nat,
         BucketInv(s, S, c, w, t), c > 0, c < max
  PROVE  BucketInv(Append(s, t), S, c + 1, w, t)
<1> DEFINE a == Append(s, t)
           n == Len(s)
<1>0. Quota \in Nat \ {0} /\ window \in Nat /\ c + 1 <= Quota
  BY QuotaType
<1>1. /\ n \in Nat /\ Len(a) = n + 1
      /\ \A i \in 1..n : a[i] = s[i] /\ s[i] \in Nat
  BY AppendLog
<1>2. /\ c <= n
      /\ \A b \in S : b \in 1..n /\ b <= n - c + 1
      /\ n - c + 1 \in S /\ w = s[n - c + 1] + window
      /\ \A b, d \in S : b < d => s[d] > s[b] + window
      /\ \A i \in 1..n - Quota : \E b \in S : i < b /\ b <= i + Quota
  BY DEF BucketInv, Ordered, Current, Spaced, Reopened
<1> SUFFICES BucketInv(a, S, c + 1, w, t)
  OBVIOUS
<1>3. Ordered(a, t)
  BY OrderedAppend DEF BucketInv
<1> HIDE DEF a, n
<1>4. Current(a, S, c + 1, w)
  <2>1. (n + 1) - (c + 1) + 1 = n - c + 1 /\ n - c + 1 \in 1..n
    BY <1>1, <1>2
  <2>2. a[n - c + 1] = s[n - c + 1]
    BY <1>1, <2>1
  <2>3. \A b \in S : b \in 1..n + 1 /\ b <= n - c + 1
    BY <1>1, <1>2
  <2> QED BY <1>0, <1>1, <1>2, <2>1, <2>2, <2>3 DEF Current
<1>5. ASSUME NEW b \in S, NEW d \in S, b < d PROVE a[d] > a[b] + window
  BY <1>1, <1>2, <1>5
<1>6. ASSUME NEW i \in 1..n + 1 - Quota PROVE \E b \in S : i < b /\ b <= i + Quota
  <2>1. CASE i = n + 1 - Quota
    <3>1. n - c + 1 \in S /\ i < n - c + 1 /\ n - c + 1 <= i + Quota
      BY <1>0, <1>1, <1>2, <2>1
    <3> QED BY <3>1
  <2>2. CASE i # n + 1 - Quota
    <3>1. i \in 1..n - Quota
      BY <1>0, <1>1, <2>2
    <3> QED BY <1>2, <3>1
  <2> QED BY <2>1, <2>2
<1>7. Spaced(a, S)
  BY <1>5 DEF Spaced
<1>8. Reopened(a, S)
  <2>1. Len(a) - Quota = n + 1 - Quota
    BY <1>0, <1>1
  <2> QED BY <1>6, <2>1, Zenon DEF Reopened
<1> QED BY <1>3, <1>4, <1>7, <1>8 DEF BucketInv

\* Time passing.
LEMMA TickKeeps ==
  ASSUME NEW s \in Seq(Nat), NEW S, NEW c, NEW w, NEW t \in Nat,
         BucketInv(s, S, c, w, t)
  PROVE  BucketInv(s, S, c, w, t + 1)
<1>1. \A i \in 1..Len(s) : s[i] \in Nat /\ s[i] <= t
  BY DEF BucketInv, Ordered
<1> QED BY <1>1 DEF BucketInv, Ordered

LEMMA InitInv == Init => Inv
<1> SUFFICES ASSUME Init PROVE Inv
  OBVIOUS
<1>1. TypeOK
  <2>1. 0 \in 0..Quota
    BY QuotaType
  <2> QED BY <2>1 DEF Init, TypeOK
<1>2. BucketInv(<<>>, {}, 0, 0, 0)
  BY QuotaType DEF BucketInv, Ordered, Current, Spaced, Reopened
<1> QED BY <1>1, <1>2 DEF Init, Inv

LEMMA NextInv == Inv /\ [Next]_vars => Inv'
<1> SUFFICES ASSUME Inv, [Next]_vars PROVE Inv'
  OBVIOUS
<1>0. /\ now \in Nat
      /\ Quota \in Nat \ {0} /\ window \in Nat /\ max \in Int
      /\ count \in [Key -> 0..Quota] /\ windowEnd \in [Key -> Nat]
      /\ log \in [Key -> Seq(Nat)] /\ starts \in [Key -> SUBSET Nat]
      /\ \A k \in Key : BucketInv(log[k], starts[k], count[k], windowEnd[k], now)
  BY QuotaType DEF Inv, TypeOK
<1>1. ASSUME NEW k \in Key, OpenBucket(k) PROVE Inv'
  <2>1. /\ Append(log[k], now) \in Seq(Nat)
        /\ Len(log[k]) + 1 \in Nat
        /\ now + window \in Nat /\ 1 \in 0..Quota
    BY <1>0
  <2>2. TypeOK'
    BY <1>0, <1>1, <2>1 DEF OpenBucket, Admitted, TypeOK
  <2>3. BucketInv(Append(log[k], now), starts[k] \cup {Len(log[k]) + 1}, 1, now + window, now)
    BY <1>0, <1>1, OpenKeeps DEF OpenBucket, Expired
  <2>4. ASSUME NEW q \in Key
        PROVE  BucketInv(log[q], starts[q], count[q], windowEnd[q], now)'
    BY <1>0, <1>1, <2>3 DEF OpenBucket, Admitted
  <2> QED BY <2>2, <2>4 DEF Inv
<1>2. ASSUME NEW k \in Key, Admit(k) PROVE Inv'
  <2>1. /\ Append(log[k], now) \in Seq(Nat)
        /\ count[k] \in Nat /\ count[k] > 0 /\ count[k] < max
        /\ count[k] + 1 \in 0..Quota
    <3>1. count[k] \in 0..Quota /\ count[k] # 0 /\ count[k] < max
      BY <1>0, <1>2 DEF Admit, Expired
    <3>2. count[k] \in Nat
      BY <1>0, <3>1
    <3>3. count[k] + 1 <= Quota
      BY <3>1, <3>2, QuotaType
    <3> QED BY <1>0, <3>1, <3>2, <3>3
  <2>2. TypeOK'
    BY <1>0, <1>2, <2>1 DEF Admit, Admitted, TypeOK
  <2>3. BucketInv(Append(log[k], now), starts[k], count[k] + 1, windowEnd[k], now)
    BY <1>0, <2>1, AdmitKeeps
  <2>4. ASSUME NEW q \in Key
        PROVE  BucketInv(log[q], starts[q], count[q], windowEnd[q], now)'
    BY <1>0, <1>2, <2>3 DEF Admit, Admitted
  <2> QED BY <2>2, <2>4 DEF Inv
<1>3. ASSUME Tick PROVE Inv'
  <2>1. TypeOK'
    BY <1>0, <1>3 DEF Tick, TypeOK
  <2>2. ASSUME NEW q \in Key
        PROVE  BucketInv(log[q], starts[q], count[q], windowEnd[q], now)'
    BY <1>0, <1>3, TickKeeps DEF Tick
  <2> QED BY <2>1, <2>2 DEF Inv
<1>4. ASSUME UNCHANGED vars PROVE Inv'
  BY <1>0, <1>4 DEF vars, Inv, TypeOK
<1> QED
  BY <1>1, <1>2, <1>3, <1>4 DEF Next, Allow, Refuse

\* How buckets lie on the log, in every reachable state.
THEOREM InvHolds == Spec => []Inv
BY InitInv, NextInv, PTL DEF Spec

\* The variables keep their types; no bucket counts past the quota.
THEOREM TypeCorrect == Spec => []TypeOK
BY InvHolds, PTL DEF Inv

\* No client gets more than twice the quota through within one window's time,
\* for any number of clients, any max and any window (ratelimit.go:31-47).
THEOREM BurstsBounded == Spec => []BurstBound
<1>1. Inv => BurstBound
  <2> SUFFICES ASSUME Inv, NEW k \in Key, NEW i \in 1..Len(log[k]) - 2 * Quota
               PROVE  log[k][i + 2 * Quota] > log[k][i] + window
    BY DEF BurstBound
  <2> DEFINE s == log[k]
             S == starts[k]
             n == Len(s)
             q == Quota
  <2>0. /\ q \in Nat \ {0} /\ window \in Nat /\ n \in Nat
        /\ \A j \in 1..n : s[j] \in Nat
    BY QuotaType DEF Inv, TypeOK
  <2>1. /\ \A j, l \in 1..n : j <= l => s[j] <= s[l]
        /\ \A b \in S : b \in 1..n
        /\ \A b, d \in S : b < d => s[d] > s[b] + window
        /\ \A j \in 1..n - q : \E b \in S : j < b /\ b <= j + q
    BY DEF Inv, BucketInv, Ordered, Current, Spaced, Reopened
  <2>2. i \in 1..n - 2 * q
    OBVIOUS
  <2> SUFFICES s[i + 2 * q] > s[i] + window
    OBVIOUS
  <2> HIDE DEF s, S, n, q
  <2>3. /\ i \in 1..n - q /\ i + q \in 1..n - q
        /\ i + 2 * q \in 1..n /\ i \in 1..n
    BY <2>0, <2>2
  <2>4. PICK b \in S : i < b /\ b <= i + q
    BY <2>1, <2>3
  <2>5. PICK d \in S : i + q < d /\ d <= i + q + q
    BY <2>1, <2>3
  <2>6. b \in 1..n /\ d \in 1..n /\ b < d /\ i <= b /\ d <= i + 2 * q
    BY <2>0, <2>1, <2>3, <2>4, <2>5
  <2>7. s[d] > s[b] + window /\ s[i] <= s[b] /\ s[d] <= s[i + 2 * q]
    BY <2>1, <2>3, <2>4, <2>5, <2>6
  <2>8. s[i] \in Nat /\ s[b] \in Nat /\ s[d] \in Nat /\ s[i + 2 * q] \in Nat
    BY <2>0, <2>3, <2>6
  <2> QED BY <2>0, <2>7, <2>8
<1> QED BY <1>1, InvHolds, PTL

\* A refused client really had max admissions within the last window.
THEOREM RefusalsEarned == Spec => []RefusalEarned
<1>1. Inv => RefusalEarned
  <2> SUFFICES ASSUME Inv, NEW k \in Key, Refused(k), max > 0
               PROVE  Len(log[k]) >= max /\ now <= log[k][Len(log[k]) - max + 1] + window
    BY DEF RefusalEarned
  <2>1. /\ max \in Int /\ window \in Nat /\ Quota = max
        /\ count[k] \in 0..Quota /\ now \in Nat /\ windowEnd[k] \in Nat
        /\ Len(log[k]) \in Nat
    BY QuotaType DEF Inv, TypeOK, Quota
  <2>2. count[k] = max /\ now <= windowEnd[k]
    BY <2>1 DEF Refused, Expired
  <2>3. /\ count[k] <= Len(log[k])
        /\ windowEnd[k] = log[k][Len(log[k]) - count[k] + 1] + window
    BY <2>1, <2>2 DEF Inv, BucketInv, Current
  <2> QED BY <2>1, <2>2, <2>3
<1> QED BY <1>1, InvHolds, PTL
=============================================================================
