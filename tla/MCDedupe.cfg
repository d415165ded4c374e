\* Three overlapping requests, two keys, three upstream calls: entries overwrite
\* each other, expire (TTL 2 of 4 ticks) and are refilled.
CONSTANTS
  Request = {q1, q2, q3}
  Key = {k1, k2}
  NoKey = NoKey
  TTL = 2
  MaxCalls = 3
  MaxTime = 4
SPECIFICATION Spec
SYMMETRY Symmetry
INVARIANTS ReplayIsFresh
PROPERTY UpstreamOnlyWhenStale
\* Behaviours end when the clock and the upstream calls are used up.
CHECK_DEADLOCK FALSE
