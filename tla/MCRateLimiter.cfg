\* Two requests per window of two ticks; by tick seven a client can have
\* opened its third bucket, the first one BurstBound speaks about.
CONSTANTS
  Key = {k1, k2}
  max = 2
  window = 2
  MaxTime = 7
SPECIFICATION Spec
INVARIANTS BurstBound RefusalEarned
