\* Three calls: two fail and open the circuit on the third.
CONSTANTS
  Call = {c1, c2, c3}
  MaxFailures = 2
  OpenDuration = 2
  FailureCap = 3
  MaxAttempts = 2
SPECIFICATION FairRetrySpec
INVARIANTS StateMatchesFailures HalfOpenHasWaited OpenShutsOut StormBounded
PROPERTIES OpenHolds ClosesForGood EveryCallEnds
