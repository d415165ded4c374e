\* The default timeout of two ticks takes the place of the one not given.
CONSTANTS
  Prober = {p1, p2}
  Conn = {c1, c2, c3}
  Timeout = 0
  DefaultTimeout = 2
SPECIFICATION FairProbeSpec
INVARIANTS HeldNoLonger
PROPERTIES HealthAnswered
