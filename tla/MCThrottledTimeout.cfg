\* Two requests for one slot: one waits in the throttle while the other's
\* handler, answered or not, is still running.  Requests pass once and the
\* process may die, so the system may stop.
CONSTANTS
  Request = {r1, r2}
  MaxConcurrent = 1
  DefaultMaxConcurrent = 1
SPECIFICATION FairSpec
INVARIANTS InTimeIntact HandlersCapped
PROPERTIES EveryRequestAnswered NothingLeft
CHECK_DEADLOCK FALSE
