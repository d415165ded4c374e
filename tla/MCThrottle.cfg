\* Four requests, two slots: two can be parked at once, so hand-over, timeout
\* at the head and in the middle of the queue, and a refused arrival all meet.
CONSTANTS
  Request = {r1, r2, r3, r4}
  MaxConcurrent = 2
  DefaultMaxConcurrent = 3
SPECIFICATION FairSpec
INVARIANTS TypeOK SlotsAccounted QueueExact FullWhileQueued
PROPERTIES NoOvertaking WaiterAnswered LimitSpec
