CONSTANTS
  Chains <- MCRetry
  MaxAttempts = 2
  RetryOn = {503}
  Answers = {200, 404, 503}
  Cacheable = {200}
SPECIFICATION Spec
INVARIANT RetryForwardsStatus
CHECK_DEADLOCK FALSE
