CONSTANTS
  Chains <- MCMain
  MaxAttempts = 2
  RetryOn = {503}
  Answers = {200, 404, 503}
  Cacheable = {200}
SPECIFICATION Spec
INVARIANT SamlAssertionAccepted
CHECK_DEADLOCK FALSE
