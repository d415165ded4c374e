\* 200 and 404 are forwarded at once, 503 is tried a second time.
CONSTANTS
  Chains <- MCChains
  MaxAttempts = 2
  RetryOn = {503}
  Answers = {200, 404, 503}
  Cacheable = {200}
SPECIFICATION Spec
INVARIANTS TypeOK SecurityHeadersSent UpstreamHeaderRemoved NoErrorMadePublic RecorderTruthful PanicGets500Alone
PROPERTY EverCloser
CHECK_DEADLOCK FALSE
