\* Three visits: one more than a client that is redirected once makes.
CONSTANTS
  Text <- MCText
  Chains <- MCChains
  Clients <- MCClients
  Strips <- MCStrips
  Rules <- MCRules
  Hosts <- MCHosts
  Exempt <- MCExempt
  HealthPath <- MCHealth
  Allowed <- MCAllowed
  PrefixMatch = TRUE
  Denied = {"remote"}
  RetryOn = {429, 502, 503}
  MaxHeaders = 4
  MaxAttempts = 2
  MaxVisits = 3
SPECIFICATION Spec
INVARIANTS AttemptsAlike OriginalHostForwarded RedirectedOnce  OneAddressJudged IdsCorrelate
CHECK_DEADLOCK FALSE
