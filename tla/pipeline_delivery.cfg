SPECIFICATION FairSpec
CONSTANTS
  m1 = m1
  m2 = m2
  Messages <- OneMessage
  BatchSize = 1
  SmartRetry = TRUE
  MaxSmartRetries = 1
  MaxRetries = 0
  StopKinds = {}
  WebhookEvents = {"throttled"}
  RetryBound = 1
  MaxSends = 1
  MaxEvents = 1
  MaxFaults = 1
INVARIANTS
  CompletedRowWasAccepted
  JobHasRow
  CompletedJobSettledRow
PROPERTIES
  ClaimIsReleased
  OpenRowGetsJob
  RetryIsClaimed
