SPECIFICATION FairSpec
CONSTANTS
  m1 = m1
  m2 = m2
  Messages <- OneMessage
  BatchSize = 1
  SmartRetry = TRUE
  MaxSmartRetries = 1
  MaxRetries = 1
  StopKinds = {}
  WebhookEvents = {}
  RetryBound = 0
  MaxSends = 1
  MaxEvents = 0
  MaxFaults = 0
PROPERTIES
  RunningCampaignEnds
