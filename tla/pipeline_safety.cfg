SPECIFICATION Spec
CONSTANTS
  m1 = m1
  m2 = m2
  Messages <- TwoMessages
  BatchSize = 1
  SmartRetry = TRUE
  MaxSmartRetries = 1
  MaxRetries = 1
  StopKinds = {"cancelled", "paused"}
  WebhookEvents = {"sent", "delivered", "read", "failed"}
  RetryBound = 1
  MaxSends = 1
  MaxEvents = 2
  MaxFaults = 0
SYMMETRY Symmetry
CONSTRAINT Parts
CHECK_DEADLOCK FALSE
INVARIANTS
  TypeOK
  SentWasAccepted
  CountersCover
  CompletedMissesNobody
PROPERTIES
  SkippedIsFinal
  StopIsFinal
