SPECIFICATION OutboxFairSpec
CONSTANTS
  b1 = b1
  b2 = b2
  b3 = b3
  c1 = c1
  c2 = c2
  Bubbles <- InboxReply
  Templates <- NoBubble
  ClientEchoes <- InboxReply
  OthersSend = FALSE
  Clicks <- OneClick
  MaxRetries = 1
  Attempts = 1
  Outcomes <- SentOrPermanent
  Statuses <- OnlyFailed
  MaxStatuses = 1
  MaxOutboxFaults = 0
  MaxRequeued = 0
CHECK_DEADLOCK FALSE
PROPERTIES
  RetriedReplyResolves
