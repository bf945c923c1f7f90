SPECIFICATION Spec
CONSTANTS
  s1 = s1
  s2 = s2
  r1 = r1
  o1 = o1
  reply = reply
  ingest = ingest
  None = None
  Sessions <- TwoSessions
  Actions <- ReplyAndChunk
  HardGated <- HardOnes
  ActionCost <- Cost
  MaxTokenCredits = 1
  GraceBuffer = 2
  TrialCredits = 1
  SignupQuota = 1
  PlanQuota = 2
  MonthlyCredits = 2
  References <- Nothing
  Orders <- Nothing
  OrderCredits = 2
  Adjustments <- NoAdjustment
  FirstDue = 0
  Month = 2
  Kinds <- Charges
  MaxDay = 0
  MaxRequests = 4
  MaxFailures = 0
PROPERTIES
  HardGateHolds
