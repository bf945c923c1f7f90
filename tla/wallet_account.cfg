SPECIFICATION FairSpec
CONSTANTS
  s1 = s1
  s2 = s2
  r1 = r1
  o1 = o1
  reply = reply
  ingest = ingest
  None = None
  Sessions <- TwoSessions
  Actions <- OneAction
  HardGated <- Nothing
  ActionCost <- Cost
  MaxTokenCredits = 2
  GraceBuffer = 1
  TrialCredits = 1
  SignupQuota = 1
  PlanQuota = 2
  MonthlyCredits = 2
  References <- OneReference
  Orders <- OneOrder
  OrderCredits = 2
  Adjustments <- TakeTwo
  FirstDue = 0
  Month = 2
  Kinds <- AllKinds
  MaxDay = 1
  MaxRequests = 3
  MaxFailures = 1
INVARIANTS
  TypeOK
  BalanceAboveLimit
  ChargedOncePerReference
  LedgerTellsBalance
  PaidOrderIsCredited
PROPERTIES
  ImplementsAccount
  CapturedIsCredited
