SPECIFICATION SafetySpec
CONSTANTS
  e1 = e1
  e2 = e2
  Enrollments <- TwoEnrollments
  StepCount = 2
  AllowOnce = FALSE
  RequirePrevious = FALSE
  MaxStepRetries = 1
  Verdicts <- SendResults
  MayPause = FALSE
  MayStop = FALSE
  MayWait = FALSE
  Reports <- TwoReports
  Times = 2
  MaxReports = 1
  MaxStepFaults = 1
  MaxReadded = 1
  b1 = b1
  b2 = b2
  b3 = b3
  c1 = c1
  c2 = c2
  Bubbles <- TwoBubbles
  Templates <- TwoBubbles
  ClientEchoes <- NoBubble
  OthersSend = TRUE
  Clicks <- OneClick
  MaxRetries = 0
  Attempts = 1
  Outcomes <- SentOrPermanent
  Statuses <- TwoStatuses
  MaxStatuses = 1
  MaxOutboxFaults = 0
  MaxRequeued = 1
  p1 = p1
  p2 = p2
  j1 = j1
  j2 = j2
  h1 = h1
  h2 = h2
  People <- TwoPeople
  KnownDates <- OnePerson
  StepNumber = 1
  Runs <- TwoRuns
  JobAttempts = 2
  Asks <- TwoAsks
  MaxAsks = 1
  Answers <- AnyAnswer
  Readers <- TwoReaders
  MayFail = TRUE
  MaxReminderFaults = 1
  a = a
  b = b
  l1 = l1
  l2 = l2
  u1 = u1
  Contacts <- TwoContacts
  Audiences <- OneOrBoth
  Launches <- TwoLaunches
  Edits <- OneEdit
  MayCancel = TRUE
  MaxLaunchFaults = 1
CHECK_DEADLOCK FALSE
INVARIANTS
  SequenceTypeOK
  CompletedSentEveryStep
  CompletedStepWasSent
  StepSentOnce
  OneSendAtATime
  CapLetsOneThrough
  AskedWithinLimit
  LaunchTypeOK
  RecipientGetsOne
  LaunchedAsDrafted
PROPERTIES
  OnlyCurrentStepIsSent
