SPECIFICATION ProgressSpec
CONSTANTS
  e1 = e1
  e2 = e2
  Enrollments <- OneEnrollment
  StepCount = 2
  AllowOnce = FALSE
  RequirePrevious = FALSE
  MaxStepRetries = 1
  Verdicts <- SendOrFail
  MayPause = FALSE
  MayStop = FALSE
  MayWait = FALSE
  Reports <- TwoReports
  Times = 2
  MaxReports = 0
  MaxStepFaults = 1
  MaxReadded = 1
  b1 = b1
  b2 = b2
  b3 = b3
  c1 = c1
  c2 = c2
  Bubbles <- ThreeBubbles
  Templates <- OneBubble
  ClientEchoes <- InboxReply
  OthersSend = FALSE
  Clicks <- TwoClicks
  MaxRetries = 1
  Attempts = 2
  Outcomes <- SentOrTransient
  Statuses <- OnlyFailed
  MaxStatuses = 1
  MaxOutboxFaults = 1
  MaxRequeued = 1
  p1 = p1
  p2 = p2
  j1 = j1
  j2 = j2
  h1 = h1
  h2 = h2
  People <- TwoPeople
  KnownDates <- OnePerson
  StepNumber = 1
  Runs <- TwoRuns
  JobAttempts = 2
  Asks <- TwoAsks
  MaxAsks = 1
  Answers <- YesAndDate
  Readers <- TwoReaders
  MayFail = TRUE
  MaxReminderFaults = 1
  a = a
  b = b
  l1 = l1
  l2 = l2
  u1 = u1
  Contacts <- TwoContacts
  Audiences <- OneOrBoth
  Launches <- TwoLaunches
  Edits <- OneEdit
  MayCancel = TRUE
  MaxLaunchFaults = 1
CHECK_DEADLOCK FALSE
INVARIANTS
  OutboxTypeOK
  FailedTemplateIsShown
  SentOncePerRetry
  ReminderTypeOK
  RemindedOnceApart
PROPERTIES
  EnrollmentSettles
  PendingResolves
  KnownDateIsLogged
