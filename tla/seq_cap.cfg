SPECIFICATION SequenceFairSpec
CONSTANTS
  e1 = e1
  e2 = e2
  Enrollments <- OneEnrollment
  StepCount = 2
  AllowOnce = FALSE
  RequirePrevious = TRUE
  MaxStepRetries = 1
  Verdicts <- SentOrCapped
  MayPause = FALSE
  MayStop = FALSE
  MayWait = FALSE
  Reports <- TwoReports
  Times = 3
  MaxReports = 1
  MaxStepFaults = 0
  MaxReadded = 0
CHECK_DEADLOCK FALSE
PROPERTIES
  PutOffStepIsTried
