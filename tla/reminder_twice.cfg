SPECIFICATION ReminderSpec
CONSTANTS
  p1 = p1
  p2 = p2
  j1 = j1
  j2 = j2
  h1 = h1
  h2 = h2
  People <- OnePerson
  KnownDates <- OnePerson
  StepNumber = 1
  Runs <- TwoRuns
  JobAttempts = 1
  Asks = {}
  MaxAsks = 1
  Answers <- YesAndDate
  Readers = {}
  MayFail = FALSE
  MaxReminderFaults = 0
CHECK_DEADLOCK FALSE
INVARIANTS
  RemindedOnce
