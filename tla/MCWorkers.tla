------------------------------ MODULE MCWorkers ------------------------------
(* Sequences, outbox, reminders and the launch of a campaign on small        *)
(* instances, several in one run.  The modules share no variable, and a      *)
(* behaviour of a run is one of one part: the other modules stay in their    *)
(* first state.  A launch that another call has overtaken, and two templates *)
(* whose lock has run out under a worker, are not followed: no property says *)
(* anything about them.                                                      *)
EXTENDS MCSequenceEnrollments, MCConversationOutbox, MCReminders, MCCampaignLaunch

VARIABLE part

Sequence == {"one enrollment", "put off", "two enrollments"}
Outbox   == {"one message", "two templates"}
Reminder == {"reminders", "capture"}
Launch   == {"launch"}

workersVars == <<part, sequenceVars, outboxVars, reminderVars, launchVars>>

Rest ==
  /\ UNCHANGED part
  /\ part \notin Sequence => UNCHANGED sequenceVars
  /\ part \notin Outbox => UNCHANGED outboxVars
  /\ part \notin Reminder => UNCHANGED reminderVars
  /\ part \notin Launch => UNCHANGED launchVars

WorkersInit ==
  /\ SequenceInit /\ OutboxInit /\ ReminderInit /\ LaunchInit
  /\ part \notin Launch => draft.status = "draft" /\ draft.audience = Contacts

\* Steps that are put off, or wait until the one before was delivered.
Delayed == INSTANCE SequenceEnrollments WITH
  Verdicts <- {"sent", "tier", "capped"}, RequirePrevious <- TRUE, MayPause <- TRUE, MayWait <- TRUE,
  Reports <- {"delivered"}, MaxStepFaults <- 0, MaxReadded <- 0

\* Two enrollments that allow_once let pass.
Pair == INSTANCE SequenceEnrollments WITH
  Verdicts <- {"sent"}, AllowOnce <- TRUE, RequirePrevious <- TRUE, MayStop <- TRUE,
  MaxReports <- 0, MaxStepFaults <- 0, MaxReadded <- 0

OneEnrolled == \A e \in Enrollments \ {e1} : event'[e] = "none"
OneSent     == Cardinality({m \in Bubbles : request'[m] # "none"}) <= 1
OneSlip     == stepFaults' + readded' <= 1
OnlyFailures == \A h \in hooks' : h[2] = "failed"
OneMishap   == outboxFaults' + One(orderLost') + requeued' <= 1
OneAsked    == asking'[<<p2, 2>>] = "new" /\ reading'[h2] = IdleReader

WorkersNext ==
  \/ part = "one enrollment" /\ SequenceNext /\ OneEnrolled /\ OneSlip /\ OnlyFailures /\ Rest
  \/ part = "put off" /\ Delayed!SequenceNext /\ OneEnrolled /\ Rest
  \/ part = "two enrollments" /\ Pair!SequenceNext /\ Rest
  \/ part = "one message" /\ OutboxNext /\ OneSent /\ OneMishap /\ Rest
  \/ part = "two templates" /\ ~orderLost /\ OutboxNext /\ Rest
  \/ part = "reminders" /\ ReminderNext /\ OneAsked /\ Rest
  \/ part = "capture" /\ ReminderNext /\ UNCHANGED runs /\ Rest
  \/ part = "launch" /\ ~raced /\ LaunchNext /\ Rest

\* Safety.
SafetyParts ==
  {"one enrollment", "put off", "two enrollments", "two templates", "capture", "launch"}
SafetyInit == part \in SafetyParts /\ WorkersInit
SafetySpec == SafetyInit /\ [][WorkersNext]_workersVars

(***************************************************************************)
(* Progress.  The fairness is SequenceFairness, OutboxFairness and         *)
(* ReminderFairness, each asked of the part it is about.                   *)
(***************************************************************************)
ProgressParts == {"one enrollment", "one message", "reminders"}

InSequence(A) == part = "one enrollment" /\ A
InOutbox(A) == part = "one message" /\ A
InReminder(A) == part = "reminders" /\ A

WorkersFairness ==
  /\ \A e \in Enrollments :
       /\ WF_sequenceVars(InSequence(createSequenceEnrollment(e)))
       /\ WF_sequenceVars(InSequence(enqueueSequenceEnrollmentRun(e)))
       /\ WF_sequenceVars(InSequence(becomeDue(e)))
       /\ WF_sequenceVars(InSequence(auditDue(e)))
  /\ WF_sequenceVars(InSequence(handleDue))
  /\ WF_sequenceVars(InSequence(lock = Orphaned /\ expireLock))
  /\ \A j \in JobIds : WF_sequenceVars(InSequence(RunStep(j)))
  /\ \A s \in SendIds :
       /\ WF_sequenceVars(InSequence(SendStep(s)))
       /\ WF_sequenceVars(InSequence(requeueStaleStep(s)))
       /\ WF_sequenceVars(InSequence(outbound[s] = "queued" /\ readdStepJob(s)))
  /\ \A m \in Bubbles :
       /\ WF_outboxVars(InOutbox(RequestStep(m))) /\ WF_outboxVars(InOutbox(WorkerStep(m)))
       /\ WF_outboxVars(InOutbox(requeueStaleRow(m)))
       /\ WF_outboxVars(InOutbox(row[m] = "queued" /\ reconcileRow(m)))
  /\ \A c \in Clicks : WF_outboxVars(InOutbox(ClickStep(c)))
  /\ WF_outboxVars(InOutbox(order = DeadHolder /\ expireOrder)) /\ WF_outboxVars(InOutbox(expireCap))
  /\ \A m \in Bubbles, st \in Statuses : WF_outboxVars(InOutbox(applyChange(<<m, st>>)))
  /\ \A j \in Runs : WF_reminderVars(InReminder(DispatchStep(j)))
  /\ \A r \in Readers : WF_reminderVars(InReminder(ReaderStep(r)))

ProgressInit == part \in ProgressParts /\ WorkersInit
ProgressSpec == ProgressInit /\ [][WorkersNext]_workersVars /\ WorkersFairness
=============================================================================
