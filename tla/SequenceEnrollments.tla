------------------------ MODULE SequenceEnrollments ------------------------
(* A contact's enrollments in message sequences: the enrollment rows, the   *)
(* run and retry jobs that work on them, the outbound row and job of each   *)
(* step, the grouping lock all sends to the contact take, the audit that    *)
(* re-enqueues what is due, and the status events of the provider.  One     *)
(* action is one statement or one group of Redis commands.  Nothing checks  *)
(* an enrollment's status before it writes it, so a run job, an outbound    *)
(* job and a status event of one enrollment may overtake each other.        *)
(*                                                                          *)
(* next_run_at is a number of its own each time it is written: job ids are  *)
(* made of it, so a later time is a new id.  Numbers are used again after   *)
(* Times of them, as new ids.  The columns last_enqueued_* are left out:    *)
(* they let the audit skip an add of a job that is there, which would do    *)
(* nothing.  A user may pause or resume the sequence at any moment, so what *)
(* a job reads of it is a free choice.                                      *)
EXTENDS Integers, FiniteSets

CONSTANTS
  Enrollments,      \* what the contact's events may create, one row each
  StepCount,        \* steps of the sequence
  AllowOnce,        \* sequences.allow_once
  RequirePrevious,  \* sequences.require_previous_delivery
  MaxStepRetries,   \* the length of RETRY_DELAYS_MS (1)
  Verdicts,         \* how a send may end, in this instance
  MayPause, MayStop, MayWait,  \* does a user pause the sequence, do its stop
                    \* conditions match, does its time window close?
  Reports,          \* statuses the provider reports
  Times, MaxReports, MaxStepFaults, MaxReadded   \* bounds

ASSUME SequenceAssumption ==
  /\ {StepCount, Times} \subseteq Nat \ {0}
  /\ {MaxStepRetries, MaxReports, MaxStepFaults, MaxReadded} \subseteq Nat
  /\ Verdicts \subseteq {"sent", "blocked", "capped", "tier", "transient", "permanent"}
  /\ Reports \subseteq {"sent", "delivered", "read", "failed"}

VARIABLES
  event,       \* the handler of the contact event that may create the row
  enrollment,  \* sequence_enrollments
  due,         \* enrollments whose next_run_at has passed
  run,         \* the jobs of the run and retry queues and their workers
  outbound,    \* outbound_messages.status of each step
  send,        \* the outbound job of each step and its worker
  lock,        \* outbound-order:sequence:<phone>
  audit,       \* the row the audit has selected and not handled
  hooks,       \* status updates between their SELECT and their UPDATE
  accepted,    \* history: how often the provider accepted each step,
  lockLost,    \* ... has the lock run out under a worker that held it,
  readded,     \* ... and how often has the reconciler added a job nobody had left to it?
  reports, stepFaults

rowVars   == <<event, enrollment, due>>
sendVars  == <<outbound, send, lock>>
boundVars == <<lockLost, readded, reports, stepFaults>>
sequenceVars == <<event, enrollment, due, run, outbound, send, lock, audit,
                  hooks, accepted, lockLost, readded, reports, stepFaults>>

StepIds == 0..(StepCount - 1)
SendIds == Enrollments \X StepIds
JobIds  == Enrollments \X {"run", "retry"} \X (0..(Times - 1))
Finished == {"completed", "failed", "stopped"}

InFlight(pc) == pc \notin {"none", "done"}      \* BullMQ has the job ...
Working(pc)  == InFlight(pc) /\ pc # "waiting"  \* ... and a worker runs it

NoMessage == <<-1, 0>>     \* a message is a step and the number of its send
Unlocked      == <<>>
Orphaned  == <<"worker died">>
NoAudit   == <<>>

\* Counts are compared with 0 and with the limit only.
UpToLimit(n) == IF n > MaxStepRetries + 1 THEN MaxStepRetries + 1 ELSE n

SequenceInit ==
  /\ event = [e \in Enrollments |-> "none"]
  /\ enrollment = [e \in Enrollments |->
       [status |-> "none", step |-> 0, runAt |-> 0, retries |-> 0,
        delivery |-> "none", message |-> NoMessage, ran |-> FALSE]]
  /\ due = {}
  /\ run = [j \in JobIds |-> [pc |-> "none", step |-> 0, at |-> 0]]
  /\ outbound = [s \in SendIds |-> "none"]
  /\ send = [s \in SendIds |-> [pc |-> "none", retries |-> 0, at |-> 0, end |-> "failed"]]
  /\ lock = Unlocked
  /\ audit = NoAudit
  /\ hooks = {}
  /\ accepted = [s \in SendIds |-> 0]
  /\ lockLost = FALSE
  /\ readded = 0
  /\ reports = 0
  /\ stepFaults = 0

(***************************************************************************)
(* Rows and jobs                                                           *)
(***************************************************************************)
NextTime(e) == (enrollment[e].runAt + 1) % Times

\* A time not used before has no jobs.
FreshTime(e) ==
  \A kind \in {"run", "retry"} : ~InFlight(run[<<e, kind, NextTime(e)>>].pc)

\* updateSequenceEnrollment, with a new next_run_at and without one.
Reschedule(e, row) ==
  /\ FreshTime(e)
  /\ enrollment' = [enrollment EXCEPT ![e] = [row EXCEPT !.runAt = NextTime(e)]]
  /\ due' = due \ {e}
Update(e, row) ==
  /\ enrollment' = [enrollment EXCEPT ![e] = row]
  /\ UNCHANGED due

Idle(pc) == [pc |-> pc, step |-> 0, at |-> 0]

\* The jobs when next_run_at of e moves on: its new time has none.
ForgetTime(e) ==
  [j \in JobIds |-> IF j[1] = e /\ j[3] = NextTime(e) THEN Idle("none") ELSE run[j]]

\* Faulty variant: job ids without the time.
AddRunJobOnce(jobs, j) ==
  IF \A t \in 0..(Times - 1) : jobs[<<j[1], j[2], t>>].pc = "none"
  THEN [jobs EXCEPT ![j] = Idle("waiting")] ELSE jobs

\* queue.add with a job id that BullMQ still knows does nothing, whatever the
\* state of that job.
AddRunJob(jobs, j) ==
  IF jobs[j].pc = "none" THEN [jobs EXCEPT ![j] = Idle("waiting")] ELSE jobs

\* resolveSequenceEnrollmentQueueKind
QueueKind(row) ==
  IF row.retries > 0 /\ row.delivery = "failed" THEN "retry" ELSE "run"

(***************************************************************************)
(* Enrolling                                                               *)
(***************************************************************************)
\* maybeCreateSequenceEnrollment: look for an earlier one, insert, enqueue.
checkAllowOnce(e) ==
  /\ event[e] = "none"
  /\ event' = [event EXCEPT ![e] =
       IF AllowOnce /\ \E f \in Enrollments : enrollment[f].status # "none"
       THEN "refused" ELSE "checked"]
  /\ UNCHANGED <<enrollment, due, run, sendVars, audit, hooks, accepted, boundVars>>

createSequenceEnrollment(e) ==
  /\ event[e] = "checked"
  /\ event' = [event EXCEPT ![e] = "created"]
  /\ enrollment' = [enrollment EXCEPT ![e].status = "active"]
  /\ UNCHANGED <<due, run, sendVars, audit, hooks, accepted, boundVars>>

enqueueSequenceEnrollmentRun(e) ==
  /\ event[e] = "created"
  /\ event' = [event EXCEPT ![e] = "enqueued"]
  /\ run' = AddRunJob(run, <<e, "run", 0>>)
  /\ UNCHANGED <<enrollment, due, sendVars, audit, hooks, accepted, boundVars>>

\* A step that is put off is not due before five minutes have passed: a
\* worker that is still at it then is a fault.
becomeDue(e) ==
  /\ enrollment[e].status # "none"
  /\ e \notin due
  /\ due' = due \cup {e}
  /\ IF \E k \in StepIds : k = enrollment[e].step /\ Working(send[<<e, k>>].pc)
     THEN stepFaults < MaxStepFaults /\ stepFaults' = stepFaults + 1
     ELSE UNCHANGED stepFaults
  /\ UNCHANGED <<event, enrollment, run, sendVars, audit, hooks, accepted, lockLost, readded, reports>>

(***************************************************************************)
(* processSequenceEnrollmentAndScheduleNext                                *)
(***************************************************************************)
At(j, pc) == run[j].pc = pc
GoTo(j, pc) == run' = [run EXCEPT ![j].pc = pc]
EndRun(j) == run' = [run EXCEPT ![j] = Idle("done")]

\* Faulty variant: the last step is taken for one that does not exist.
LastMissing(step) == step >= StepCount - 1
StepMissing(step) == step >= StepCount

\* passesSafetyChecks: a message was sent to the contact in the last ten
\* seconds.  The one of a worker still at it is as young, once it is tracked;
\* that the ten seconds outlast the worker is a postponement of MayWait.
LoopGuard == \E s \in SendIds : Working(send[s].pc) /\ send[s].end = "sent"

\* Where processSequenceEnrollmentInternal can go with the row it loads.  A
\* time window and the other limits of a contact postpone at any moment.
Branches(row) ==
  UNION {
    IF MayPause THEN {"leave"} ELSE {},
    IF MayStop /\ row.ran THEN {"stop"} ELSE {},
    IF MayWait THEN {"postpone"} ELSE {},
    IF StepMissing(row.step) THEN {"complete"}
    ELSE IF \/ /\ RequirePrevious /\ row.step > 0
               /\ row.delivery \notin {"delivered", "read"}
            \/ LoopGuard
         THEN {"postpone"}
         ELSE {"claim"}}

startRun(j) ==
  LET row == enrollment[j[1]] IN
  /\ At(j, "waiting")
  /\ j[3] = row.runAt => j[1] \in due     \* the delay of the job is over
  /\ \E pc \in Branches(row) :
       run' = [run EXCEPT ![j] = IF pc = "leave" THEN Idle("done")
                                 ELSE [pc |-> pc, step |-> row.step, at |-> 0]]
  /\ UNCHANGED <<rowVars, sendVars, audit, hooks, accepted, boundVars>>

stopEnrollment(j) ==
  LET e == j[1] IN
  /\ At(j, "stop")
  /\ Update(e, [enrollment[e] EXCEPT !.status = "stopped", !.ran = TRUE])
  /\ EndRun(j)
  /\ UNCHANGED <<event, sendVars, audit, hooks, accepted, boundVars>>

completeEnrollment(j) ==
  LET e == j[1] IN
  /\ At(j, "complete")
  /\ Update(e, [enrollment[e] EXCEPT !.status = "completed", !.ran = TRUE])
  /\ EndRun(j)
  /\ UNCHANGED <<event, sendVars, audit, hooks, accepted, boundVars>>

\* Outside the time window, not delivered yet, or a safety check.
postponeEnrollment(j) ==
  LET e == j[1] IN
  /\ At(j, "postpone")
  /\ Reschedule(e, enrollment[e])
  /\ run' = [ForgetTime(e) EXCEPT ![j].pc = "reload"]
  /\ UNCHANGED <<event, sendVars, audit, hooks, accepted, boundVars>>

\* getSequenceEnrollment: what is not active any more is not scheduled.
reloadEnrollment(j) ==
  LET row == enrollment[j[1]] IN
  /\ At(j, "reload")
  /\ run' = [run EXCEPT ![j] = IF row.status = "active"
                               THEN [pc |-> "schedule", step |-> 0, at |-> row.runAt]
                               ELSE Idle("done")]
  /\ UNCHANGED <<rowVars, sendVars, audit, hooks, accepted, boundVars>>

scheduleRun(j) ==
  /\ At(j, "schedule")
  /\ run' = [AddRunJob(run, <<j[1], "run", run[j].at>>) EXCEPT ![j] = Idle("done")]
  /\ UNCHANGED <<rowVars, sendVars, audit, hooks, accepted, boundVars>>

claimEnrollment(j) ==
  LET e == j[1] IN
  /\ At(j, "claim")
  /\ Update(e, [enrollment[e] EXCEPT !.status = "sending", !.ran = TRUE])
  /\ GoTo(j, "insert")
  /\ UNCHANGED <<event, sendVars, audit, hooks, accepted, boundVars>>

\* queueSequenceOutboundMessage: a row with this key keeps its status ...
insertStepMessage(j) ==
  LET s == <<j[1], run[j].step>> IN
  /\ At(j, "insert")
  /\ outbound' = [outbound EXCEPT ![s] = IF @ = "none" THEN "queued" ELSE @]
  /\ GoTo(j, "enqueue")
  /\ UNCHANGED <<rowVars, send, lock, audit, hooks, accepted, boundVars>>

\* ... and enqueueOutboundJob replaces a job that has finished.
\* Faulty variant: it does not.
AddSendJobOnce(s) == [send EXCEPT ![s].pc = IF @ = "none" THEN "waiting" ELSE @]
AddSendJob(s) == [send EXCEPT ![s].pc = IF InFlight(@) THEN @ ELSE "waiting"]

enqueueStepMessage(j) ==
  /\ At(j, "enqueue")
  /\ send' = AddSendJob(<<j[1], run[j].step>>)
  /\ EndRun(j)
  /\ UNCHANGED <<rowVars, outbound, lock, audit, hooks, accepted, boundVars>>

RunStep(j) ==
  \/ startRun(j) \/ stopEnrollment(j) \/ completeEnrollment(j) \/ postponeEnrollment(j)
  \/ reloadEnrollment(j) \/ scheduleRun(j) \/ claimEnrollment(j)
  \/ insertStepMessage(j) \/ enqueueStepMessage(j)

\* A worker dies or throws: BullMQ runs the job again (attempts: 5).
failRun(j) ==
  /\ stepFaults < MaxStepFaults
  /\ Working(run[j].pc)
  /\ run' = [run EXCEPT ![j] = Idle("waiting")]
  /\ stepFaults' = stepFaults + 1
  /\ UNCHANGED <<rowVars, sendVars, audit, hooks, accepted, lockLost, readded, reports>>

\* removeOnComplete: a thousand other jobs have finished since.
evictRun(j) ==
  /\ stepFaults < MaxStepFaults
  /\ At(j, "done")
  /\ run' = [run EXCEPT ![j] = Idle("none")]
  /\ stepFaults' = stepFaults + 1
  /\ UNCHANGED <<rowVars, sendVars, audit, hooks, accepted, lockLost, readded, reports>>

\* reconcileDueSequenceEnrollments: the row is selected and its job added ...
DueJob(e) == <<e, QueueKind(enrollment[e]), enrollment[e].runAt>>

auditDue(e) ==
  /\ enrollment[e].status = "active" /\ e \in due
  /\ run' = AddRunJob(run, DueJob(e))
  /\ UNCHANGED <<rowVars, sendVars, audit, hooks, accepted, boundVars>>

\* ... or, as there may be fifty rows to handle, it changes in between.
selectDue(e) ==
  /\ audit = NoAudit
  /\ enrollment[e].status = "active" /\ e \in due
  /\ stepFaults < MaxStepFaults
  /\ stepFaults' = stepFaults + 1
  /\ audit' = DueJob(e)
  /\ UNCHANGED <<rowVars, run, sendVars, hooks, accepted, lockLost, readded, reports>>

handleDue ==
  /\ audit # NoAudit
  /\ run' = AddRunJob(run, audit)
  /\ audit' = NoAudit
  /\ UNCHANGED <<rowVars, sendVars, hooks, accepted, boundVars>>

(***************************************************************************)
(* The outbound job of a step: executeOutboundJob and, under the lock of   *)
(* the contact, executeSequenceOutboundMessage.  It has one attempt.       *)
(***************************************************************************)
SendAt(s, pc) == send[s].pc = pc
SendGoTo(s, pc) == send' = [send EXCEPT ![s].pc = pc]

startStepJob(s) ==
  /\ SendAt(s, "waiting")
  /\ outbound' = [outbound EXCEPT ![s] = "processing"]
  /\ SendGoTo(s, "lock")
  /\ UNCHANGED <<rowVars, run, lock, audit, hooks, accepted, boundVars>>

\* withGroupingLock: SET NX, and no second try when it is busy.
\* Faulty variant: SET without NX.
LockNever == TRUE
LockFree == lock = Unlocked

takeLock(s) ==
  /\ SendAt(s, "lock")
  /\ IF LockFree
     THEN lock' = s /\ SendGoTo(s, "load")
     ELSE UNCHANGED lock /\ send' = [send EXCEPT ![s].pc = "settle"]
  /\ UNCHANGED <<rowVars, run, outbound, audit, hooks, accepted, boundVars>>

\* Only the step is compared; neither the status of the enrollment nor that
\* of the sequence is looked at.
\* Faulty variants: the status is compared instead; nothing is.
StillSending(s) == enrollment[s[1]].status = "sending"
AnyStep(s) == TRUE
StillCurrent(s) == enrollment[s[1]].step = s[2]

loadStep(s) ==
  /\ SendAt(s, "load")
  /\ IF StillCurrent(s)
     THEN send' = [send EXCEPT ![s].pc = "loaded", ![s].retries = enrollment[s[1]].retries]
     ELSE send' = [send EXCEPT ![s].pc = "complete", ![s].end = "noop"]
  /\ UNCHANGED <<rowVars, run, outbound, lock, audit, hooks, accepted, boundVars>>

\* Put a step off to a new next_run_at, for a job of the given queue.
PutOff(s, queue, retries) ==
  LET e == s[1] IN
  /\ Reschedule(e, [enrollment[e] EXCEPT !.status = "active", !.delivery = "failed",
                                         !.ran = TRUE, !.retries = retries])
  /\ run' = ForgetTime(e)
  /\ send' = [send EXCEPT ![s].pc = queue, ![s].at = NextTime(e), ![s].end = "failed"]

GiveUp(s) ==
  LET e == s[1] IN
  /\ Update(e, [enrollment[e] EXCEPT !.status = "failed", !.delivery = "failed",
                                     !.ran = TRUE])
  /\ send' = [send EXCEPT ![s].pc = "unlock", ![s].end = "failed"]
  /\ UNCHANGED run

SendLeaves == UNCHANGED <<event, outbound, lock, audit, hooks>>

\* The policy does not allow the template.
blockStep(s) ==
  /\ SendAt(s, "loaded") /\ "blocked" \in Verdicts
  /\ GiveUp(s)
  /\ SendLeaves /\ UNCHANGED <<accepted, boundVars>>

\* The frequency cap delays the template.
deferStep(s) ==
  /\ SendAt(s, "loaded") /\ "capped" \in Verdicts
  /\ PutOff(s, "run", enrollment[s[1]].retries)
  /\ SendLeaves /\ UNCHANGED <<accepted, boundVars>>

\* The connection's daily limit is reached (bound: no more than
\* MaxStepRetries + 1 times for a step).
deferToNextHour(s) ==
  /\ SendAt(s, "loaded") /\ "tier" \in Verdicts
  /\ send[s].retries <= MaxStepRetries
  /\ PutOff(s, "run", send[s].retries + 1)
  /\ SendLeaves /\ UNCHANGED <<accepted, boundVars>>

dispatchStep(s) ==
  /\ SendAt(s, "loaded") /\ "sent" \in Verdicts
  /\ accepted' = [accepted EXCEPT ![s] = UpToLimit(@ + 1)]
  /\ SendGoTo(s, "accepted")
  /\ UNCHANGED <<rowVars, run, outbound, lock, audit, hooks, boundVars>>

\* Faulty variant: the status of the message.
AfterStepSent(k) == IF k + 1 < StepCount THEN "active" ELSE "sent"
AfterStep(k) == IF k + 1 < StepCount THEN "active" ELSE "completed"

\* Faulty variant: the step is not advanced.
SameStep(k) == k
NextStep(k) == k + 1

advanceEnrollment(s) ==
  LET e == s[1] IN
  /\ SendAt(s, "accepted")
  /\ Reschedule(e, [enrollment[e] EXCEPT
       !.step = NextStep(s[2]), !.message = <<s[2], accepted[s]>>, !.delivery = "sent",
       !.retries = 0, !.ran = TRUE, !.status = AfterStep(s[2])])
  /\ run' = ForgetTime(e)
  /\ send' = IF s[2] + 1 < StepCount
             THEN [send EXCEPT ![s].pc = "run", ![s].at = NextTime(e), ![s].end = "sent"]
             ELSE [send EXCEPT ![s].pc = "complete", ![s].end = "sent"]
  /\ UNCHANGED <<event, outbound, lock, audit, hooks, accepted, boundVars>>

enqueueNextRun(s) ==
  /\ send[s].pc \in {"run", "retry"}
  /\ run' = AddRunJob(run, <<s[1], send[s].pc, send[s].at>>)
  /\ send' = [send EXCEPT ![s].pc = IF send[s].end = "sent" THEN "complete" ELSE "unlock", ![s].at = 0]
  /\ UNCHANGED <<rowVars, outbound, lock, audit, hooks, accepted, boundVars>>

\* The catch clause.  A retry is counted from the row as it was loaded.
MayRetry(s) == send[s].retries < MaxStepRetries
Retry(s) == PutOff(s, "retry", send[s].retries + 1)

failStep(s) ==
  /\ SendAt(s, "loaded")
  /\ \/ "transient" \in Verdicts /\ MayRetry(s) /\ Retry(s)
     \/ "transient" \in Verdicts /\ ~MayRetry(s) /\ GiveUp(s)
     \/ "permanent" \in Verdicts /\ GiveUp(s)
  /\ SendLeaves /\ UNCHANGED <<accepted, boundVars>>

\* The same clause, reached by an exception after the provider has accepted,
\* before or after the enrollment was advanced.
AfterAccept(s) ==
  \/ SendAt(s, "accepted")
  \/ send[s].end = "sent" /\ SendAt(s, IF s[2] + 1 < StepCount THEN "run" ELSE "complete")

failAfterAccept(s) ==
  /\ AfterAccept(s)
  /\ stepFaults < MaxStepFaults
  /\ stepFaults' = stepFaults + 1
  /\ (MayRetry(s) /\ Retry(s)) \/ GiveUp(s)
  /\ SendLeaves /\ UNCHANGED <<accepted, lockLost, readded, reports>>

completeStepRow(s) ==
  /\ SendAt(s, "complete")
  /\ outbound' = [outbound EXCEPT ![s] = "completed"]
  /\ SendGoTo(s, "unlock")
  /\ UNCHANGED <<rowVars, run, lock, audit, hooks, accepted, boundVars>>

\* The lock is released with a GET and a DEL.
readLock(s) ==
  /\ SendAt(s, "unlock")
  /\ SendGoTo(s, IF lock = s THEN "delete" ELSE "settle")
  /\ UNCHANGED <<rowVars, run, outbound, lock, audit, hooks, accepted, boundVars>>

deleteLock(s) ==
  /\ SendAt(s, "delete")
  /\ lock' = Unlocked
  /\ SendGoTo(s, "settle")
  /\ UNCHANGED <<rowVars, run, outbound, audit, hooks, accepted, boundVars>>

\* The worker's catch clause marks the row; BullMQ ends the job.
settleStepJob(s) ==
  /\ SendAt(s, "settle")
  /\ outbound' = IF send[s].end = "failed" THEN [outbound EXCEPT ![s] = "failed"] ELSE outbound
  /\ send' = [send EXCEPT ![s] = [pc |-> "done", retries |-> 0, at |-> 0, end |-> "failed"]]
  /\ UNCHANGED <<rowVars, run, lock, audit, hooks, accepted, boundVars>>

\* Forty statements and calls, the throttle and the provider's included, may
\* outlast the thirty seconds of the lock.
expireLock ==
  /\ \/ lock = Orphaned /\ UNCHANGED <<stepFaults, lockLost>>
     \/ /\ lock \in SendIds
        /\ stepFaults < MaxStepFaults /\ stepFaults' = stepFaults + 1
        /\ lockLost' = TRUE
  /\ lock' = Unlocked
  /\ UNCHANGED <<rowVars, run, outbound, send, audit, hooks, accepted, readded, reports>>

\* A worker dies; BullMQ finds the job stalled and hands it out again.
crashStepJob(s) ==
  /\ stepFaults < MaxStepFaults
  /\ Working(send[s].pc)
  /\ send' = [send EXCEPT ![s] = [pc |-> "waiting", retries |-> 0, at |-> 0, end |-> "failed"]]
  /\ lock' = IF lock = s THEN Orphaned ELSE lock
  /\ stepFaults' = stepFaults + 1
  /\ UNCHANGED <<rowVars, run, outbound, audit, hooks, accepted, lockLost, readded, reports>>

\* reconcileOutboundQueue: a row "processing" for too long is queued again
\* (of a job at work, that is a fault) ...
requeueStaleStep(s) ==
  /\ outbound[s] = "processing"
  /\ IF Working(send[s].pc)
     THEN stepFaults < MaxStepFaults /\ stepFaults' = stepFaults + 1
     ELSE UNCHANGED stepFaults
  /\ outbound' = [outbound EXCEPT ![s] = "queued"]
  /\ UNCHANGED <<rowVars, run, send, lock, audit, hooks, accepted, lockLost, readded, reports>>

\* ... and a row that was queued when it was selected gets a job, though it may
\* have been worked on since, and its own job be on the way (at most MaxReadded
\* times).
StepLeftToReconciler(s) ==
  /\ outbound[s] = "queued"
  /\ ~\E j \in JobIds : j[1] = s[1] /\ run[j].step = s[2] /\ At(j, "enqueue")

readdStepJob(s) ==
  /\ outbound[s] # "none" /\ ~InFlight(send[s].pc)
  /\ \/ StepLeftToReconciler(s) /\ UNCHANGED readded
     \/ ~StepLeftToReconciler(s) /\ readded < MaxReadded /\ readded' = readded + 1
  /\ send' = AddSendJob(s)
  /\ UNCHANGED <<rowVars, run, outbound, lock, audit, hooks, accepted, lockLost, reports, stepFaults>>

SendStep(s) ==
  \/ startStepJob(s) \/ takeLock(s) \/ loadStep(s)
  \/ blockStep(s) \/ deferStep(s) \/ deferToNextHour(s) \/ dispatchStep(s) \/ failStep(s)
  \/ advanceEnrollment(s) \/ enqueueNextRun(s)
  \/ completeStepRow(s) \/ readLock(s) \/ deleteLock(s) \/ settleStepJob(s)

(***************************************************************************)
(* applySequenceDeliveryStatusUpdate: a SELECT by message, an UPDATE by id *)
(***************************************************************************)
StatusRank(st) ==
  CASE st = "sent" -> 1 [] st = "delivered" -> 2 [] st = "read" -> 3 [] st = "failed" -> 4
    [] OTHER -> 0

selectByMessage(e) ==
  \E st \in Reports :
    /\ reports < MaxReports
    /\ reports' = reports + 1
    /\ enrollment[e].message # NoMessage
    /\ hooks' = IF StatusRank(st) > StatusRank(enrollment[e].delivery)
                THEN hooks \cup {<<e, st>>} ELSE hooks
    /\ UNCHANGED <<rowVars, run, sendVars, audit, accepted, lockLost, readded, stepFaults>>

applyStatus(h) ==
  /\ h \in hooks
  /\ hooks' = hooks \ {h}
  /\ Update(h[1], [enrollment[h[1]] EXCEPT !.delivery = h[2]])
  /\ UNCHANGED <<event, run, sendVars, audit, accepted, boundVars>>

SequenceNext ==
  \/ \E e \in Enrollments :
       \/ checkAllowOnce(e) \/ createSequenceEnrollment(e) \/ enqueueSequenceEnrollmentRun(e)
       \/ becomeDue(e) \/ auditDue(e) \/ selectDue(e) \/ selectByMessage(e)
  \/ handleDue \/ expireLock
  \/ \E j \in JobIds : RunStep(j) \/ failRun(j) \/ evictRun(j)
  \/ \E s \in SendIds :
       SendStep(s) \/ failAfterAccept(s) \/ crashStepJob(s) \/ requeueStaleStep(s) \/ readdStepJob(s)
  \/ \E h \in hooks : applyStatus(h)

SequenceSpec == SequenceInit /\ [][SequenceNext]_sequenceVars

\* Workers, the audit, the reconciler, the providers of time and of the lock
\* go on; nothing makes a user, a provider's report or a fault happen, and
\* nothing pushes a finished job out of the queue.
SequenceFairness ==
  /\ \A e \in Enrollments :
       /\ WF_sequenceVars(createSequenceEnrollment(e))
       /\ WF_sequenceVars(enqueueSequenceEnrollmentRun(e))
       /\ WF_sequenceVars(becomeDue(e))
       /\ WF_sequenceVars(auditDue(e))
  /\ WF_sequenceVars(handleDue)
  /\ WF_sequenceVars(lock = Orphaned /\ expireLock)
  /\ \A j \in JobIds : WF_sequenceVars(RunStep(j))
  /\ \A s \in SendIds :
       WF_sequenceVars(SendStep(s)) /\ WF_sequenceVars(requeueStaleStep(s))
         /\ WF_sequenceVars(outbound[s] = "queued" /\ readdStepJob(s))
  /\ \A e \in Enrollments, st \in Reports : WF_sequenceVars(applyStatus(<<e, st>>))

SequenceFairSpec == SequenceSpec /\ SequenceFairness

(***************************************************************************)
(* Properties                                                              *)
(***************************************************************************)
RunPcs == {"none", "waiting", "stop", "complete", "postpone", "reload", "schedule",
           "claim", "insert", "enqueue", "done"}
SendPcs == {"none", "waiting", "lock", "load", "loaded", "accepted", "run", "retry",
            "complete", "unlock", "delete", "settle", "done"}
TimeIds == 0..(Times - 1)

\* Every variable keeps its type.
SequenceTypeOK ==
  /\ event \in [Enrollments -> {"none", "checked", "refused", "created", "enqueued"}]
  /\ enrollment \in [Enrollments ->
       [status : {"none", "active", "sending"} \cup Finished, step : 0..StepCount,
        runAt : TimeIds, retries : Nat,
        delivery : {"none", "sent", "delivered", "read", "failed"},
        message : {NoMessage} \cup (StepIds \X Nat), ran : BOOLEAN]]
  /\ due \subseteq Enrollments
  /\ run \in [JobIds -> [pc : RunPcs, step : 0..StepCount, at : TimeIds]]
  /\ outbound \in [SendIds -> {"none", "queued", "processing", "completed", "failed"}]
  /\ send \in [SendIds -> [pc : SendPcs, retries : Nat, at : TimeIds,
                       end : {"failed", "sent", "noop"}]]
  /\ lock \in {Unlocked, Orphaned} \cup SendIds
  /\ audit \in {NoAudit} \cup JobIds
  /\ hooks \subseteq (Enrollments \X Reports)
  /\ accepted \in [SendIds -> Nat]
  /\ lockLost \in BOOLEAN
  /\ readded \in Nat /\ reports \in Nat /\ stepFaults \in Nat

\* An enrollment that is completed has had every step accepted by the
\* provider, whatever was retried, put off, reconciled or run twice.
CompletedSentEveryStep ==
  \A e \in Enrollments : enrollment[e].status = "completed" =>
    \A k \in StepIds : accepted[<<e, k>>] > 0

\* A completed outbound row stands for a step the provider accepted, also
\* when its job ran again after the enrollment had moved on.
CompletedStepWasSent ==
  \A s \in SendIds : outbound[s] = "completed" => accepted[s] > 0

\* The provider never accepts a step the enrollment has left or not reached.
OnlyCurrentStepIsSent ==
  [][\A s \in SendIds : accepted'[s] # accepted[s] => enrollment[s[1]].step = s[2]]_sequenceVars

\* As long as no worker dies, throws late or outlasts the lock, no step is
\* sent twice, though the run, retry and audit jobs of an enrollment overlap
\* and the reconciler adds jobs for rows it had selected before.
StepSentOnce ==
  stepFaults = 0 => \A s \in SendIds : accepted[s] <= 1

\* As long as the lock does not run out under a worker, no two workers are
\* between loading an enrollment of the contact and writing it, also when
\* workers die holding it and its release is not atomic.
OneSendAtATime ==
  ~lockLost => \A s, t \in SendIds :
    {send[s].pc, send[t].pc} \subseteq {"loaded", "accepted"} => s = t

\* If nothing fails at the wrong moment, the contact has no other enrollment and
\* the reconciler adds a job only for a row that is left to it, an enrollment is
\* completed, failed or stopped in the end.  (Otherwise the job of a step may
\* find the lock busy: it has one attempt, and the enrollment keeps "sending".)
EnrollmentSettles ==
  \A e \in Enrollments :
    enrollment[e].status = "active"
      ~> \/ enrollment[e].status \in Finished \/ stepFaults > 0 \/ readded > 0
         \/ \E f \in Enrollments \ {e} : enrollment[f].status # "none"

\* "Frequency cap routing - reroute, never drop"
\* (sequence-execution-service.ts:450): a step that the cap, or a transient
\* failure, has put off is tried again unless something else fails.
PutOffStepIsTried ==
  \A e \in Enrollments :
    enrollment[e].status = "active" /\ enrollment[e].delivery = "failed"
      ~> enrollment[e].status # "active" \/ stepFaults > 0 \/ readded > 0

(***************************************************************************)
(* The inductive invariant behind these: what the workers rely on although *)
(* a step is compared once, before the send, and a status never.           *)
(***************************************************************************)
\* The steps an enrollment has left behind were accepted.
StepsBehindWereSent ==
  \A e \in Enrollments, k \in StepIds : k < enrollment[e].step => accepted[<<e, k>>] > 0

\* Nobody moves the enrollment between the comparison and the send.
LoadedStepIsCurrent ==
  \A s \in SendIds : send[s].pc \in {"loaded", "accepted"} => enrollment[s[1]].step = s[2]

\* No row, job or worker is ahead of its enrollment.
NobodyIsAhead ==
  /\ \A s \in SendIds :
       outbound[s] # "none" \/ send[s].pc # "none" => s[2] <= enrollment[s[1]].step
  /\ \A j \in JobIds :
       run[j].pc \in {"claim", "insert", "enqueue"} => run[j].step <= enrollment[j[1]].step

\* A worker that is about to settle the row as sent has reason to.
SettledWasSent ==
  \A s \in SendIds :
    (send[s].pc \in {"accepted", "complete"} \/ send[s].end = "sent" \/ outbound[s] = "completed")
      => accepted[s] > 0

\* An enrollment is completed beyond its last step.
CompletedIsBeyondLast ==
  /\ \A j \in JobIds : run[j].pc = "complete" => enrollment[j[1]].step >= StepCount
  /\ \A e \in Enrollments :
       enrollment[e].status = "completed" => enrollment[e].step >= StepCount

\* Who works under the lock has it.
UnderLock == {"load", "loaded", "accepted", "run", "retry", "complete", "delete"}
LockIsOwn == ~lockLost => \A s \in SendIds : send[s].pc \in UnderLock => lock = s

\* An accepted step is about to be left or has been.
AcceptedIsLeft ==
  stepFaults = 0 => \A s \in SendIds :
    accepted[s] > 0 => /\ accepted[s] = 1
                       /\ send[s].pc = "accepted" \/ s[2] < enrollment[s[1]].step

SequenceInvariant ==
  /\ SequenceTypeOK
  /\ StepsBehindWereSent /\ LoadedStepIsCurrent /\ NobodyIsAhead
  /\ SettledWasSent /\ CompletedIsBeyondLast /\ LockIsOwn /\ AcceptedIsLeft
=============================================================================
