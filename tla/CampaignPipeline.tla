-------------------------- MODULE CampaignPipeline --------------------------
(***************************************************************************)
(* The broadcast send path of one campaign: the campaigns row, its         *)
(* campaign_messages, the outbound_messages rows and BullMQ jobs that send *)
(* them, and the processes that race over this shared state:               *)
(*                                                                         *)
(*   - the launch and cancel routes and the retry sweep (enqueueCampaign), *)
(*   - the campaign-dispatch worker (claim, upsert row, enqueue job),      *)
(*   - the outbound-execution worker, one run per job,                     *)
(*   - the reconciliation timer over outbound_messages,                    *)
(*   - the delivery-webhook worker (status events from Meta).              *)
(*                                                                         *)
(* One action is one SQL transaction or one Redis command group: what the  *)
(* code does between two awaits.  Workers die between any two of them.     *)
(*                                                                         *)
(* Time is abstract.  A time-out (QUEUE_STALLED_JOB_TIMEOUT_MS) or a       *)
(* next_retry_at may be reached at any moment, and a delayed job may       *)
(* become due at any moment, so "waiting" and "delayed", which every check *)
(* of the code treats alike, are one job state, "pending".                 *)
(***************************************************************************)
EXTENDS Naturals, FiniteSets

CONSTANTS
  Messages,         \* the recipients the campaign's audience resolves to
  BatchSize,        \* messages one claim takes (25 in the code)
  SmartRetry,       \* campaigns.smart_retry_enabled
  MaxSmartRetries,  \* MAX_SMART_RETRIES (3)
  MaxRetries,       \* MAX_RETRIES (1), for transient errors
  StopKinds,        \* how a campaign can be stopped: by a user, by an alert
  WebhookEvents,    \* the kinds of status event Meta reports in this model
  RetryBound,       \* bound: deferrals stop once retry_count reaches it
  MaxSends,         \* bound: sends of one message the provider accepts
  MaxEvents,        \* bound: status events received
  MaxFaults         \* bound: crashes and unexpected exceptions

ASSUME PipelineAssumption ==
  /\ IsFiniteSet(Messages)
  /\ BatchSize \in Nat \ {0}
  /\ SmartRetry \in BOOLEAN
  /\ {MaxSmartRetries, MaxRetries, RetryBound, MaxSends, MaxEvents, MaxFaults}
       \subseteq Nat
  /\ StopKinds \subseteq {"cancelled", "paused"}
  /\ WebhookEvents \subseteq {"sent", "delivered", "read", "failed", "throttled"}

VARIABLES
  campaign,  \* campaigns.status
  count,     \* its sent_count, delivered_count, read_count and failed_count
  cm,        \* campaign_messages: status, retry_count, wamid
  row,       \* outbound_messages.status
  job,       \* state of the BullMQ job outbound-campaign-<id>
  exec,      \* the worker running the job, and the retry_count it loaded
  dispatch,  \* the job campaign-<id>, its worker's position and its batch
  wake,      \* somebody is about to call enqueueCampaign
  recon,     \* rows the reconciliation timer has selected, not yet handled
  accepted,  \* number of sends of each message the provider accepted
  seen,      \* status events received (delivery_webhook_events)
  hooks,     \* status updates between their SELECT and their UPDATE
  tx,        \* the status transaction that holds the campaigns row lock
  faults     \* crashes and exceptions so far

vars == <<campaign, count, cm, row, job, exec, dispatch, wake, recon,
          accepted, seen, hooks, tx, faults>>

campaignVars == <<campaign, count, cm>>
queueVars    == <<row, job, exec, recon>>
hookVars     == <<seen, hooks, tx>>

Pending   == {"queued", "sending"}
Reached   == {"sent", "delivered", "read"}
CampaignStatus == {"draft", "running", "paused", "completed", "cancelled"}
MessageStatus  == {"none", "skipped", "failed"} \cup Pending \cup Reached
Counters  == {"sent", "delivered", "read", "failed"}
InFlight  == {"pending", "active"}
ExecPc    == {"idle", "loaded", "accepted", "marked",
              "retrying", "failed", "done", "delaying"}
DispatchPc == {"idle", "check", "claim", "queue", "finish"}

Idle == [pc |-> "idle", rc |-> 0]
NoTx == [msg |-> "none", to |-> "none", from |-> "none", idle |-> FALSE]

(***************************************************************************)
(* Row locks.  The status transaction tx has updated its message and the   *)
(* campaigns row and not committed: nobody else can update either.         *)
(***************************************************************************)
CampaignUnlocked   == tx = NoTx
MessageUnlocked(m) == tx.msg # m

Running == campaign = "running"

SetStatus(m, s) == [cm EXCEPT ![m].status = s]
Bump(c)         == [count EXCEPT ![c] = @ + 1]
Requeued(m)     == [cm EXCEPT ![m] = [status      |-> "queued",
                                      retry_count |-> cm[m].retry_count + 1,
                                      wamid       |-> cm[m].wamid]]

\* Faulty variant: the status is not looked at.
CompleteAlways(idle) == IF idle THEN "completed" ELSE campaign

\* Every statement that completes a campaign asks for status 'running'.
CompleteIf(idle) == IF Running /\ idle THEN "completed" ELSE campaign

-----------------------------------------------------------------------------
(* Launching, cancelling, pausing, and enqueueing a dispatch job. *)

Init ==
  /\ campaign = "draft"
  /\ count = [c \in Counters |-> 0]
  /\ cm = [m \in Messages |-> [status |-> "none", retry_count |-> 0, wamid |-> 0]]
  /\ row = [m \in Messages |-> "none"]
  /\ job = [m \in Messages |-> "none"]
  /\ exec = [m \in Messages |-> Idle]
  /\ dispatch = [job |-> "none", pc |-> "idle", batch |-> {}, rows |-> {}]
  /\ wake = FALSE
  /\ recon = {}
  /\ accepted = [m \in Messages |-> 0]
  /\ seen = {}
  /\ hooks = {}
  /\ tx = NoTx
  /\ faults = 0

\* Recipients outside Q are suppressed, lack consent or miss a variable.
launchCampaign(Q) ==
  /\ campaign = "draft"
  /\ cm' = [m \in Messages |->
              [cm[m] EXCEPT !.status = IF m \in Q THEN "queued" ELSE "skipped"]]
  /\ campaign' = IF Q = {} THEN "completed" ELSE "running"
  /\ wake' = TRUE
  /\ UNCHANGED <<count, queueVars, dispatch, accepted, hookVars, faults>>

cancelCampaign ==
  /\ "cancelled" \in StopKinds
  /\ campaign \in {"draft", "running", "paused"}
  /\ CampaignUnlocked
  /\ campaign' = "cancelled"
  /\ UNCHANGED <<count, cm, queueVars, dispatch, wake, accepted, hookVars, faults>>

\* refreshFailureRateAlert after a failed attempt; the rate is abstracted to
\* "some attempt has failed".
pauseOnFailureRate ==
  /\ "paused" \in StopKinds
  /\ Running
  /\ CampaignUnlocked
  /\ \E m \in Messages : cm[m].status = "failed"
  /\ \A m \in Messages : ~(cm[m].status = "queued" /\ cm[m].retry_count > 0)
  /\ campaign' = "paused"
  /\ UNCHANGED <<count, cm, queueVars, dispatch, wake, accepted, hookVars, faults>>

\* The lookup, the removal of a finished job and the add under the same id
\* take effect together, at the last of them.
enqueueCampaign ==
  /\ wake
  /\ wake' = FALSE
  /\ dispatch' = IF dispatch.job \in InFlight THEN dispatch
                 ELSE [dispatch EXCEPT !.job = "pending"]
  /\ UNCHANGED <<campaignVars, queueVars, accepted, hookVars, faults>>

\* The API or worker process dies before its call of enqueueCampaign.
crashBeforeEnqueue ==
  /\ wake
  /\ faults < MaxFaults
  /\ faults' = faults + 1
  /\ wake' = FALSE
  /\ UNCHANGED <<campaignVars, queueVars, dispatch, accepted, hookVars>>

-----------------------------------------------------------------------------
(* retrySweep *)

\* Faulty variant: only messages that have been retried before.
StuckRetry(m) == cm[m].status = "sending" /\ cm[m].retry_count > 0

Stuck(m) == cm[m].status = "sending"

\* S: the messages whose updated_at is older than the time-out.
recoverStuckCampaignMessages(S) ==
  /\ Running
  /\ S # {}
  /\ \A m \in S : Stuck(m) /\ MessageUnlocked(m)
  /\ cm' = [m \in Messages |->
              IF m \in S THEN [cm[m] EXCEPT !.status = "queued"] ELSE cm[m]]
  /\ wake' = TRUE
  /\ UNCHANGED <<campaign, count, queueVars, dispatch, accepted, hookVars, faults>>

\* Faulty variant: an off-by-one in the retry count.
RedispatchableLater(m) == cm[m].status = "queued" /\ cm[m].retry_count > 1

Redispatchable(m) == cm[m].status = "queued" /\ cm[m].retry_count > 0

sweepRetryable ==
  /\ Running
  /\ \E m \in Messages : Redispatchable(m)
  /\ ~wake
  /\ wake' = TRUE
  /\ UNCHANGED <<campaignVars, queueVars, dispatch, accepted, hookVars, faults>>

-----------------------------------------------------------------------------
(* The campaign-dispatch worker: processCampaignDispatch. *)

DispatchAt(pc) == dispatch.job = "active" /\ dispatch.pc = pc

loadRunningCampaign ==
  /\ dispatch.job = "pending"
  /\ dispatch' = IF Running
                 THEN [dispatch EXCEPT !.job = "active", !.pc = "check"]
                 ELSE [dispatch EXCEPT !.job = "completed"]
  /\ UNCHANGED <<campaignVars, queueVars, wake, accepted, hookVars, faults>>

checkStatus ==
  /\ DispatchAt("check")
  /\ dispatch' = [dispatch EXCEPT !.pc = IF Running THEN "claim" ELSE "finish"]
  /\ UNCHANGED <<campaignVars, queueVars, wake, accepted, hookVars, faults>>

\* Faulty variant: the filter on the status is missing.
ClaimableAny(due) == {m \in Messages : MessageUnlocked(m)}

\* FOR UPDATE SKIP LOCKED over the queued messages: every fresh one, and of
\* the retried ones those whose next_retry_at has passed.
Claimable(due) ==
  {m \in Messages : /\ cm[m].status = "queued"
                    /\ MessageUnlocked(m)
                    /\ cm[m].retry_count = 0 \/ m \in due}

claimQueuedCampaignMessages(due, B) ==
  /\ DispatchAt("claim")
  /\ B \subseteq Claimable(due)
  /\ \/ Cardinality(B) = BatchSize
     \/ B = Claimable(due) /\ Cardinality(B) < BatchSize
  /\ cm' = [m \in Messages |->
              IF m \in B THEN [cm[m] EXCEPT !.status = "sending"] ELSE cm[m]]
  /\ dispatch' = IF B = {} THEN [dispatch EXCEPT !.pc = "finish"]
                 ELSE [dispatch EXCEPT !.pc = "queue", !.batch = B]
  /\ UNCHANGED <<campaign, count, queueVars, wake, accepted, hookVars, faults>>

\* Faulty variant: an existing row is updated, none is inserted.
UpdatedRow(m) == row

\* On a conflict over job_key the row keeps its status.
InsertedRow(m) == IF row[m] = "none" THEN [row EXCEPT ![m] = "queued"] ELSE row

insertOutboundMessage(m) ==
  /\ DispatchAt("queue")
  /\ m \in dispatch.batch
  /\ row' = InsertedRow(m)
  /\ dispatch' = [dispatch EXCEPT !.batch = @ \ {m}, !.rows = @ \cup {m}]
  /\ UNCHANGED <<campaignVars, job, exec, recon, wake, accepted, hookVars, faults>>

\* Faulty variant: a finished job is not removed, so nothing is added.
AddJobOnce(m) == job' = IF job[m] # "none" THEN job ELSE [job EXCEPT ![m] = "pending"]

\* An in-flight job is left alone; a finished one is removed and added anew.
AddJob(m) == job' = IF job[m] \in InFlight THEN job ELSE [job EXCEPT ![m] = "pending"]

enqueueOutboundJob(m) ==
  /\ DispatchAt("queue")
  /\ m \in dispatch.rows
  /\ AddJob(m)
  /\ dispatch' = [dispatch EXCEPT
                    !.rows = @ \ {m},
                    !.pc = IF dispatch.batch = {} /\ dispatch.rows = {m}
                           THEN "check" ELSE @]
  /\ UNCHANGED <<campaignVars, row, exec, recon, wake, accepted, hookVars, faults>>

\* Faulty variant: messages a worker holds are forgotten.
NothingQueued == \A m \in Messages : cm[m].status # "queued"

NothingPending == \A m \in Messages : cm[m].status \notin Pending

markCampaignCompleted ==
  /\ DispatchAt("finish")
  /\ CampaignUnlocked
  /\ campaign' = CompleteIf(NothingPending)
  /\ dispatch' = [dispatch EXCEPT !.job = "completed", !.pc = "idle"]
  /\ UNCHANGED <<count, cm, queueVars, wake, accepted, hookVars, faults>>

\* A crash or an exception: BullMQ runs the job again or gives it up; the
\* batch in hand is forgotten.
failDispatch ==
  /\ dispatch.job = "active"
  /\ faults < MaxFaults
  /\ faults' = faults + 1
  /\ \E s \in {"pending", "failed"} :
       dispatch' = [job |-> s, pc |-> "idle", batch |-> {}, rows |-> {}]
  /\ UNCHANGED <<campaignVars, queueVars, wake, accepted, hookVars>>

-----------------------------------------------------------------------------
(* The outbound-execution worker: executeOutboundJob, processCampaignSend *)
(* and deliverCampaignMessage.                                            *)

ExecAt(m, pcs) == exec[m].pc \in pcs
GoTo(m, pc)    == exec' = [exec EXCEPT ![m].pc = pc]
EndRun(m, s)   == /\ job'  = [job EXCEPT ![m] = s]
                  /\ exec' = [exec EXCEPT ![m] = Idle]

\* The row becomes "processing" whatever its status was, the grouping lock is
\* taken and the campaign message loaded; neither the status of the message
\* nor that of the campaign is looked at.
startOutboundJob(m) ==
  /\ job[m] = "pending"
  /\ job' = [job EXCEPT ![m] = "active"]
  /\ row' = [row EXCEPT ![m] = "processing"]
  /\ exec' = [exec EXCEPT ![m] = [pc |-> "loaded", rc |-> cm[m].retry_count]]
  /\ UNCHANGED <<campaignVars, recon, dispatch, wake, accepted, hookVars, faults>>

\* The grouping lock is busy, or something throws before the send: with one
\* attempt the job fails for good and the message stays as it is.
failOutboundJob(m) ==
  /\ ExecAt(m, {"loaded"})
  /\ faults < MaxFaults
  /\ faults' = faults + 1
  /\ row' = [row EXCEPT ![m] = "failed"]
  /\ EndRun(m, "failed")
  /\ UNCHANGED <<campaignVars, recon, dispatch, wake, accepted, hookVars>>

\* markCampaignMessageFailed with permanent = TRUE.
MarkFailed(m) ==
  /\ CampaignUnlocked
  /\ IF cm[m].status = "failed"
     THEN UNCHANGED <<cm, count>>
     ELSE cm' = SetStatus(m, "failed") /\ count' = Bump("failed")

blockByPolicy(m) ==
  /\ ExecAt(m, {"loaded"})
  /\ MarkFailed(m)
  /\ GoTo(m, "failed")
  /\ UNCHANGED <<campaign, row, job, recon, dispatch, wake, accepted, hookVars, faults>>

\* The frequency cap or the daily tier cap puts the message off.
deferCampaignMessageToNextDay(m) ==
  /\ ExecAt(m, {"loaded"})
  /\ MessageUnlocked(m)
  /\ cm[m].retry_count < RetryBound
  /\ cm' = Requeued(m)
  /\ GoTo(m, "retrying")
  /\ UNCHANGED <<campaign, count, row, job, recon, dispatch, wake, accepted,
                 hookVars, faults>>

dispatchTemplateMessage(m) ==
  /\ ExecAt(m, {"loaded"})
  /\ accepted[m] < MaxSends
  /\ accepted' = [accepted EXCEPT ![m] = @ + 1]
  /\ GoTo(m, "accepted")
  /\ UNCHANGED <<campaignVars, row, job, recon, dispatch, wake, hookVars, faults>>

markCampaignMessageSent(m) ==
  /\ ExecAt(m, {"accepted"})
  /\ CampaignUnlocked
  /\ IF cm[m].status \in Reached
     THEN UNCHANGED <<cm, count>>
     ELSE /\ cm' = [cm EXCEPT ![m].status = "sent", ![m].wamid = accepted[m]]
          /\ count' = Bump("sent")
  /\ GoTo(m, "marked")
  /\ UNCHANGED <<campaign, row, job, recon, dispatch, wake, accepted, hookVars, faults>>

\* The retry_count tested is the one the worker loaded.
RetryAllowed(m, class) ==
  \/ class = "throttled" /\ SmartRetry /\ exec[m].rc < MaxSmartRetries
  \/ class = "transient" /\ exec[m].rc < MaxRetries

HandleError(m, class) ==
  \/ /\ RetryAllowed(m, class)
     /\ MessageUnlocked(m)
     /\ cm[m].retry_count < RetryBound
     /\ cm' = Requeued(m)
     /\ GoTo(m, "retrying")
     /\ UNCHANGED count
  \/ /\ ~RetryAllowed(m, class) \/ class = "throttled"  \* past smart_retry_until
     /\ MarkFailed(m)
     /\ GoTo(m, "failed")

\* The provider refuses the message, or its answer is lost (a time-out) after
\* it has accepted it.
failSend(m, class) ==
  /\ ExecAt(m, {"loaded"})
  /\ HandleError(m, class)
  /\ \/ UNCHANGED accepted
     \/ /\ class = "transient"
        /\ accepted[m] < MaxSends
        /\ accepted' = [accepted EXCEPT ![m] = @ + 1]
  /\ UNCHANGED <<campaign, row, job, recon, dispatch, wake, hookVars, faults>>

\* The same catch clause runs when the bookkeeping after the send throws.
failBookkeeping(m, class) ==
  /\ ExecAt(m, {"accepted", "marked"})
  /\ faults < MaxFaults
  /\ faults' = faults + 1
  /\ HandleError(m, class)
  /\ UNCHANGED <<campaign, row, job, recon, dispatch, wake, accepted, hookVars>>

\* Faulty variant: processCampaignSend forgets that the send may have failed.
OutcomeOrCompleted(pc) == IF pc = "retrying" THEN "queued" ELSE "completed"

\* Faulty variant: the row takes the status of the campaign message.
OutcomeAsStatus(pc) == CASE pc = "marked" -> "sent" [] pc = "failed" -> "failed"
                         [] pc = "retrying" -> "queued"

Outcome(pc) ==
  CASE pc = "marked"   -> "completed"
    [] pc = "failed"   -> "failed"
    [] pc = "retrying" -> "queued"

\* processCampaignSend records the outcome in the row ...
settleRow(m) ==
  /\ ExecAt(m, {"marked", "failed", "retrying"})
  /\ row' = [row EXCEPT ![m] = Outcome(exec[m].pc)]
  /\ GoTo(m, IF exec[m].pc = "retrying" THEN "delaying" ELSE "done")
  /\ UNCHANGED <<campaignVars, job, recon, dispatch, wake, accepted, hookVars, faults>>

\* ... and then completes the job or moves it to the delayed set.
settleJob(m) ==
  /\ ExecAt(m, {"done", "delaying"})
  /\ EndRun(m, IF exec[m].pc = "done" THEN "completed" ELSE "pending")
  /\ UNCHANGED <<campaignVars, row, recon, dispatch, wake, accepted, hookVars, faults>>

\* The worker dies: BullMQ finds the job stalled and runs it again, or fails
\* it when it has stalled before.
crashOutboundWorker(m) ==
  /\ ~ExecAt(m, {"idle"})
  /\ faults < MaxFaults
  /\ faults' = faults + 1
  /\ \E s \in {"pending", "failed"} : EndRun(m, s)
  /\ UNCHANGED <<campaignVars, row, recon, dispatch, wake, accepted, hookVars>>

-----------------------------------------------------------------------------
(* reconcileOutboundQueue *)

\* Faulty variant: failed rows are taken for stalled ones.
OpenOrFailed(m) == row[m] \in {"processing", "failed"}

Stalled(m) == row[m] = "processing"

\* S: the processing rows whose updated_at is older than the time-out; then
\* the queued rows are selected.
selectQueuedRows(S) ==
  /\ recon = {}
  /\ \A m \in S : Stalled(m)
  /\ row' = [m \in Messages |-> IF m \in S THEN "queued" ELSE row[m]]
  /\ recon' = {m \in Messages : row'[m] = "queued"}
  /\ UNCHANGED <<campaignVars, job, exec, dispatch, wake, accepted, hookVars, faults>>

\* The row is not read again.
reconcileRow(m) ==
  /\ m \in recon
  /\ recon' = recon \ {m}
  /\ AddJob(m)
  /\ UNCHANGED <<campaignVars, row, exec, dispatch, wake, accepted, hookVars, faults>>

-----------------------------------------------------------------------------
(* The delivery-webhook worker: claimWebhookStatusEvent and                *)
(* applyCampaignDeliveryStatusUpdate.                                      *)

\* The campaign status an event asks for; Meta reports throttling (131049)
\* as a failure.
Target(e) == IF e = "throttled" THEN "failed" ELSE e

shouldApplyCampaignStatus(current, next) ==
  CASE next = "sent"      -> current \in Pending
    [] next = "delivered" -> current = "sent"
    [] next = "read"      -> current \in {"sent", "delivered"}
    [] next = "failed"    -> current \in Pending \cup {"sent"}

\* Faulty variant: only the failure of a sent message is counted.
CountedOnce(from, to) == to \in Reached \/ from = "sent"

\* Whether the transition from -> to counts in the column named to.
Counted(from, to) ==
  CASE to = "sent"      -> from \notin Reached
    [] to = "delivered" -> from \notin {"delivered", "read"}
    [] to = "read"      -> from # "read"
    [] to = "failed"    -> from # "failed"

\* Faulty variant: the message is found by its recipient.
SameRecipient(m, k) == TRUE

SameWamid(m, k) == cm[m].wamid = k

\* An event on the k-th accepted send of m.  The status is read without a
\* lock; an event whose wamid is not (or no longer) that of the message has
\* no effect, and is processed nevertheless.
receiveStatusEvent(m, k, e) ==
  /\ Cardinality(seen) < MaxEvents
  /\ k \in 1..accepted[m]
  /\ <<m, k, e>> \notin seen
  /\ seen' = seen \cup {<<m, k, e>>}
  /\ hooks' = IF /\ SameWamid(m, k)
                 /\ shouldApplyCampaignStatus(cm[m].status, Target(e))
              THEN hooks \cup {[msg |-> m, send |-> k, event |-> e,
                                from |-> cm[m].status, rc |-> cm[m].retry_count]}
              ELSE hooks
  /\ UNCHANGED <<campaignVars, queueVars, dispatch, wake, accepted, tx, faults>>

SmartRetryApplies(h) ==
  h.event = "throttled" /\ SmartRetry /\ h.rc < MaxSmartRetries

scheduleSmartRetry(h) ==
  /\ h \in hooks
  /\ SmartRetryApplies(h)
  /\ MessageUnlocked(h.msg)
  /\ cm[h.msg].retry_count < RetryBound
  /\ cm' = Requeued(h.msg)
  /\ hooks' = hooks \ {h}
  /\ UNCHANGED <<campaign, count, queueVars, dispatch, wake, accepted, seen, tx, faults>>

\* The UPDATE of the message and of the counter, and the count of pending
\* messages of markCampaignCompletedIfIdle.  A throttled message comes here
\* once its retries are used up or smart_retry_until would be passed.
updateDeliveryStatus(h) ==
  /\ h \in hooks
  /\ CampaignUnlocked
  /\ tx' = [msg |-> h.msg, to |-> Target(h.event), from |-> h.from,
            idle |-> /\ Target(h.event) \notin Pending
                     /\ \A n \in Messages \ {h.msg} : cm[n].status \notin Pending]
  /\ hooks' = hooks \ {h}
  /\ UNCHANGED <<campaignVars, queueVars, dispatch, wake, accepted, seen, faults>>

commitDeliveryStatus ==
  /\ tx # NoTx
  /\ cm' = SetStatus(tx.msg, tx.to)
  /\ count' = IF Counted(tx.from, tx.to) THEN Bump(tx.to) ELSE count
  /\ campaign' = CompleteIf(tx.idle)
  /\ tx' = NoTx
  /\ UNCHANGED <<queueVars, dispatch, wake, accepted, seen, hooks, faults>>

\* The transaction is rolled back; the error is logged and swallowed.
failStatusUpdate(h) ==
  /\ h \in hooks
  /\ faults < MaxFaults
  /\ faults' = faults + 1
  /\ hooks' = hooks \ {h}
  /\ UNCHANGED <<campaignVars, queueVars, dispatch, wake, accepted, seen, tx>>

-----------------------------------------------------------------------------

ErrorClass == {"transient", "throttled", "final"}

User  == (\E Q \in SUBSET Messages : launchCampaign(Q)) \/ cancelCampaign

Sweep ==
  \/ \E S \in SUBSET Messages : recoverStuckCampaignMessages(S)
  \/ sweepRetryable
  \/ enqueueCampaign

Dispatch ==
  \/ loadRunningCampaign
  \/ checkStatus
  \/ \E due, B \in SUBSET Messages : claimQueuedCampaignMessages(due, B)
  \/ \E m \in Messages : insertOutboundMessage(m) \/ enqueueOutboundJob(m)
  \/ markCampaignCompleted

Execute(m) ==
  \/ startOutboundJob(m)
  \/ blockByPolicy(m)
  \/ deferCampaignMessageToNextDay(m)
  \/ dispatchTemplateMessage(m)
  \/ markCampaignMessageSent(m)
  \/ \E class \in ErrorClass : failSend(m, class)
  \/ settleRow(m)
  \/ settleJob(m)

Reconcile ==
  \/ \E S \in SUBSET Messages : selectQueuedRows(S)
  \/ \E m \in Messages : reconcileRow(m)

Webhook ==
  \/ \E m \in Messages, k \in 1..MaxSends, e \in WebhookEvents : receiveStatusEvent(m, k, e)
  \/ \E h \in hooks : scheduleSmartRetry(h) \/ updateDeliveryStatus(h)
  \/ commitDeliveryStatus

Fault ==
  \/ crashBeforeEnqueue
  \/ failDispatch
  \/ \E m \in Messages : failOutboundJob(m) \/ crashOutboundWorker(m)
  \/ \E m \in Messages, class \in ErrorClass : failBookkeeping(m, class)
  \/ \E h \in hooks : failStatusUpdate(h)

Next ==
  \/ User
  \/ pauseOnFailureRate
  \/ Sweep
  \/ Dispatch
  \/ \E m \in Messages : Execute(m)
  \/ Reconcile
  \/ Webhook
  \/ Fault

Spec == Init /\ [][Next]_vars

(***************************************************************************)
(* Fairness.  BullMQ keeps running the jobs it holds, and the two timers   *)
(* keep firing, so each worker and each pass makes progress.  A row or a   *)
(* message that stays stuck is older than the time-out in every later pass *)
(* and a retried message is due in every later claim: strong fairness.     *)
(* Nothing is assumed of users, of Meta's status events or of faults.      *)
(***************************************************************************)
Fairness ==
  /\ WF_vars(enqueueCampaign)
  /\ WF_vars(sweepRetryable)
  /\ WF_vars(Dispatch)
  /\ WF_vars(commitDeliveryStatus)
  /\ WF_vars(\E h \in hooks : scheduleSmartRetry(h) \/ updateDeliveryStatus(h))
  /\ WF_vars(\E S \in SUBSET Messages : selectQueuedRows(S))
  /\ \A m \in Messages :
       /\ WF_vars(Execute(m))
       /\ WF_vars(reconcileRow(m))
       /\ SF_vars(\E S \in SUBSET Messages : m \in S /\ recoverStuckCampaignMessages(S))
       /\ SF_vars(\E S \in SUBSET Messages : m \in S /\ selectQueuedRows(S))
       /\ SF_vars(\E due, B \in SUBSET Messages :
                     m \in B /\ claimQueuedCampaignMessages(due, B))

FairSpec == Spec /\ Fairness

-----------------------------------------------------------------------------
(* Invariants *)

CmRecords   == [status : MessageStatus, retry_count : Nat, wamid : Nat]
ExecRecords == [pc : ExecPc, rc : Nat]
JobStatus   == {"none", "completed", "failed"} \cup InFlight
RowStatus   == {"none", "queued", "processing", "completed", "failed"}
HookRecords == [msg : Messages, send : Nat, event : WebhookEvents,
                from : MessageStatus, rc : Nat]
TxRecords   == [msg : Messages, to : Counters, from : MessageStatus,
                idle : BOOLEAN]

\* Every variable keeps its type; in particular each status column holds one
\* of the values its CHECK constraint lists.
TypeOK ==
  /\ campaign \in CampaignStatus
  /\ count \in [Counters -> Nat]
  /\ cm \in [Messages -> CmRecords]
  /\ row \in [Messages -> RowStatus]
  /\ job \in [Messages -> JobStatus]
  /\ exec \in [Messages -> ExecRecords]
  /\ dispatch \in [job : JobStatus, pc : DispatchPc,
                   batch : SUBSET Messages, rows : SUBSET Messages]
  /\ wake \in BOOLEAN
  /\ recon \in SUBSET Messages
  /\ accepted \in [Messages -> Nat]
  /\ seen \subseteq Messages \X Nat \X WebhookEvents
  /\ hooks \subseteq HookRecords
  /\ tx \in TxRecords \cup {NoTx}
  /\ faults \in Nat

\* A message the dashboard shows as sent, delivered or read was accepted by
\* the provider, and its wamid is that of an accepted send: neither a late
\* status event, nor a retry, nor a crash can make the claim up.
SentWasAccepted ==
  \A m \in Messages : cm[m].status \in Reached => cm[m].wamid \in 1..accepted[m]

\* An outbound_messages row ends "completed" only if the provider accepted a
\* send of its message, whichever run of the job settled the row.
CompletedRowWasAccepted ==
  \A m \in Messages : row[m] = "completed" => accepted[m] > 0

\* The campaign's counters never fall short of what its messages show, however
\* the worker's and the webhook's updates interleave.  (They may exceed it: a
\* message sent, throttled and sent again counts twice.)
CountersCover ==
  /\ count["sent"] >= Cardinality({m \in Messages : cm[m].status \in Reached})
  /\ \A s \in {"delivered", "read", "failed"} :
       count[s] >= Cardinality({m \in Messages : cm[m].status = s})

\* A job that BullMQ holds has a row to execute, so executeOutboundJob never
\* drops it as unknown.
JobHasRow == \A m \in Messages : job[m] # "none" => row[m] # "none"

\* When a job has completed its row is settled: nothing the reconciliation
\* would send again.
CompletedJobSettledRow ==
  \A m \in Messages : job[m] = "completed" => row[m] \in {"completed", "failed"}

\* A completed campaign has missed nobody: whether the dispatch worker or a
\* status event completes it, a message still to be sent has been put back by
\* a retry, and none is waiting for its first attempt or in the middle of it.
CompletedMissesNobody ==
  campaign = "completed" =>
    \A m \in Messages : cm[m].status \in Pending => cm[m].retry_count > 0

(***************************************************************************)
(* The inductive invariant behind the invariants above: what the workers   *)
(* may rely on although they do not check it.                              *)
(***************************************************************************)

\* The message was queued at launch.
Queued(m) == cm[m].status \notin {"none", "skipped"}

\* Some process works on the message, or has.
Touched(m) ==
  \/ accepted[m] > 0
  \/ row[m] # "none"
  \/ ~ExecAt(m, {"idle"})
  \/ m \in dispatch.batch \cup dispatch.rows

DraftIsUntouched == campaign = "draft" => \A m \in Messages : cm[m].status = "none"

OnlyQueuedAreTouched == \A m \in Messages : Touched(m) => Queued(m)

RowBeforeJob ==
  \A m \in Messages : job[m] # "none" \/ m \in recon \cup dispatch.rows => row[m] # "none"

RunHasJob == \A m \in Messages : ~ExecAt(m, {"idle"}) => job[m] = "active"

DoneIsSettled ==
  \A m \in Messages :
    ExecAt(m, {"done"}) \/ job[m] = "completed" => row[m] \in {"completed", "failed"}

SendsAreAccepted ==
  \A m \in Messages :
    /\ cm[m].wamid <= accepted[m]
    /\ cm[m].status \in Reached => cm[m].wamid > 0
    /\ ExecAt(m, {"accepted", "marked"}) \/ row[m] = "completed" => accepted[m] > 0

EventsHaveSend ==
  /\ \A h \in hooks : cm[h.msg].wamid > 0
  /\ tx # NoTx => cm[tx.msg].wamid > 0

Settled(m) == cm[m].status \in Pending => cm[m].retry_count > 0

\* What the status transaction has counted stays true until it commits.
CountHolds ==
  tx.idle => tx.to \notin Pending /\ \A m \in Messages \ {tx.msg} : Settled(m)

IInv ==
  /\ TypeOK
  /\ DraftIsUntouched
  /\ OnlyQueuedAreTouched
  /\ RowBeforeJob
  /\ RunHasJob
  /\ DoneIsSettled
  /\ SendsAreAccepted
  /\ EventsHaveSend
  /\ CountHolds
  /\ CompletedMissesNobody

(***************************************************************************)
(* Behind CountersCover: the sent counter covers every message that was    *)
(* given a wamid, which it keeps, and what a status event was selected for *)
(* still counts when it is committed, whatever the message shows by then.  *)
(***************************************************************************)
CountedIn(c) ==
  IF c = "sent" THEN {m \in Messages : cm[m].wamid > 0}
                ELSE {m \in Messages : cm[m].status = c}

CountsInv ==
  /\ \A c \in Counters : count[c] >= Cardinality(CountedIn(c))
  /\ \A h \in hooks : Counted(h.from, Target(h.event))
  /\ tx # NoTx => Counted(tx.from, tx.to)

-----------------------------------------------------------------------------
(* Action properties *)

\* A recipient skipped at launch (suppressed, or without consent) stays
\* skipped: no claim, sweep, retry or status event picks the message up, no row
\* or job ever exists for it and nothing is sent.
SkippedIsFinal ==
  [][\A m \in Messages : cm[m].status = "skipped" =>
       /\ cm'[m].status = "skipped"
       /\ accepted'[m] = 0 /\ row'[m] = "none" /\ job'[m] = "none"]_vars

\* A campaign that is cancelled, paused or completed never runs again, and a
\* cancelled one is not reported as completed by a worker or webhook that was
\* still at work on it.
StopIsFinal ==
  [][(campaign \in {"cancelled", "paused", "completed"}) =>
       campaign' \in {campaign, "cancelled"}]_vars

-----------------------------------------------------------------------------
(* Liveness *)

\* A message claimed for sending does not stay "sending" for ever while its
\* campaign runs: whatever dies, the sweep or a worker moves it on.
ClaimIsReleased ==
  \A m \in Messages :
    Running /\ cm[m].status = "sending" ~> ~Running \/ cm[m].status # "sending"

\* A row left without a job in flight (a crash between the insert and the
\* enqueue, a job that stalled too often) gets a job again or is settled.
OpenRowGetsJob ==
  \A m \in Messages :
    row[m] \in {"queued", "processing"}
      ~> job[m] \in InFlight \/ row[m] \in {"completed", "failed"}

\* A message put back for a retry is claimed again while its campaign runs.
RetryIsClaimed ==
  \A m \in Messages :
    Running /\ cm[m].status = "queued" /\ cm[m].retry_count > 0
      ~> ~Running \/ cm[m].status # "queued"

-----------------------------------------------------------------------------
(* What the code's comments and documentation say, and the code does not do *)

\* message-delivery-data-service.ts: after a smart retry "Campaign stays
\* running - markCampaignCompletedIfIdle will find queued messages".
SmartRetryKeepsRunning ==
  campaign = "completed" =>
    \A m \in Messages : ~(cm[m].status = "queued" /\ cm[m].retry_count > 0)

\* ARCHITECTURE.md: the dispatch worker repeats "until no more queued
\* messages" and then "markCampaignCompleted".
RunningCampaignEnds == Running ~> ~Running
=============================================================================
