----------------------- MODULE CampaignPipelineProofs -----------------------
(* Proofs about CampaignPipeline, for every set of recipients and every    *)
(* value of the retry limits and bounds.                                   *)
EXTENDS CampaignPipeline, TLAPS

\* The types of the records the other definitions are built from.
LEMMA StatusTypes ==
  /\ Pending \subseteq MessageStatus
  /\ Reached \subseteq MessageStatus
  /\ Idle \in ExecRecords
  /\ \A e \in WebhookEvents : Target(e) \in {"sent", "delivered", "read", "failed"}
  BY PipelineAssumption
     DEF Pending, Reached, MessageStatus, Idle, ExecRecords, ExecPc, Target

\* The updates that several actions share keep the type of what they update.
LEMMA GoToType ==
  ASSUME TypeOK, NEW m \in Messages, NEW pc \in ExecPc, GoTo(m, pc)
  PROVE  exec' \in [Messages -> ExecRecords]
  BY DEF TypeOK, GoTo, ExecRecords

\* Raising a counter keeps the counters natural numbers.
LEMMA BumpType ==
  ASSUME TypeOK, NEW c \in Counters
  PROVE  Bump(c) \in [Counters -> Nat]
  BY DEF TypeOK, Bump

\* Writing a status keeps the record of the message.
LEMMA SetStatusType ==
  ASSUME TypeOK, NEW m \in Messages, NEW s \in MessageStatus
  PROVE  SetStatus(m, s) \in [Messages -> CmRecords]
  BY DEF TypeOK, SetStatus, CmRecords

\* A message put back for a retry has a record of its type.
LEMMA RequeuedType ==
  ASSUME TypeOK, NEW m \in Messages
  PROVE  Requeued(m) \in [Messages -> CmRecords]
  <1> DEFINE r == [status |-> "queued", retry_count |-> cm[m].retry_count + 1,
                   wamid |-> cm[m].wamid]
  <1>1. r \in CmRecords
    BY DEF TypeOK, CmRecords, MessageStatus, Pending
  <1> QED
    BY <1>1 DEF TypeOK, Requeued

\* A message marked as failed, and the failed counter, keep their types.
LEMMA MarkFailedType ==
  ASSUME TypeOK, NEW m \in Messages, MarkFailed(m)
  PROVE  cm' \in [Messages -> CmRecords] /\ count' \in [Counters -> Nat]
  <1>1. "failed" \in MessageStatus /\ "failed" \in Counters
    BY DEF MessageStatus, Counters
  <1>2. CASE cm' = SetStatus(m, "failed") /\ count' = Bump("failed")
    BY <1>1, <1>2, SetStatusType, BumpType
  <1>3. CASE UNCHANGED <<cm, count>>
    BY <1>3 DEF TypeOK
  <1> QED
    BY <1>2, <1>3 DEF MarkFailed

\* The initial state is well typed.
LEMMA InitTypeOK == Init => TypeOK
  <1> SUFFICES ASSUME Init PROVE TypeOK
    OBVIOUS
  <1>1. /\ campaign \in CampaignStatus
        /\ count \in [Counters -> Nat]
        /\ accepted \in [Messages -> Nat]
        /\ faults \in Nat
        /\ wake \in BOOLEAN
    BY DEF Init, CampaignStatus, Counters
  <1>2. cm \in [Messages -> CmRecords]
    BY DEF Init, CmRecords, MessageStatus
  <1>3. /\ row \in [Messages -> RowStatus]
        /\ job \in [Messages -> JobStatus]
    BY DEF Init, RowStatus, JobStatus
  <1>4. exec \in [Messages -> ExecRecords]
    BY StatusTypes DEF Init
  <1>5. dispatch \in [job : JobStatus, pc : DispatchPc,
                      batch : SUBSET Messages, rows : SUBSET Messages]
    BY DEF Init, JobStatus, DispatchPc
  <1>6. /\ recon \in SUBSET Messages
        /\ seen \subseteq Messages \X Nat \X WebhookEvents
        /\ hooks \subseteq HookRecords
        /\ tx \in TxRecords \cup {NoTx}
    BY DEF Init
  <1> QED
    BY <1>1, <1>2, <1>3, <1>4, <1>5, <1>6 DEF TypeOK

\* Launching, stopping and sweeping keep every variable's type.
LEMMA SweepTypeOK ==
  ASSUME TypeOK,
         User \/ pauseOnFailureRate \/ Sweep \/ crashBeforeEnqueue
  PROVE  TypeOK'
  <1> USE DEF TypeOK, CmRecords, MessageStatus, CampaignStatus, campaignVars,
              queueVars, hookVars
  <1>1. ASSUME NEW Q \in SUBSET Messages, launchCampaign(Q) PROVE TypeOK'
    BY <1>1 DEF launchCampaign, Pending
  <1>2. CASE cancelCampaign
    BY <1>2 DEF cancelCampaign
  <1>3. CASE pauseOnFailureRate
    BY <1>3 DEF pauseOnFailureRate
  <1>4. ASSUME NEW S \in SUBSET Messages, recoverStuckCampaignMessages(S) PROVE TypeOK'
    BY <1>4 DEF recoverStuckCampaignMessages, Pending
  <1>5. CASE sweepRetryable
    BY <1>5 DEF sweepRetryable
  <1>6. CASE enqueueCampaign
    BY <1>6 DEF enqueueCampaign, JobStatus, InFlight
  <1>7. CASE crashBeforeEnqueue
    <2>1. faults' \in Nat
      BY <1>7 DEF crashBeforeEnqueue
    <2>2. wake' \in BOOLEAN
      BY <1>7, Zenon DEF crashBeforeEnqueue
    <2> QED
      BY <1>7, <2>1, <2>2 DEF crashBeforeEnqueue
  <1> QED
    BY <1>1, <1>2, <1>3, <1>4, <1>5, <1>6, <1>7 DEF User, Sweep

\* So does the dispatch worker.
LEMMA DispatchTypeOK ==
  ASSUME TypeOK, Dispatch \/ failDispatch
  PROVE  TypeOK'
  <1> USE DEF TypeOK, CmRecords, campaignVars, queueVars, hookVars
  <1>1. CASE loadRunningCampaign
    BY <1>1 DEF loadRunningCampaign, JobStatus, InFlight, DispatchPc
  <1>2. CASE checkStatus
    BY <1>2 DEF checkStatus, DispatchPc
  <1>3. ASSUME NEW due \in SUBSET Messages, NEW B \in SUBSET Messages,
               claimQueuedCampaignMessages(due, B)
        PROVE  TypeOK'
    <2>1. cm' \in [Messages -> CmRecords]
      BY <1>3 DEF claimQueuedCampaignMessages, MessageStatus, Pending
    <2>2. /\ B \subseteq Messages
          /\ dispatch' = IF B = {} THEN [dispatch EXCEPT !.pc = "finish"]
                         ELSE [dispatch EXCEPT !.pc = "queue", !.batch = B]
      BY <1>3 DEF claimQueuedCampaignMessages
    <2>3. UNCHANGED <<campaign, count, row, job, exec, recon, wake, accepted, seen, hooks, tx, faults>>
      BY <1>3 DEF claimQueuedCampaignMessages
    <2>4. dispatch' \in [job : JobStatus, pc : DispatchPc,
                         batch : SUBSET Messages, rows : SUBSET Messages]
      BY <2>2 DEF DispatchPc
    <2> QED
      BY <2>1, <2>3, <2>4
  <1>4. ASSUME NEW m \in Messages, insertOutboundMessage(m) PROVE TypeOK'
    <2>1. row' \in [Messages -> RowStatus]
      BY <1>4 DEF insertOutboundMessage, InsertedRow, RowStatus
    <2>2. dispatch' \in [job : JobStatus, pc : DispatchPc,
                         batch : SUBSET Messages, rows : SUBSET Messages]
      BY <1>4 DEF insertOutboundMessage
    <2> QED
      BY <1>4, <2>1, <2>2 DEF insertOutboundMessage
  <1>5. ASSUME NEW m \in Messages, enqueueOutboundJob(m) PROVE TypeOK'
    BY <1>5 DEF enqueueOutboundJob, AddJob, JobStatus, InFlight, DispatchPc
  <1>6. CASE markCampaignCompleted
    BY <1>6 DEF markCampaignCompleted, CompleteIf, CampaignStatus, JobStatus, DispatchPc
  <1>7. CASE failDispatch
    BY <1>7 DEF failDispatch, JobStatus, InFlight, DispatchPc
  <1> QED
    BY <1>1, <1>2, <1>3, <1>4, <1>5, <1>6, <1>7 DEF Dispatch

\* So does the outbound worker.
LEMMA ErrorTypeOK ==
  ASSUME TypeOK, NEW m \in Messages, NEW class \in ErrorClass, HandleError(m, class)
  PROVE  /\ cm' \in [Messages -> CmRecords]
         /\ count' \in [Counters -> Nat]
         /\ exec' \in [Messages -> ExecRecords]
  <1>0. {"failed", "retrying"} \subseteq ExecPc
    BY DEF ExecPc
  <1>1. CASE MarkFailed(m) /\ GoTo(m, "failed")
    BY <1>0, <1>1, MarkFailedType, GoToType
  <1>2. CASE cm' = Requeued(m) /\ GoTo(m, "retrying") /\ UNCHANGED count
    BY <1>0, <1>2, RequeuedType, GoToType DEF TypeOK
  <1> QED
    BY <1>1, <1>2 DEF HandleError

\* The steps of the outbound worker, its crashes and exceptions keep the types.
LEMMA ExecuteTypeOK ==
  ASSUME TypeOK, NEW m \in Messages,
         \/ Execute(m)
         \/ failOutboundJob(m)
         \/ crashOutboundWorker(m)
         \/ \E class \in ErrorClass : failBookkeeping(m, class)
  PROVE  TypeOK'
  <1> USE DEF TypeOK, campaignVars, hookVars
  <1>1. CASE startOutboundJob(m)
    <2>1. exec' \in [Messages -> ExecRecords]
      BY <1>1 DEF startOutboundJob, ExecRecords, ExecPc, CmRecords
    <2> QED
      BY <1>1, <2>1 DEF startOutboundJob, JobStatus, InFlight, RowStatus
  <1>0. {"failed", "retrying", "accepted", "marked"} \subseteq ExecPc
    BY DEF ExecPc
  <1>2. CASE blockByPolicy(m)
    BY <1>0, <1>2, MarkFailedType, GoToType DEF blockByPolicy
  <1>3. CASE deferCampaignMessageToNextDay(m)
    BY <1>0, <1>3, RequeuedType, GoToType DEF deferCampaignMessageToNextDay
  <1>4. CASE dispatchTemplateMessage(m)
    BY <1>0, <1>4, GoToType DEF dispatchTemplateMessage
  <1>5. CASE markCampaignMessageSent(m)
    <2>1. count' \in [Counters -> Nat]
      BY <1>5, BumpType DEF markCampaignMessageSent, Counters
    <2>2. cm' \in [Messages -> CmRecords]
      BY <1>5 DEF markCampaignMessageSent, CmRecords, MessageStatus, Reached
    <2> QED
      BY <1>0, <1>5, <2>1, <2>2, GoToType DEF markCampaignMessageSent
  <1>6. ASSUME NEW class \in ErrorClass, failSend(m, class) PROVE TypeOK'
    BY <1>6, ErrorTypeOK DEF failSend
  <1>7. CASE settleRow(m)
    BY <1>7 DEF settleRow, ExecAt, Outcome, GoTo, RowStatus, ExecRecords, ExecPc
  <1>8. CASE settleJob(m)
    BY <1>8, StatusTypes DEF settleJob, EndRun, JobStatus, InFlight
  <1>9. CASE failOutboundJob(m)
    BY <1>9, StatusTypes DEF failOutboundJob, EndRun, JobStatus, InFlight, RowStatus
  <1>10. CASE crashOutboundWorker(m)
    BY <1>10, StatusTypes DEF crashOutboundWorker, EndRun, JobStatus, InFlight
  <1>11. ASSUME NEW class \in ErrorClass, failBookkeeping(m, class) PROVE TypeOK'
    BY <1>11, ErrorTypeOK DEF failBookkeeping
  <1> QED
    BY <1>1, <1>2, <1>3, <1>4, <1>5, <1>6, <1>7, <1>8, <1>9, <1>10, <1>11 DEF Execute

\* So do the reconciliation and the webhook worker.
LEMMA ReconcileTypeOK ==
  ASSUME TypeOK, Reconcile
  PROVE  TypeOK'
  <1> USE DEF TypeOK, campaignVars, hookVars
  <1>1. ASSUME NEW S \in SUBSET Messages, selectQueuedRows(S) PROVE TypeOK'
    BY <1>1 DEF selectQueuedRows, RowStatus
  <1>2. ASSUME NEW m \in Messages, reconcileRow(m) PROVE TypeOK'
    BY <1>2 DEF reconcileRow, AddJob, JobStatus, InFlight
  <1> QED
    BY <1>1, <1>2 DEF Reconcile

\* The status events keep the types.
LEMMA WebhookTypeOK ==
  ASSUME TypeOK, Webhook \/ \E h \in hooks : failStatusUpdate(h)
  PROVE  TypeOK'
  <1> USE DEF campaignVars, queueVars
  <1>1. ASSUME NEW m \in Messages, NEW k \in 1..MaxSends, NEW e \in WebhookEvents,
               receiveStatusEvent(m, k, e)
        PROVE  TypeOK'
    <2>1. [msg |-> m, send |-> k, event |-> e,
           from |-> cm[m].status, rc |-> cm[m].retry_count] \in HookRecords
      BY DEF TypeOK, HookRecords, CmRecords
    <2>2. hooks' \subseteq HookRecords
      BY <1>1, <2>1 DEF TypeOK, receiveStatusEvent
    <2>3. seen' \subseteq Messages \X Nat \X WebhookEvents
      BY <1>1 DEF TypeOK, receiveStatusEvent
    <2> QED
      BY <1>1, <2>2, <2>3 DEF TypeOK, receiveStatusEvent
  <1>2. ASSUME NEW h \in hooks, scheduleSmartRetry(h) PROVE TypeOK'
    <2>1. h.msg \in Messages
      BY DEF TypeOK, HookRecords
    <2> QED
      BY <1>2, <2>1, RequeuedType DEF TypeOK, scheduleSmartRetry
  <1>3. ASSUME NEW h \in hooks, updateDeliveryStatus(h) PROVE TypeOK'
    <2>1. /\ h.msg \in Messages
          /\ h.from \in MessageStatus
          /\ h.event \in WebhookEvents
      BY DEF TypeOK, HookRecords
    <2>2. Target(h.event) \in Counters
      BY <2>1, StatusTypes DEF Counters
    <2>3. tx' \in TxRecords
      BY <1>3, <2>1, <2>2 DEF updateDeliveryStatus, TxRecords
    <2> QED
      BY <1>3, <2>3 DEF TypeOK, updateDeliveryStatus
  <1>4. CASE commitDeliveryStatus
    <2>1. tx \in TxRecords
      BY <1>4 DEF TypeOK, commitDeliveryStatus
    <2>2. cm' \in [Messages -> CmRecords]
      <3>1. tx.msg \in Messages /\ tx.to \in MessageStatus
        BY <2>1 DEF TxRecords, Counters, MessageStatus, Reached
      <3> QED
        BY <1>4, <3>1, SetStatusType DEF commitDeliveryStatus
    <2>3. count' \in [Counters -> Nat]
      BY <1>4, <2>1, BumpType DEF TypeOK, TxRecords, commitDeliveryStatus
    <2>4. campaign' \in CampaignStatus
      BY <1>4 DEF TypeOK, commitDeliveryStatus, CompleteIf, CampaignStatus
    <2> QED
      BY <1>4, <2>2, <2>3, <2>4 DEF TypeOK, commitDeliveryStatus
  <1>5. ASSUME NEW h \in hooks, failStatusUpdate(h) PROVE TypeOK'
    BY <1>5 DEF TypeOK, failStatusUpdate
  <1> QED
    BY <1>1, <1>2, <1>3, <1>4, <1>5 DEF Webhook

\* Every step keeps the types.
LEMMA StepTypeOK ==
  ASSUME TypeOK, [Next]_vars
  PROVE  TypeOK'
  <1>1. CASE UNCHANGED vars
    BY <1>1 DEF TypeOK, vars
  <1>2. CASE User \/ pauseOnFailureRate \/ Sweep \/ crashBeforeEnqueue
    BY <1>2, SweepTypeOK
  <1>3. CASE Dispatch \/ failDispatch
    BY <1>3, DispatchTypeOK
  <1>4. ASSUME NEW m \in Messages,
               \/ Execute(m) \/ failOutboundJob(m) \/ crashOutboundWorker(m)
               \/ \E class \in ErrorClass : failBookkeeping(m, class)
        PROVE  TypeOK'
    BY <1>4, ExecuteTypeOK
  <1>5. CASE Reconcile
    BY <1>5, ReconcileTypeOK
  <1>6. CASE Webhook \/ \E h \in hooks : failStatusUpdate(h)
    BY <1>6, WebhookTypeOK
  <1> QED
    BY <1>1, <1>2, <1>3, <1>4, <1>5, <1>6 DEF Next, Fault

\* Type correctness of the pipeline.
THEOREM TypeCorrectness == Spec => []TypeOK
  BY InitTypeOK, StepTypeOK, PTL DEF Spec
=============================================================================
