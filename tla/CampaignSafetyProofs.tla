------------------------ MODULE CampaignSafetyProofs ------------------------
(* The safety invariants of CampaignPipeline, from its inductive invariant. *)
EXTENDS CampaignPipelineProofs, FiniteSetTheorems

\* Before the launch no worker has touched anything.
LEMMA InitIInv == Init => IInv
  BY InitTypeOK
     DEF Init, IInv, DraftIsUntouched, Queued, OnlyQueuedAreTouched, Touched,
         ExecAt, Idle, RowBeforeJob, RunHasJob, DoneIsSettled, SendsAreAccepted,
         Reached, EventsHaveSend, CountHolds, NoTx, CompletedMissesNobody, Settled

\* Status updates in progress are about messages.
LEMMA EventsAreOfMessages ==
  ASSUME TypeOK
  PROVE  /\ \A h \in hooks : h.msg \in Messages
         /\ tx # NoTx => tx.msg \in Messages
         /\ tx.idle => tx # NoTx
  BY DEF TypeOK, HookRecords, TxRecords, NoTx

\* What the two updates of a message change, and that is all they change.
LEMMA MarkFailedChanges ==
  ASSUME TypeOK, NEW m \in Messages, MarkFailed(m), NEW n \in Messages
  PROVE  /\ cm'[n].wamid = cm[n].wamid
         /\ cm'[n].retry_count = cm[n].retry_count
         /\ cm'[n].status = IF n = m THEN "failed" ELSE cm[n].status
  BY DEF TypeOK, CmRecords, MarkFailed, SetStatus

\* What putting a message back for a retry changes of each message.
LEMMA RequeuedChanges ==
  ASSUME TypeOK, NEW m \in Messages, cm' = Requeued(m), NEW n \in Messages
  PROVE  /\ cm'[n].wamid = cm[n].wamid
         /\ cm'[n].retry_count = IF n = m THEN cm[n].retry_count + 1 ELSE cm[n].retry_count
         /\ cm'[n].status = IF n = m THEN "queued" ELSE cm[n].status
  BY DEF TypeOK, CmRecords, Requeued

\* What the recovery of stuck messages changes of each message.
LEMMA RecoveredChanges ==
  ASSUME TypeOK, NEW S \in SUBSET Messages, recoverStuckCampaignMessages(S),
         NEW m \in Messages
  PROVE  /\ cm'[m].wamid = cm[m].wamid
         /\ cm'[m].retry_count = cm[m].retry_count
         /\ \/ cm'[m].status = cm[m].status
            \/ cm[m].status = "sending" /\ cm'[m].status = "queued"
  <1>1. cm[m] \in CmRecords
    BY DEF TypeOK
  <1>2. cm'[m] = IF m \in S THEN [cm[m] EXCEPT !.status = "queued"] ELSE cm[m]
    BY DEF recoverStuckCampaignMessages
  <1>3. m \in S => cm[m].status = "sending"
    BY DEF recoverStuckCampaignMessages, Stuck
  <1> QED
    BY <1>1, <1>2, <1>3 DEF CmRecords

\* What the claim of a batch changes of each message.
LEMMA ClaimedChanges ==
  ASSUME TypeOK, NEW due \in SUBSET Messages, NEW B \in SUBSET Messages,
         claimQueuedCampaignMessages(due, B), NEW m \in Messages
  PROVE  /\ cm'[m].wamid = cm[m].wamid
         /\ cm'[m].retry_count = cm[m].retry_count
         /\ \/ cm'[m].status = cm[m].status
            \/ cm[m].status = "queued" /\ cm'[m].status = "sending"
         /\ m \in B => cm[m].status = "queued"
  <1>1. cm[m] \in CmRecords
    BY DEF TypeOK
  <1>2. cm'[m] = IF m \in B THEN [cm[m] EXCEPT !.status = "sending"] ELSE cm[m]
    BY DEF claimQueuedCampaignMessages
  <1>3. m \in B => cm[m].status = "queued"
    BY DEF claimQueuedCampaignMessages, Claimable
  <1> QED
    BY <1>1, <1>2, <1>3 DEF CmRecords

\* What marking a message as sent changes of each message.
LEMMA SentChanges ==
  ASSUME TypeOK, NEW m \in Messages, markCampaignMessageSent(m), NEW n \in Messages
  PROVE  /\ cm'[n].retry_count = cm[n].retry_count
         /\ \/ cm'[n].wamid = cm[n].wamid /\ cm'[n].status = cm[n].status
            \/ n = m /\ cm'[n].wamid = accepted[n] /\ cm'[n].status = "sent"
  <1>1. cm[n] \in CmRecords
    BY DEF TypeOK
  <1>2. CASE n = m /\ cm'[n] = [cm[n] EXCEPT !.status = "sent", !.wamid = accepted[m]]
    BY <1>1, <1>2 DEF CmRecords
  <1> QED
    BY <1>2 DEF markCampaignMessageSent, TypeOK

\* A step that moves messages between "queued" and "sending" and at most puts
\* pending ones in the dispatch worker's hands.
LEMMA PendingStep ==
  ASSUME IInv, TypeOK', campaign' = campaign,
         UNCHANGED <<queueVars, accepted, hooks, tx>>,
         \A m \in Messages :
           /\ cm'[m].wamid = cm[m].wamid
           /\ cm'[m].retry_count = cm[m].retry_count
           /\ \/ cm'[m].status = cm[m].status
              \/ cm[m].status \in Pending /\ cm'[m].status \in Pending,
         dispatch'.rows \subseteq dispatch.rows,
         \A m \in dispatch'.batch : m \in dispatch.batch \/ cm[m].status \in Pending
  PROVE  IInv'
  <1> USE DEF IInv, TypeOK, CmRecords, ExecRecords, DraftIsUntouched, Queued,
              OnlyQueuedAreTouched, Touched, ExecAt, RowBeforeJob, RunHasJob,
              DoneIsSettled, SendsAreAccepted, Reached, Pending, EventsHaveSend,
              CountHolds, CompletedMissesNobody, Settled
  <1> USE DEF queueVars
  <1>1. EventsHaveSend'
    BY EventsAreOfMessages
  <1>2. CountHolds' /\ CompletedMissesNobody'
    OBVIOUS
  <1>3. DraftIsUntouched' /\ OnlyQueuedAreTouched'
    OBVIOUS
  <1>4. RowBeforeJob' /\ RunHasJob' /\ DoneIsSettled' /\ SendsAreAccepted'
    OBVIOUS
  <1> QED
    BY <1>1, <1>2, <1>3, <1>4

\* A step of the worker that runs the job of m, or of the webhook worker, that
\* changes m only: it may put it back for a retry, fail it, or mark it sent.
LEMMA MessageStep ==
  ASSUME IInv, TypeOK', NEW m \in Messages, Queued(m),
         campaign' = campaign, tx' = tx, hooks' \subseteq hooks,
         UNCHANGED <<dispatch, row, job, recon>>,
         accepted'[m] >= accepted[m],
         \A n \in Messages \ {m} :
           cm'[n] = cm[n] /\ accepted'[n] = accepted[n] /\ exec'[n] = exec[n],
         Queued(m)', Settled(m)',
         cm'[m].wamid <= accepted'[m],
         cm[m].wamid > 0 \/ cm'[m].status \in Reached => cm'[m].wamid > 0,
         \/ exec'[m] = exec[m]
         \/ /\ exec[m].pc # "idle"
            /\ exec'[m].pc \in {"accepted", "marked", "failed", "retrying"}
            /\ exec'[m].pc \in {"accepted", "marked"} => accepted'[m] > 0
  PROVE  IInv'
  <1> USE DEF IInv, TypeOK, CmRecords, ExecRecords, DraftIsUntouched, Queued,
              OnlyQueuedAreTouched, Touched, ExecAt, RowBeforeJob, RunHasJob,
              DoneIsSettled, SendsAreAccepted, Reached, Pending, EventsHaveSend,
              CountHolds, CompletedMissesNobody, Settled
  <1>1. EventsHaveSend'
    BY EventsAreOfMessages
  <1>2. CountHolds' /\ CompletedMissesNobody'
    <2>1. \A n \in Messages : Settled(n) => Settled(n)'
      OBVIOUS
    <2> QED
      BY <2>1
  <1>3. DraftIsUntouched' /\ OnlyQueuedAreTouched'
    OBVIOUS
  <1>4. \A n \in Messages : /\ ExecAt(n, {"idle"})' <=> ExecAt(n, {"idle"})
                            /\ ExecAt(n, {"done"})' => ExecAt(n, {"done"})
    OBVIOUS
  <1>5. RowBeforeJob'
    OBVIOUS
  <1>6. RunHasJob'
    BY <1>4
  <1>7. DoneIsSettled'
    BY <1>4
  <1>8. SendsAreAccepted'
    OBVIOUS
  <1> QED
    BY <1>1, <1>2, <1>3, <1>5, <1>6, <1>7, <1>8

\* The claim of a batch moves queued messages of a running campaign only.
LEMMA ClaimIInv ==
  ASSUME IInv, TypeOK', NEW due \in SUBSET Messages, NEW B \in SUBSET Messages,
         claimQueuedCampaignMessages(due, B)
  PROVE  IInv'
  <1>1. \A m \in Messages : /\ cm'[m].wamid = cm[m].wamid
                            /\ cm'[m].retry_count = cm[m].retry_count
                            /\ \/ cm'[m].status = cm[m].status
                               \/ cm[m].status = "queued" /\ cm'[m].status = "sending"
                            /\ m \in B => cm[m].status = "queued"
    BY ClaimedChanges DEF IInv
  <1>2. dispatch'.rows = dispatch.rows /\ dispatch'.batch \subseteq dispatch.batch \cup B
    BY DEF claimQueuedCampaignMessages, IInv, TypeOK
  <1>3. campaign' = campaign /\ UNCHANGED <<queueVars, accepted, hooks, tx>>
    BY DEF claimQueuedCampaignMessages, hookVars
  <1>4. \A m \in Messages : \/ cm'[m].status = cm[m].status
                            \/ cm[m].status \in Pending /\ cm'[m].status \in Pending
    BY <1>1 DEF Pending
  <1>5. \A m \in dispatch'.batch : m \in dispatch.batch \/ cm[m].status \in Pending
    BY <1>1, <1>2 DEF Pending
  <1> QED
    BY <1>1, <1>2, <1>3, <1>4, <1>5, PendingStep

\* The worker that runs a job runs it for a message queued at launch.
LEMMA RunIsOfQueued ==
  ASSUME IInv, NEW m \in Messages, ~ExecAt(m, {"idle"})
  PROVE  /\ Queued(m)
         /\ exec[m].pc # "idle"
         /\ cm[m].wamid <= accepted[m]
         /\ \A pc : GoTo(m, pc) => /\ exec'[m].pc = pc
                                   /\ \A n \in Messages \ {m} : exec'[n] = exec[n]
  BY DEF IInv, TypeOK, ExecRecords, OnlyQueuedAreTouched, Touched, SendsAreAccepted,
         ExecAt, GoTo

\* Failing a message, or putting it back for a retry.
LEMMA FailedOrRequeuedIInv ==
  ASSUME IInv, TypeOK', NEW m \in Messages, ~ExecAt(m, {"idle"}),
         \/ MarkFailed(m) /\ GoTo(m, "failed")
         \/ cm' = Requeued(m) /\ GoTo(m, "retrying"),
         UNCHANGED <<campaign, row, job, recon, dispatch, hooks, tx>>,
         accepted'[m] >= accepted[m],
         \A n \in Messages \ {m} : accepted'[n] = accepted[n]
  PROVE  IInv'
  <1> USE RunIsOfQueued DEF Queued, Settled, Reached, Pending
  <1>0. /\ \A n \in Messages : cm[n] \in CmRecords /\ cm'[n] \in CmRecords
        /\ accepted[m] \in Nat /\ accepted'[m] \in Nat
    BY DEF IInv, TypeOK
  <1>1. CASE MarkFailed(m) /\ GoTo(m, "failed")
    <2>1. /\ cm'[m].wamid = cm[m].wamid
          /\ cm'[m].status = "failed"
          /\ \A n \in Messages \ {m} : cm'[n] = cm[n]
      BY <1>0, <1>1, MarkFailedChanges DEF IInv, CmRecords
    <2> QED
      BY <1>0, <1>1, <2>1, MessageStep DEF CmRecords
  <1>2. CASE cm' = Requeued(m) /\ GoTo(m, "retrying")
    <2>1. /\ cm'[m].wamid = cm[m].wamid
          /\ cm'[m].status = "queued"
          /\ cm'[m].retry_count = cm[m].retry_count + 1
          /\ \A n \in Messages \ {m} : cm'[n] = cm[n]
      BY <1>0, <1>2, RequeuedChanges DEF IInv, CmRecords
    <2> QED
      BY <1>0, <1>2, <2>1, MessageStep DEF CmRecords
  <1> QED
    BY <1>1, <1>2

\* The worker that marks a message as sent has had a send accepted.
LEMMA MarkSentIInv ==
  ASSUME IInv, TypeOK', NEW m \in Messages, markCampaignMessageSent(m)
  PROVE  IInv'
  <1> USE DEF Queued, Settled, Reached, Pending
  <1>0. /\ \A n \in Messages : cm[n] \in CmRecords /\ cm'[n] \in CmRecords
        /\ accepted[m] \in Nat
        /\ ~ExecAt(m, {"idle"}) /\ accepted[m] > 0
        /\ cm[m].status \in Reached => cm[m].wamid > 0
        /\ GoTo(m, "marked")
    BY DEF IInv, TypeOK, markCampaignMessageSent, ExecAt, SendsAreAccepted
  <1>1. \A n \in Messages \ {m} : cm'[n] = cm[n]
    BY <1>0, SentChanges DEF IInv, CmRecords
  <1>2. \/ cm'[m] = cm[m] /\ cm[m].status \in Reached
        \/ cm'[m].status = "sent" /\ cm'[m].wamid = accepted[m]
    <2>1. CASE cm[m].status \in Reached
      BY <2>1 DEF markCampaignMessageSent
    <2>2. CASE cm' = [cm EXCEPT ![m] = [@ EXCEPT !.status = "sent", !.wamid = accepted[m]]]
      BY <1>0, <2>2 DEF CmRecords, IInv, TypeOK
    <2> QED
      BY <1>0, <2>1, <2>2 DEF markCampaignMessageSent
  <1>3. UNCHANGED <<campaign, row, job, recon, dispatch, hooks, tx, accepted>>
    BY DEF markCampaignMessageSent, hookVars
  <1> QED
    BY <1>0, <1>1, <1>2, <1>3, RunIsOfQueued, MessageStep DEF CmRecords

\* The user, the alert and the sweep keep the invariant.
LEMMA SweepIInv ==
  ASSUME IInv, TypeOK', User \/ pauseOnFailureRate \/ Sweep \/ crashBeforeEnqueue
  PROVE  IInv'
  <1> USE DEF IInv, TypeOK, CmRecords, ExecRecords, campaignVars, queueVars, hookVars,
          DraftIsUntouched, Queued, OnlyQueuedAreTouched, Touched,
         ExecAt, RowBeforeJob, RunHasJob, DoneIsSettled, SendsAreAccepted,
         Reached, Pending, EventsHaveSend, CountHolds, CompletedMissesNobody, Settled
  <1>1. ASSUME NEW Q \in SUBSET Messages, launchCampaign(Q) PROVE IInv'
    <2>1. \A m \in Messages : /\ cm'[m].wamid = cm[m].wamid
                              /\ cm'[m].retry_count = cm[m].retry_count
                              /\ cm'[m].status \in {"queued", "skipped"}
                              /\ Q = {} => cm'[m].status = "skipped"
      BY <1>1 DEF launchCampaign
    <2>2. \A m \in Messages : ~Touched(m)
      BY <1>1 DEF launchCampaign
    <2>3. hooks = {} /\ tx = NoTx
      BY <2>2 DEF HookRecords, TxRecords
    <2>4. DraftIsUntouched' /\ CompletedMissesNobody'
      BY <1>1, <2>1 DEF launchCampaign
    <2>5. EventsHaveSend' /\ CountHolds'
      BY <1>1, <2>3 DEF launchCampaign, NoTx
    <2>6. SendsAreAccepted'
      BY <1>1, <2>1 DEF launchCampaign
    <2> QED
      BY <1>1, <2>2, <2>4, <2>5, <2>6 DEF launchCampaign
  <1>2. CASE cancelCampaign
    BY <1>2 DEF cancelCampaign
  <1>3. CASE pauseOnFailureRate
    BY <1>3 DEF pauseOnFailureRate, Running
  <1>4. ASSUME NEW S \in SUBSET Messages, recoverStuckCampaignMessages(S) PROVE IInv'
    BY <1>4, RecoveredChanges, PendingStep DEF recoverStuckCampaignMessages
  <1>5. CASE sweepRetryable
    BY <1>5 DEF sweepRetryable
  <1>6. CASE enqueueCampaign
    BY <1>6 DEF enqueueCampaign
  <1>7. CASE crashBeforeEnqueue
    BY <1>7 DEF crashBeforeEnqueue
  <1> QED
    BY <1>1, <1>2, <1>3, <1>4, <1>5, <1>6, <1>7 DEF User, Sweep

\* The dispatch worker keeps the invariant: it inserts a row before the job.
LEMMA DispatchIInv ==
  ASSUME IInv, TypeOK', Dispatch \/ failDispatch
  PROVE  IInv'
  <1> USE DEF IInv, TypeOK, CmRecords, ExecRecords, campaignVars, queueVars, hookVars,
          DraftIsUntouched, Queued, OnlyQueuedAreTouched, Touched,
         ExecAt, RowBeforeJob, RunHasJob, DoneIsSettled, SendsAreAccepted,
         Reached, Pending, EventsHaveSend, CountHolds, CompletedMissesNobody, Settled
  <1>1. CASE loadRunningCampaign
    BY <1>1 DEF loadRunningCampaign
  <1>2. CASE checkStatus
    BY <1>2 DEF checkStatus
  <1>3. ASSUME NEW due \in SUBSET Messages, NEW B \in SUBSET Messages,
               claimQueuedCampaignMessages(due, B)
        PROVE  IInv'
    BY <1>3, ClaimIInv
  <1>4. ASSUME NEW m \in Messages, insertOutboundMessage(m) PROVE IInv'
    BY <1>4 DEF insertOutboundMessage, InsertedRow
  <1>5. ASSUME NEW m \in Messages, enqueueOutboundJob(m) PROVE IInv'
    <2>1. /\ UNCHANGED <<campaign, cm, row, exec, recon, accepted, hooks, tx>>
          /\ dispatch'.batch = dispatch.batch /\ dispatch'.rows \subseteq dispatch.rows
          /\ m \in dispatch.rows
      BY <1>5 DEF enqueueOutboundJob
    <2>2. \A n \in Messages :
            \/ job'[n] = job[n]
            \/ n = m /\ job[n] # "active" /\ job'[n] = "pending"
      BY <1>5 DEF enqueueOutboundJob, AddJob, InFlight
    <2>3. RowBeforeJob' /\ RunHasJob' /\ DoneIsSettled'
      BY <2>1, <2>2
    <2>4. DraftIsUntouched' /\ OnlyQueuedAreTouched' /\ SendsAreAccepted' /\ EventsHaveSend'
      BY <2>1
    <2>5. CountHolds' /\ CompletedMissesNobody'
      BY <2>1
    <2> QED
      BY <2>3, <2>4, <2>5
  <1>6. CASE markCampaignCompleted
    BY <1>6 DEF markCampaignCompleted, CompleteIf, NothingPending, Running
  <1>7. CASE failDispatch
    BY <1>7 DEF failDispatch
  <1> QED
    BY <1>1, <1>2, <1>3, <1>4, <1>5, <1>6, <1>7 DEF Dispatch

\* The outbound worker keeps the invariant: it settles the row before the job.
LEMMA ExecuteIInv ==
  ASSUME IInv, TypeOK', NEW m \in Messages,
         \/ Execute(m)
         \/ failOutboundJob(m)
         \/ crashOutboundWorker(m)
         \/ \E class \in ErrorClass : failBookkeeping(m, class)
  PROVE  IInv'
  <1>0. ExecAt(m, {"loaded"}) \/ ExecAt(m, {"accepted", "marked"}) => ~ExecAt(m, {"idle"})
    BY DEF ExecAt
  <1>a. accepted[m] \in Nat
    BY DEF IInv, TypeOK
  <1>2. CASE blockByPolicy(m)
    BY <1>0, <1>a, <1>2, FailedOrRequeuedIInv DEF blockByPolicy, hookVars
  <1>3. CASE deferCampaignMessageToNextDay(m)
    BY <1>0, <1>a, <1>3, FailedOrRequeuedIInv DEF deferCampaignMessageToNextDay, hookVars
  <1>5. CASE markCampaignMessageSent(m)
    BY <1>5, MarkSentIInv
  <1>6. ASSUME NEW class \in ErrorClass, failSend(m, class) PROVE IInv'
    <2>1. accepted'[m] >= accepted[m] /\ \A n \in Messages \ {m} : accepted'[n] = accepted[n]
      BY <1>6, <1>a DEF failSend, IInv, TypeOK
    <2> QED
      BY <1>0, <1>6, <2>1, FailedOrRequeuedIInv DEF failSend, HandleError, hookVars
  <1>11. ASSUME NEW class \in ErrorClass, failBookkeeping(m, class) PROVE IInv'
    BY <1>0, <1>a, <1>11, FailedOrRequeuedIInv DEF failBookkeeping, HandleError, hookVars
  <1> USE DEF IInv, TypeOK, CmRecords, ExecRecords, campaignVars, hookVars,
          DraftIsUntouched, Queued, OnlyQueuedAreTouched, Touched,
         ExecAt, RowBeforeJob, RunHasJob, DoneIsSettled, SendsAreAccepted,
         Reached, Pending, EventsHaveSend, CountHolds, CompletedMissesNobody, Settled
  <1>1. CASE startOutboundJob(m)
    BY <1>1 DEF startOutboundJob
  <1>4. CASE dispatchTemplateMessage(m)
    BY <1>4 DEF dispatchTemplateMessage, GoTo
  <1>7. CASE settleRow(m)
    BY <1>7 DEF settleRow, Outcome, GoTo
  <1>8. CASE settleJob(m)
    BY <1>8 DEF settleJob, EndRun, Idle
  <1>9. CASE failOutboundJob(m)
    BY <1>9 DEF failOutboundJob, EndRun, Idle
  <1>10. CASE crashOutboundWorker(m)
    BY <1>10 DEF crashOutboundWorker, EndRun, Idle
  <1> QED
    BY <1>1, <1>2, <1>3, <1>4, <1>5, <1>6, <1>7, <1>8, <1>9, <1>10, <1>11 DEF Execute

\* The reconciliation adds jobs to rows that exist and leaves messages alone.
LEMMA ReconcileIInv ==
  ASSUME IInv, TypeOK', Reconcile
  PROVE  IInv'
  <1> USE DEF IInv, TypeOK, campaignVars, hookVars, DraftIsUntouched, Queued,
              OnlyQueuedAreTouched, Touched, ExecAt, RowBeforeJob, RunHasJob,
              DoneIsSettled, SendsAreAccepted, EventsHaveSend, CountHolds,
              CompletedMissesNobody, Settled
  <1>1. ASSUME NEW S \in SUBSET Messages, selectQueuedRows(S) PROVE IInv'
    BY <1>1 DEF selectQueuedRows, Stalled
  <1>2. ASSUME NEW m \in Messages, reconcileRow(m) PROVE IInv'
    BY <1>2 DEF reconcileRow, AddJob, InFlight
  <1> QED
    BY <1>1, <1>2 DEF Reconcile

\* A status event changes nothing but the updates in progress ...
LEMMA ReceiveIInv ==
  ASSUME IInv, TypeOK', NEW m \in Messages, NEW k \in 1..MaxSends,
         NEW e \in WebhookEvents, receiveStatusEvent(m, k, e)
  PROVE  IInv'
  <1>1. \A h \in hooks' \ hooks : h.msg = m /\ cm[m].wamid = k
    BY DEF receiveStatusEvent, SameWamid
  <1>2. EventsHaveSend'
    BY <1>1, PipelineAssumption DEF receiveStatusEvent, campaignVars, IInv, EventsHaveSend
  <1> QED
    BY <1>2
       DEF receiveStatusEvent, campaignVars, queueVars, IInv, DraftIsUntouched, Queued,
           OnlyQueuedAreTouched, Touched, ExecAt, RowBeforeJob, RunHasJob,
           DoneIsSettled, SendsAreAccepted, CountHolds, CompletedMissesNobody, Settled

\* ... the transaction counts the pending messages ...
LEMMA UpdateIInv ==
  ASSUME IInv, TypeOK', NEW h \in hooks, updateDeliveryStatus(h)
  PROVE  IInv'
  <1>1. CountHolds'
    BY DEF updateDeliveryStatus, CountHolds, Settled, campaignVars
  <1>2. EventsHaveSend'
    BY DEF updateDeliveryStatus, campaignVars, IInv, EventsHaveSend
  <1> QED
    BY <1>1, <1>2
       DEF updateDeliveryStatus, campaignVars, queueVars, IInv, DraftIsUntouched, Queued,
           OnlyQueuedAreTouched, Touched, ExecAt, RowBeforeJob, RunHasJob,
           DoneIsSettled, SendsAreAccepted, CompletedMissesNobody, Settled

\* ... and its commit makes the count and the new status visible together.
LEMMA CommitIInv ==
  ASSUME IInv, TypeOK', commitDeliveryStatus
  PROVE  IInv'
  <1> DEFINE m == tx.msg
  <1>1. m \in Messages /\ cm[m].wamid > 0 /\ tx \in TxRecords
    BY EventsAreOfMessages DEF IInv, EventsHaveSend, commitDeliveryStatus, TypeOK
  <1>2. \A n \in Messages :
          /\ cm[n] \in CmRecords
          /\ cm'[n] = IF n = m THEN [cm[n] EXCEPT !.status = tx.to] ELSE cm[n]
    BY DEF commitDeliveryStatus, SetStatus, IInv, TypeOK
  <1>3. \A n \in Messages :
          /\ cm'[n].wamid = cm[n].wamid
          /\ cm'[n].retry_count = cm[n].retry_count
          /\ cm'[n].status = IF n = m THEN tx.to ELSE cm[n].status
    BY <1>2 DEF CmRecords
  <1>4. tx.to \notin Pending \cup {"none", "skipped"}
    BY <1>1 DEF TxRecords, Counters, Pending
  <1>5. UNCHANGED <<row, job, exec, recon, dispatch, accepted, hooks>> /\ tx' = NoTx
    BY DEF commitDeliveryStatus, queueVars
  <1>6. \/ campaign' = campaign
        \/ campaign' = "completed" /\ tx.idle
    BY DEF commitDeliveryStatus, CompleteIf
  <1>7. Queued(m) /\ campaign # "draft"
    BY <1>1 DEF IInv, TypeOK, CmRecords, SendsAreAccepted, OnlyQueuedAreTouched, Touched,
                Queued, DraftIsUntouched
  <1>8. DraftIsUntouched' /\ OnlyQueuedAreTouched'
    BY <1>3, <1>4, <1>5, <1>6, <1>7
       DEF IInv, DraftIsUntouched, OnlyQueuedAreTouched, Touched, Queued, ExecAt
  <1>9. CompletedMissesNobody' /\ CountHolds'
    BY <1>1, <1>3, <1>4, <1>5, <1>6
       DEF IInv, CompletedMissesNobody, CountHolds, Settled, NoTx
  <1>10. SendsAreAccepted' /\ EventsHaveSend'
    <2>1. \A h \in hooks : h.msg \in Messages
      BY EventsAreOfMessages DEF IInv
    <2> QED
      BY <1>1, <1>3, <1>5, <2>1 DEF IInv, SendsAreAccepted, EventsHaveSend, ExecAt
  <1> QED
    BY <1>5, <1>8, <1>9, <1>10 DEF IInv, RowBeforeJob, RunHasJob, DoneIsSettled, ExecAt

\* Status events keep the invariant, in whatever order they are applied.
LEMMA WebhookIInv ==
  ASSUME IInv, TypeOK', Webhook \/ \E h \in hooks : failStatusUpdate(h)
  PROVE  IInv'
  <1>1. ASSUME NEW h \in hooks, scheduleSmartRetry(h) PROVE IInv'
    <2> DEFINE m == h.msg
    <2>1. /\ m \in Messages /\ cm[m] \in CmRecords /\ cm'[m] \in CmRecords
          /\ cm[m].wamid > 0 /\ cm[m].wamid <= accepted[m] /\ accepted[m] \in Nat
          /\ Queued(m)
      BY EventsAreOfMessages
         DEF IInv, EventsHaveSend, TypeOK, CmRecords, SendsAreAccepted,
             OnlyQueuedAreTouched, Touched
    <2>2. /\ cm'[m].wamid = cm[m].wamid
          /\ cm'[m].status = "queued"
          /\ cm'[m].retry_count = cm[m].retry_count + 1
          /\ \A n \in Messages \ {m} : cm'[n] = cm[n]
      BY <1>1, <2>1 DEF IInv, TypeOK, CmRecords, Requeued, scheduleSmartRetry
    <2>3. UNCHANGED <<campaign, tx, dispatch, row, job, recon, exec, accepted>> /\ hooks' \subseteq hooks
      BY <1>1 DEF scheduleSmartRetry, queueVars
    <2>4. Queued(m)' /\ Settled(m)'
      BY <2>1, <2>2 DEF Queued, Settled, CmRecords
    <2> QED
      BY <2>1, <2>2, <2>3, <2>4, MessageStep
  <1>2. ASSUME NEW h \in hooks, failStatusUpdate(h) PROVE IInv'
    BY <1>2
       DEF failStatusUpdate, campaignVars, queueVars, IInv, DraftIsUntouched, Queued,
           OnlyQueuedAreTouched, Touched, ExecAt, RowBeforeJob, RunHasJob, EventsHaveSend,
           DoneIsSettled, SendsAreAccepted, CountHolds, CompletedMissesNobody, Settled
  <1> QED
    BY <1>1, <1>2, ReceiveIInv, UpdateIInv, CommitIInv DEF Webhook

\* Every step keeps the inductive invariant.
LEMMA StepIInv ==
  ASSUME IInv, [Next]_vars
  PROVE  IInv'
  <1>0. TypeOK'
    BY StepTypeOK DEF IInv
  <1>1. CASE UNCHANGED vars
    BY <1>0, <1>1
       DEF vars, IInv, DraftIsUntouched, Queued, OnlyQueuedAreTouched, Touched, ExecAt,
           RowBeforeJob, RunHasJob, EventsHaveSend, DoneIsSettled, SendsAreAccepted,
           CountHolds, CompletedMissesNobody, Settled
  <1>2. CASE User \/ pauseOnFailureRate \/ Sweep \/ crashBeforeEnqueue
    BY <1>0, <1>2, SweepIInv
  <1>3. CASE Dispatch \/ failDispatch
    BY <1>0, <1>3, DispatchIInv
  <1>4. ASSUME NEW m \in Messages,
               \/ Execute(m) \/ failOutboundJob(m) \/ crashOutboundWorker(m)
               \/ \E class \in ErrorClass : failBookkeeping(m, class)
        PROVE  IInv'
    BY <1>0, <1>4, ExecuteIInv
  <1>5. CASE Reconcile
    BY <1>0, <1>5, ReconcileIInv
  <1>6. CASE Webhook \/ \E h \in hooks : failStatusUpdate(h)
    BY <1>0, <1>6, WebhookIInv
  <1> QED
    BY <1>1, <1>2, <1>3, <1>4, <1>5, <1>6 DEF Next, Fault

\* The inductive invariant holds.
THEOREM InductiveInvariant == Spec => []IInv
  BY InitIInv, StepIInv, PTL DEF Spec

\* What the dashboard shows as sent, delivered or read, the provider accepted.
THEOREM SentSafety == Spec => []SentWasAccepted
  <1>1. IInv => SentWasAccepted
    BY DEF IInv, TypeOK, CmRecords, SendsAreAccepted, SentWasAccepted
  <1> QED
    BY <1>1, InductiveInvariant, PTL

\* Only an accepted send completes an outbound row.
THEOREM CompletedRowSafety == Spec => []CompletedRowWasAccepted
  <1>1. IInv => CompletedRowWasAccepted
    BY DEF IInv, SendsAreAccepted, CompletedRowWasAccepted
  <1> QED
    BY <1>1, InductiveInvariant, PTL

\* Every job of the queue has a row in outbound_messages.
THEOREM JobSafety == Spec => []JobHasRow
  <1>1. IInv => JobHasRow
    BY DEF IInv, RowBeforeJob, JobHasRow
  <1> QED
    BY <1>1, InductiveInvariant, PTL

\* A completed job leaves its row settled, so that nothing will send it again.
THEOREM CompletedJobSafety == Spec => []CompletedJobSettledRow
  <1>1. IInv => CompletedJobSettledRow
    BY DEF IInv, RowBeforeJob, DoneIsSettled, CompletedJobSettledRow
  <1> QED
    BY <1>1, InductiveInvariant, PTL

\* No step picks a skipped message up.
LEMMA SkippedStep ==
  ASSUME IInv, [Next]_vars, NEW m \in Messages, cm[m].status = "skipped"
  PROVE  cm'[m].status = "skipped"
  <1> USE DEF campaignVars
  <1>1. /\ TypeOK
        /\ campaign # "draft"
        /\ ~Touched(m)
        /\ \A n \in Messages : ~ExecAt(n, {"idle"}) => n # m
    BY DEF IInv, DraftIsUntouched, OnlyQueuedAreTouched, Queued, Touched
  <1>2. \A h \in hooks : h.msg \in Messages \ {m}
    BY <1>1, EventsAreOfMessages
       DEF IInv, EventsHaveSend, SendsAreAccepted, TypeOK, CmRecords, Touched
  <1>3. tx # NoTx => tx.msg \in Messages \ {m}
    BY <1>1, EventsAreOfMessages
       DEF IInv, EventsHaveSend, SendsAreAccepted, TypeOK, CmRecords, Touched
  <1>4. CASE UNCHANGED cm
    BY <1>4
  <1>5. ASSUME NEW Q \in SUBSET Messages, launchCampaign(Q) PROVE cm'[m].status = "skipped"
    BY <1>1, <1>5 DEF launchCampaign
  <1>6. ASSUME NEW S \in SUBSET Messages, recoverStuckCampaignMessages(S)
        PROVE  cm'[m].status = "skipped"
    BY <1>1, <1>6, RecoveredChanges
  <1>7. ASSUME NEW due \in SUBSET Messages, NEW B \in SUBSET Messages,
               claimQueuedCampaignMessages(due, B)
        PROVE  cm'[m].status = "skipped"
    BY <1>1, <1>7, ClaimedChanges
  <1>8. ASSUME NEW n \in Messages, n # m, MarkFailed(n) \/ cm' = Requeued(n)
        PROVE  cm'[m].status = "skipped"
    BY <1>1, <1>8, MarkFailedChanges, RequeuedChanges
  <1>9. ASSUME NEW n \in Messages,
               \/ Execute(n) \/ failOutboundJob(n) \/ crashOutboundWorker(n)
               \/ \E class \in ErrorClass : failBookkeeping(n, class)
        PROVE  cm'[m].status = "skipped"
    <2>1. CASE markCampaignMessageSent(n)
      <3>1. n # m
        BY <1>1, <2>1 DEF markCampaignMessageSent, ExecAt
      <3> QED
        BY <1>1, <2>1, <3>1, SentChanges
    <2>2. CASE blockByPolicy(n) \/ deferCampaignMessageToNextDay(n)
      <3>1. n # m
        BY <1>1, <2>2 DEF blockByPolicy, deferCampaignMessageToNextDay, ExecAt
      <3> QED
        BY <1>8, <2>2, <3>1 DEF blockByPolicy, deferCampaignMessageToNextDay
    <2>3. ASSUME NEW class \in ErrorClass, failSend(n, class) \/ failBookkeeping(n, class)
          PROVE  cm'[m].status = "skipped"
      <3>1. n # m
        BY <1>1, <2>3 DEF failSend, failBookkeeping, ExecAt
      <3> QED
        BY <1>8, <2>3, <3>1 DEF failSend, failBookkeeping, HandleError
    <2>4. CASE \/ startOutboundJob(n) \/ dispatchTemplateMessage(n) \/ settleRow(n)
               \/ settleJob(n) \/ failOutboundJob(n) \/ crashOutboundWorker(n)
      BY <1>4, <2>4
         DEF startOutboundJob, dispatchTemplateMessage, settleRow, settleJob,
             failOutboundJob, crashOutboundWorker
    <2> QED
      BY <1>9, <2>1, <2>2, <2>3, <2>4 DEF Execute
  <1>10. ASSUME NEW h \in hooks, scheduleSmartRetry(h) PROVE cm'[m].status = "skipped"
    BY <1>2, <1>8, <1>10 DEF scheduleSmartRetry
  <1>11. CASE commitDeliveryStatus
    BY <1>1, <1>3, <1>11 DEF commitDeliveryStatus, SetStatus, TypeOK
  <1>12. CASE \/ cancelCampaign \/ pauseOnFailureRate \/ sweepRetryable
              \/ enqueueCampaign \/ crashBeforeEnqueue
    BY <1>4, <1>12
       DEF cancelCampaign, pauseOnFailureRate, sweepRetryable, enqueueCampaign,
           crashBeforeEnqueue
  <1>13. CASE \/ loadRunningCampaign \/ checkStatus \/ markCampaignCompleted \/ failDispatch
              \/ \E n \in Messages : insertOutboundMessage(n) \/ enqueueOutboundJob(n)
    BY <1>4, <1>13
       DEF loadRunningCampaign, checkStatus, markCampaignCompleted, failDispatch,
           insertOutboundMessage, enqueueOutboundJob
  <1>14. CASE Reconcile
    BY <1>4, <1>14 DEF Reconcile, selectQueuedRows, reconcileRow
  <1>15. ASSUME NEW n \in Messages, NEW k \in 1..MaxSends, NEW e \in WebhookEvents,
                receiveStatusEvent(n, k, e)
         PROVE  cm'[m].status = "skipped"
    BY <1>4, <1>15 DEF receiveStatusEvent
  <1>16. ASSUME NEW h \in hooks, updateDeliveryStatus(h) \/ failStatusUpdate(h)
         PROVE  cm'[m].status = "skipped"
    BY <1>4, <1>16 DEF updateDeliveryStatus, failStatusUpdate
  <1>17. CASE UNCHANGED vars
    BY <1>4, <1>17 DEF vars
  <1> QED
    BY <1>5, <1>6, <1>7, <1>9, <1>10, <1>11, <1>12, <1>13, <1>14, <1>15, <1>16, <1>17
       DEF Next, User, Sweep, Dispatch, Webhook, Fault

\* A skipped recipient stays skipped, and nothing is ever sent to it.
THEOREM SkippedSafety == Spec => SkippedIsFinal
  <1>1. IInv /\ IInv' /\ [Next]_vars =>
          \A m \in Messages : cm[m].status = "skipped" =>
            /\ cm'[m].status = "skipped"
            /\ accepted'[m] = 0 /\ row'[m] = "none" /\ job'[m] = "none"
    <2> SUFFICES ASSUME IInv, IInv', [Next]_vars,
                        NEW m \in Messages, cm[m].status = "skipped"
                 PROVE  /\ cm'[m].status = "skipped"
                        /\ accepted'[m] = 0 /\ row'[m] = "none" /\ job'[m] = "none"
      OBVIOUS
    <2>1. cm'[m].status = "skipped"
      BY SkippedStep
    <2> QED
      BY <2>1 DEF IInv, TypeOK, OnlyQueuedAreTouched, Touched, Queued, RowBeforeJob
  <1> QED
    BY <1>1, InductiveInvariant, PTL DEF Spec, SkippedIsFinal

\* A completed campaign has missed nobody.
THEOREM CompletionSafety == Spec => []CompletedMissesNobody
  <1>1. IInv => CompletedMissesNobody
    BY DEF IInv
  <1> QED
    BY <1>1, InductiveInvariant, PTL

\* A stopped campaign stays stopped, whoever is still at work on it.
THEOREM StopSafety == Spec => StopIsFinal
  <1> DEFINE A == campaign \in {"cancelled", "paused", "completed"}
                    => campaign' \in {campaign, "cancelled"}
  <1>1. [Next]_vars => [A]_vars
    BY DEF Next, User, Sweep, Dispatch, Execute, Reconcile, Webhook, Fault, vars,
           campaignVars, launchCampaign, cancelCampaign, pauseOnFailureRate, Running,
           enqueueCampaign, crashBeforeEnqueue, recoverStuckCampaignMessages,
           sweepRetryable, loadRunningCampaign, checkStatus, claimQueuedCampaignMessages,
           insertOutboundMessage, enqueueOutboundJob, markCampaignCompleted, CompleteIf,
           failDispatch, startOutboundJob, failOutboundJob, blockByPolicy,
           deferCampaignMessageToNextDay, dispatchTemplateMessage,
           markCampaignMessageSent, failSend, failBookkeeping, settleRow, settleJob,
           crashOutboundWorker, selectQueuedRows, reconcileRow, receiveStatusEvent,
           scheduleSmartRetry, updateDeliveryStatus, commitDeliveryStatus,
           failStatusUpdate
  <1> QED
    BY <1>1, PTL DEF Spec, StopIsFinal
(***************************************************************************)
(* The counters cover what the messages show                               *)
(***************************************************************************)
\* At most one message more shows in one column, and its counter is bumped.
CountStep ==
  \/ /\ count' = count
     /\ \A c \in Counters : CountedIn(c)' \subseteq CountedIn(c)
  \/ \E c \in Counters, m \in Messages :
       /\ count' = Bump(c)
       /\ CountedIn(c)' \subseteq CountedIn(c) \cup {m}
       /\ \A d \in Counters \ {c} : CountedIn(d)' \subseteq CountedIn(d)

Cover == \A c \in Counters : count[c] >= Cardinality(CountedIn(c))

\* What shows in a column is a finite set of messages.
LEMMA ShownIsFinite ==
  ASSUME NEW S \in SUBSET Messages
  PROVE  IsFiniteSet(S) /\ Cardinality(S) \in Nat
  BY PipelineAssumption, FS_Subset, FS_CardinalityType

\* Such a step keeps the counters above what shows.
LEMMA CountStepCovers ==
  ASSUME TypeOK, Cover, CountStep
  PROVE  Cover'
  <1>1. count \in [Counters -> Nat]
    BY DEF TypeOK
  <1>2. \A c \in Counters : CountedIn(c) \in SUBSET Messages /\ CountedIn(c)' \in SUBSET Messages
    BY DEF CountedIn
  <1>3. ASSUME NEW c \in Counters, CountedIn(c)' \subseteq CountedIn(c)
        PROVE  Cardinality(CountedIn(c)') <= Cardinality(CountedIn(c))
    BY <1>2, <1>3, ShownIsFinite, FS_Subset
  <1>4. CASE /\ count' = count
             /\ \A c \in Counters : CountedIn(c)' \subseteq CountedIn(c)
    <2> SUFFICES ASSUME NEW c \in Counters
                 PROVE  count'[c] >= Cardinality(CountedIn(c)')
      BY DEF Cover
    <2>1. Cardinality(CountedIn(c)') <= Cardinality(CountedIn(c))
      BY <1>3, <1>4
    <2>2. Cardinality(CountedIn(c)') \in Nat /\ Cardinality(CountedIn(c)) \in Nat
      BY <1>2, ShownIsFinite
    <2> QED
      BY <1>1, <1>4, <2>1, <2>2 DEF Cover
  <1>5. ASSUME NEW b \in Counters, NEW m \in Messages,
               count' = Bump(b),
               CountedIn(b)' \subseteq CountedIn(b) \cup {m},
               \A d \in Counters \ {b} : CountedIn(d)' \subseteq CountedIn(d)
        PROVE  Cover'
    <2> SUFFICES ASSUME NEW c \in Counters
                 PROVE  count'[c] >= Cardinality(CountedIn(c)')
      BY DEF Cover
    <2>1. Cardinality(CountedIn(c)') \in Nat /\ Cardinality(CountedIn(c)) \in Nat
      BY <1>2, ShownIsFinite
    <2>2. count[c] \in Nat /\ count[c] >= Cardinality(CountedIn(c))
      BY <1>1 DEF Cover
    <2>3. CASE c # b
      <3>1. Cardinality(CountedIn(c)') <= Cardinality(CountedIn(c))
        BY <1>3, <1>5, <2>3
      <3>2. count'[c] = count[c]
        BY <1>1, <1>5, <2>3 DEF Bump
      <3> QED
        BY <2>1, <2>2, <3>1, <3>2
    <2>4. CASE c = b
      <3>1. CountedIn(c) \cup {m} \in SUBSET Messages
        BY <1>2
      <3>2. /\ Cardinality(CountedIn(c)') <= Cardinality(CountedIn(c) \cup {m})
            /\ Cardinality(CountedIn(c) \cup {m}) \in Nat
        BY <1>5, <2>4, <3>1, ShownIsFinite, FS_Subset
      <3>3. Cardinality(CountedIn(c) \cup {m}) <= Cardinality(CountedIn(c)) + 1
        BY <1>2, <2>1, ShownIsFinite, FS_AddElement
      <3>4. count'[c] = count[c] + 1
        BY <1>1, <1>5, <2>4 DEF Bump
      <3> QED
        BY <2>1, <2>2, <3>2, <3>3, <3>4
    <2> QED
      BY <2>3, <2>4
  <1> QED
    BY <1>4, <1>5 DEF CountStep

\* What a step makes of each message decides what shows.
LEMMA NothingMoreShows ==
  ASSUME count' = count,
         \A m \in Messages :
           /\ cm'[m].wamid > 0 => cm[m].wamid > 0
           /\ cm'[m].status \in Counters \ {"sent"} => cm'[m].status = cm[m].status
  PROVE  CountStep
  BY DEF CountStep, CountedIn, Counters

\* A message that comes to show in a column, and does not in any other.
LEMMA OneMoreShows ==
  ASSUME NEW c \in Counters, NEW m \in Messages, count' = Bump(c),
         \A n \in Messages \ {m} :
           /\ cm'[n].wamid > 0 => cm[n].wamid > 0
           /\ cm'[n].status = cm[n].status,
         cm'[m].status = c,
         cm'[m].wamid > 0 => cm[m].wamid > 0 \/ c = "sent"
  PROVE  CountStep
  <1>1. CountedIn(c)' \subseteq CountedIn(c) \cup {m}
    BY DEF CountedIn, Counters
  <1>2. \A d \in Counters \ {c} : CountedIn(d)' \subseteq CountedIn(d)
    BY DEF CountedIn, Counters
  <1> QED
    BY <1>1, <1>2 DEF CountStep

\* Failing a message counts it, unless it had failed.
LEMMA FailedIsCounted ==
  ASSUME TypeOK, NEW m \in Messages, MarkFailed(m) \/ (cm' = Requeued(m) /\ UNCHANGED count)
  PROVE  CountStep
  <1>1. CASE MarkFailed(m) /\ cm[m].status = "failed"
    BY <1>1, NothingMoreShows DEF MarkFailed
  <1>2. CASE MarkFailed(m) /\ cm[m].status # "failed"
    <2>1. \A n \in Messages : /\ cm'[n].wamid = cm[n].wamid
                              /\ cm'[n].status = IF n = m THEN "failed" ELSE cm[n].status
      BY <1>2, MarkFailedChanges
    <2>2. count' = Bump("failed") /\ "failed" \in Counters
      BY <1>2 DEF MarkFailed, Counters
    <2> QED
      BY <2>1, <2>2, OneMoreShows
  <1>3. CASE cm' = Requeued(m) /\ UNCHANGED count
    <2>1. \A n \in Messages : /\ cm'[n].wamid = cm[n].wamid
                              /\ cm'[n].status = IF n = m THEN "queued" ELSE cm[n].status
      BY <1>3, RequeuedChanges
    <2> QED
      BY <1>3, <2>1, NothingMoreShows DEF Counters
  <1> QED
    BY <1>1, <1>2, <1>3

\* Marking a message as sent counts it, unless it had reached its recipient.
LEMMA SentIsCounted ==
  ASSUME TypeOK, NEW m \in Messages, markCampaignMessageSent(m)
  PROVE  CountStep
  <1>1. CASE cm[m].status \in Reached
    BY <1>1, NothingMoreShows DEF markCampaignMessageSent
  <1>2. CASE cm[m].status \notin Reached
    <2>1. \A n \in Messages \ {m} : cm'[n] = cm[n]
      BY <1>2 DEF markCampaignMessageSent, TypeOK
    <2>2. cm[m] \in CmRecords
      BY DEF TypeOK
    <2>3. cm'[m] = [cm[m] EXCEPT !.status = "sent", !.wamid = accepted[m]]
      BY <1>2 DEF markCampaignMessageSent, TypeOK
    <2>4. cm'[m].status = "sent"
      BY <2>2, <2>3 DEF CmRecords
    <2>5. count' = Bump("sent") /\ "sent" \in Counters
      BY <1>2 DEF markCampaignMessageSent, Counters
    <2> QED
      BY <2>1, <2>4, <2>5, OneMoreShows
  <1> QED
    BY <1>1, <1>2

\* So does the commit of a status transaction.
LEMMA CommitIsCounted ==
  ASSUME IInv, CountsInv, commitDeliveryStatus
  PROVE  CountStep
  <1> DEFINE m == tx.msg
             c == tx.to
  <1>1. /\ m \in Messages /\ c \in Counters /\ cm[m].wamid > 0 /\ Counted(tx.from, c)
    BY EventsAreOfMessages
       DEF IInv, EventsHaveSend, commitDeliveryStatus, TypeOK, TxRecords, CountsInv
  <1>2. count' = Bump(c)
    BY <1>1 DEF commitDeliveryStatus
  <1>3. \A n \in Messages : cm[n] \in CmRecords
    BY DEF IInv, TypeOK
  <1>4. \A n \in Messages :
          cm'[n] = IF n = m THEN [cm[n] EXCEPT !.status = c] ELSE cm[n]
    BY DEF commitDeliveryStatus, SetStatus, IInv, TypeOK
  <1>5. cm'[m].status = c /\ \A n \in Messages \ {m} : cm'[n] = cm[n]
    BY <1>1, <1>3, <1>4 DEF CmRecords
  <1> HIDE DEF m, c
  <1> QED
    BY <1>1, <1>2, <1>5, OneMoreShows

\* An event that may be applied to the status it was selected for counts.
LEMMA AppliedIsCounted ==
  ASSUME NEW e \in WebhookEvents, NEW from,
         shouldApplyCampaignStatus(from, Target(e))
  PROVE  Counted(from, Target(e))
  BY PipelineAssumption DEF shouldApplyCampaignStatus, Counted, Target, Reached, Pending

\* Events and transactions at work stay such that they count.
LEMMA EventsStayCounted ==
  ASSUME TypeOK, CountsInv, [Next]_vars
  PROVE  /\ \A h \in hooks' : Counted(h.from, Target(h.event))
         /\ tx' # NoTx => Counted(tx'.from, tx'.to)
  <1> USE DEF CountsInv
  <1>1. CASE UNCHANGED <<hooks, tx>>
    BY <1>1
  <1>2. ASSUME NEW m \in Messages, NEW k \in 1..MaxSends, NEW e \in WebhookEvents,
               receiveStatusEvent(m, k, e)
        PROVE  /\ \A h \in hooks' : Counted(h.from, Target(h.event))
               /\ tx' = tx
    <2>1. \/ hooks' = hooks
          \/ /\ hooks' = hooks \cup {[msg |-> m, send |-> k, event |-> e,
                                      from |-> cm[m].status, rc |-> cm[m].retry_count]}
             /\ shouldApplyCampaignStatus(cm[m].status, Target(e))
      BY <1>2 DEF receiveStatusEvent
    <2>2. tx' = tx
      BY <1>2 DEF receiveStatusEvent
    <2> QED
      BY <2>1, <2>2, AppliedIsCounted
  <1>3. ASSUME NEW h \in hooks, updateDeliveryStatus(h)
        PROVE  hooks' \subseteq hooks /\ tx'.from = h.from /\ tx'.to = Target(h.event)
    BY <1>3 DEF updateDeliveryStatus
  <1>4. ASSUME NEW h \in hooks, scheduleSmartRetry(h) \/ failStatusUpdate(h)
        PROVE  hooks' \subseteq hooks /\ tx' = tx
    BY <1>4 DEF scheduleSmartRetry, failStatusUpdate
  <1>5. commitDeliveryStatus => hooks' = hooks /\ tx' = NoTx
    BY DEF commitDeliveryStatus
  <1>6. CASE Webhook \/ \E h \in hooks : failStatusUpdate(h)
    BY <1>2, <1>3, <1>4, <1>5, <1>6 DEF Webhook
  <1>7. User \/ pauseOnFailureRate \/ Sweep \/ crashBeforeEnqueue => UNCHANGED <<hooks, tx>>
    BY DEF User, launchCampaign, cancelCampaign, pauseOnFailureRate, Sweep,
           recoverStuckCampaignMessages, sweepRetryable, enqueueCampaign, crashBeforeEnqueue,
           hookVars
  <1>8. Dispatch \/ failDispatch \/ Reconcile => UNCHANGED <<hooks, tx>>
    BY DEF Dispatch, loadRunningCampaign, checkStatus, claimQueuedCampaignMessages,
           insertOutboundMessage, enqueueOutboundJob, markCampaignCompleted, failDispatch,
           Reconcile, selectQueuedRows, reconcileRow, hookVars
  <1>9. ASSUME NEW m \in Messages,
               \/ Execute(m) \/ failOutboundJob(m) \/ crashOutboundWorker(m)
               \/ \E class \in ErrorClass : failBookkeeping(m, class)
        PROVE  UNCHANGED <<hooks, tx>>
    BY <1>9
       DEF Execute, startOutboundJob, blockByPolicy, deferCampaignMessageToNextDay,
           dispatchTemplateMessage, markCampaignMessageSent, failSend, settleRow, settleJob,
           failOutboundJob, crashOutboundWorker, failBookkeeping, hookVars
  <1>10. CASE UNCHANGED vars
    BY <1>1, <1>10 DEF vars
  <1> QED
    BY <1>1, <1>6, <1>7, <1>8, <1>9, <1>10 DEF Next, Fault

\* Every step counts what it makes show.
LEMMA StepIsCounted ==
  ASSUME IInv, CountsInv, [Next]_vars
  PROVE  CountStep
  <1>0. TypeOK
    BY DEF IInv
  <1>1. CASE UNCHANGED <<cm, count>>
    BY <1>1, NothingMoreShows
  <1>2. CASE UNCHANGED vars
    BY <1>1, <1>2 DEF vars
  <1>3. ASSUME NEW Q \in SUBSET Messages, launchCampaign(Q)
        PROVE  CountStep
    <2>1. \A m \in Messages : cm[m] \in CmRecords
      BY <1>0 DEF TypeOK
    <2>2. \A m \in Messages :
            cm'[m] = [cm[m] EXCEPT !.status = IF m \in Q THEN "queued" ELSE "skipped"]
      BY <1>3 DEF launchCampaign
    <2>3. \A m \in Messages :
            cm'[m].wamid = cm[m].wamid /\ cm'[m].status \in {"queued", "skipped"}
      BY <2>1, <2>2 DEF CmRecords
    <2>4. count' = count
      BY <1>3 DEF launchCampaign
    <2> QED
      BY <2>3, <2>4, NothingMoreShows DEF Counters
  <1>4. ASSUME NEW S \in SUBSET Messages, recoverStuckCampaignMessages(S)
        PROVE  CountStep
    <2>1. count' = count
      BY <1>4 DEF recoverStuckCampaignMessages
    <2> QED
      BY <1>0, <1>4, <2>1, RecoveredChanges, NothingMoreShows DEF Counters
  <1>5. ASSUME NEW due \in SUBSET Messages, NEW B \in SUBSET Messages,
               claimQueuedCampaignMessages(due, B)
        PROVE  CountStep
    <2>1. count' = count
      BY <1>5 DEF claimQueuedCampaignMessages
    <2> QED
      BY <1>0, <1>5, <2>1, ClaimedChanges, NothingMoreShows DEF Counters
  <1>6. ASSUME NEW m \in Messages,
               \/ blockByPolicy(m) \/ deferCampaignMessageToNextDay(m)
               \/ \E class \in ErrorClass : failSend(m, class) \/ failBookkeeping(m, class)
        PROVE  CountStep
    <2>1. MarkFailed(m) \/ (cm' = Requeued(m) /\ UNCHANGED count)
      BY <1>6 DEF blockByPolicy, deferCampaignMessageToNextDay, failSend, failBookkeeping,
                  HandleError
    <2> QED
      BY <1>0, <2>1, FailedIsCounted
  <1>7. ASSUME NEW h \in hooks, scheduleSmartRetry(h)
        PROVE  CountStep
    BY <1>0, <1>7, EventsAreOfMessages, FailedIsCounted DEF scheduleSmartRetry
  <1>8. CASE User \/ pauseOnFailureRate \/ Sweep \/ crashBeforeEnqueue
    BY <1>1, <1>3, <1>4, <1>8
       DEF User, cancelCampaign, pauseOnFailureRate, Sweep, sweepRetryable, enqueueCampaign,
           crashBeforeEnqueue, campaignVars
  <1>9. CASE Dispatch \/ failDispatch \/ Reconcile
    BY <1>1, <1>5, <1>9
       DEF Dispatch, loadRunningCampaign, checkStatus, insertOutboundMessage,
           enqueueOutboundJob, markCampaignCompleted, failDispatch, Reconcile,
           selectQueuedRows, reconcileRow, campaignVars
  <1>10. ASSUME NEW m \in Messages,
                \/ Execute(m) \/ failOutboundJob(m) \/ crashOutboundWorker(m)
                \/ \E class \in ErrorClass : failBookkeeping(m, class)
         PROVE  CountStep
    <2>1. CASE \/ startOutboundJob(m) \/ dispatchTemplateMessage(m) \/ settleRow(m)
               \/ settleJob(m) \/ failOutboundJob(m) \/ crashOutboundWorker(m)
      BY <1>1, <2>1
         DEF startOutboundJob, dispatchTemplateMessage, settleRow, settleJob,
             failOutboundJob, crashOutboundWorker, campaignVars
    <2> QED
      BY <1>0, <1>6, <1>10, <2>1, SentIsCounted DEF Execute
  <1>11. CASE Webhook \/ \E h \in hooks : failStatusUpdate(h)
    BY <1>1, <1>7, <1>11, CommitIsCounted
       DEF Webhook, receiveStatusEvent, updateDeliveryStatus, failStatusUpdate, campaignVars
  <1> QED
    BY <1>2, <1>8, <1>9, <1>10, <1>11 DEF Next, Fault

\* Before the launch nothing shows.
LEMMA InitCounts == Init => CountsInv
  <1> SUFFICES ASSUME Init
               PROVE  CountsInv
    OBVIOUS
  <1>1. ASSUME NEW c \in Counters
        PROVE  count[c] >= Cardinality(CountedIn(c))
    <2>1. CountedIn(c) = {}
      BY DEF Init, CountedIn, Counters
    <2> QED
      BY <2>1, FS_EmptySet DEF Init
  <1> QED
    BY <1>1 DEF Init, CountsInv

\* The counters cover what was ever sent and what is shown now, and the status
\* updates in progress will count what they write.
THEOREM CountsInvariant == Spec => []CountsInv
  <1>1. IInv /\ CountsInv /\ [Next]_vars => CountsInv'
    BY StepIsCounted, CountStepCovers, EventsStayCounted DEF IInv, CountsInv, Cover
  <1> QED
    BY <1>1, InitCounts, InductiveInvariant, PTL DEF Spec

\* The campaign's counters never fall short of what its messages show, however
\* the updates of the worker and of the webhooks interleave.
THEOREM CountersSafety == Spec => []CountersCover
  <1>1. IInv /\ CountsInv => CountersCover
    <2> SUFFICES ASSUME IInv, CountsInv
                 PROVE  CountersCover
      OBVIOUS
    <2> DEFINE R == {m \in Messages : cm[m].status \in Reached}
    <2>1. R \subseteq CountedIn("sent") /\ CountedIn("sent") \in SUBSET Messages
      BY DEF IInv, SendsAreAccepted, CountedIn
    <2>2. Cardinality(R) <= Cardinality(CountedIn("sent"))
      BY <2>1, ShownIsFinite, FS_Subset
    <2>3. Cardinality(R) \in Nat /\ Cardinality(CountedIn("sent")) \in Nat /\ count["sent"] \in Nat
      BY <2>1, ShownIsFinite DEF IInv, TypeOK, Counters
    <2>4. count["sent"] >= Cardinality(R)
      BY <2>2, <2>3 DEF CountsInv, Counters
    <2>5. \A s \in {"delivered", "read", "failed"} :
            count[s] >= Cardinality({m \in Messages : cm[m].status = s})
      BY DEF CountsInv, Counters, CountedIn
    <2> QED
      BY <2>4, <2>5 DEF CountersCover
  <1> QED
    BY <1>1, CountsInvariant, InductiveInvariant, PTL
=============================================================================
