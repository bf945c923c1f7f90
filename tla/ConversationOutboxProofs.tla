----------------------- MODULE ConversationOutboxProofs -----------------------
(* Proofs about ConversationOutbox, for every number of messages, clicks,    *)
(* attempts, retries and status events: its types, that a failed template is *)
(* never shown as sent, that the frequency cap lets one template through,    *)
(* and that a message is sent once for every time the user asked for it.     *)
EXTENDS ConversationOutbox, FiniteSetTheorems, TLAPS

BubbleRecs == [status : BubbleStatus, retries : Nat, wamid : BOOLEAN, linked : BOOLEAN]
RowStates == {"none", "queued", "processing", "completed", "failed"}
JobRecs == [pc : JobPcs, attempts : Nat, error : {"none", "transient", "permanent"}]
ClickRecs == [pc : {"reset", "requeue", "clear", "remove", "add"}, of : Bubbles]

(***************************************************************************)
(* Types                                                                   *)
(***************************************************************************)
\* What the statements write into a bubble, a row or a job.
LEMMA Writes ==
  ASSUME OutboxTypeOK, NEW m \in Bubbles
  PROVE  /\ \A status \in BubbleStatus : SetBubble(m, status) => bubble' \in [Bubbles -> BubbleRecs]
         /\ \A status \in BubbleStatus, wamid \in BOOLEAN :
              bubble' = [bubble EXCEPT ![m].status = status, ![m].wamid = wamid]
                => bubble' \in [Bubbles -> BubbleRecs]
         /\ \A linked \in BOOLEAN :
              bubble' = [bubble EXCEPT ![m].linked = linked] => bubble' \in [Bubbles -> BubbleRecs]
         /\ \A status \in RowStates : SetRow(m, status) => row' \in [Bubbles -> RowStates]
         /\ \A pc \in JobPcs : IdleJob(pc) \in JobRecs
         /\ \A pc \in JobPcs : JobTo(m, pc) => job' \in [Bubbles -> JobRecs]
         /\ \A pc \in JobPcs, error \in {"none", "transient", "permanent"} :
              job' = [job EXCEPT ![m].pc = pc, ![m].error = error] => job' \in [Bubbles -> JobRecs]
         /\ \A j \in JobRecs : job' = [job EXCEPT ![m] = j] => job' \in [Bubbles -> JobRecs]
         /\ AddJob(m) => job' \in [Bubbles -> JobRecs]
         /\ Tracked(m) \in BubbleStatus /\ bubble[m].status \in BubbleStatus
  <1>1. /\ bubble \in [Bubbles -> BubbleRecs] /\ row \in [Bubbles -> RowStates]
        /\ job \in [Bubbles -> JobRecs] /\ bubble[m] \in BubbleRecs
    BY DEF OutboxTypeOK, BubbleRecs, RowStates, JobRecs
  <1>2. \A status \in BubbleStatus : SetBubble(m, status) => bubble' \in [Bubbles -> BubbleRecs]
    BY <1>1 DEF SetBubble, BubbleRecs
  <1>3. ASSUME NEW status \in BubbleStatus, NEW wamid \in BOOLEAN,
               bubble' = [bubble EXCEPT ![m].status = status, ![m].wamid = wamid]
        PROVE  bubble' \in [Bubbles -> BubbleRecs]
    BY <1>1, <1>3 DEF BubbleRecs
  <1>11. \A linked \in BOOLEAN :
           bubble' = [bubble EXCEPT ![m].linked = linked] => bubble' \in [Bubbles -> BubbleRecs]
    BY <1>1 DEF BubbleRecs
  <1>4. \A status \in RowStates : SetRow(m, status) => row' \in [Bubbles -> RowStates]
    BY <1>1 DEF SetRow
  <1>5. \A pc \in JobPcs : IdleJob(pc) \in JobRecs
    BY DEF IdleJob, JobRecs
  <1>6. \A pc \in JobPcs : JobTo(m, pc) => job' \in [Bubbles -> JobRecs]
    BY <1>1 DEF JobTo, JobRecs
  <1>7. ASSUME NEW pc \in JobPcs, NEW error \in {"none", "transient", "permanent"},
               job' = [job EXCEPT ![m].pc = pc, ![m].error = error]
        PROVE  job' \in [Bubbles -> JobRecs]
    BY <1>1, <1>7 DEF JobRecs
  <1>8. \A j \in JobRecs : job' = [job EXCEPT ![m] = j] => job' \in [Bubbles -> JobRecs]
    BY <1>1
  <1>9. AddJob(m) => job' \in [Bubbles -> JobRecs]
    BY <1>1, <1>5 DEF AddJob, JobPcs
  <1>10. Tracked(m) \in BubbleStatus /\ bubble[m].status \in BubbleStatus
    BY <1>1 DEF Tracked, BubbleStatus, BubbleRecs
  <1> QED
    BY <1>2, <1>3, <1>4, <1>5, <1>6, <1>7, <1>8, <1>9, <1>10, <1>11

\* What a worker at work on a job writes has the right type.
LEMMA WorkerTypes ==
  ASSUME OutboxTypeOK, NEW m \in Bubbles, WorkerStep(m)
  PROVE  /\ bubble' \in [Bubbles -> BubbleRecs] /\ row' \in [Bubbles -> RowStates]
         /\ job' \in [Bubbles -> JobRecs]
         /\ UNCHANGED <<requestVars, changes, overtaken, requeued, orderLost, outboxBounds>>
  <1> DEFINE Goal == /\ bubble' \in [Bubbles -> BubbleRecs] /\ row' \in [Bubbles -> RowStates]
                     /\ job' \in [Bubbles -> JobRecs]
                     /\ UNCHANGED <<requestVars, changes, overtaken, requeued, orderLost,
                                    outboxBounds>>
  <1>1. /\ bubble \in [Bubbles -> BubbleRecs] /\ row \in [Bubbles -> RowStates]
        /\ job \in [Bubbles -> JobRecs]
    BY DEF OutboxTypeOK, BubbleRecs, RowStates, JobRecs
  <1>2. CASE startJob(m)
    BY <1>1, <1>2, Writes DEF startJob, RowStates, JobPcs, outboxHistory
  <1>3. CASE takeOrder(m) \/ evaluatePolicy(m) \/ readOrder(m) \/ deleteOrder(m)
    BY <1>1, <1>3, Writes DEF takeOrder, evaluatePolicy, readOrder, deleteOrder, AfterUnlock,
                              JobPcs, outboxHistory
  <1>4. CASE deferRow(m) \/ failJob(m) \/ completeRow(m)
    BY <1>1, <1>4, Writes DEF deferRow, failJob, completeRow, RowSent, RowStates, JobPcs,
                              outboxHistory
  <1>5. CASE moveToDelayed(m) \/ recordFrequencyCapSend(m)
    BY <1>1, <1>5, Writes DEF moveToDelayed, recordFrequencyCapSend, JobPcs, outboxHistory
  <1>6. CASE dispatchTemplateMessage(m)
    <2>1. \A e \in Outcomes \ {"sent"} : e \in {"none", "transient", "permanent"}
      BY OutboxAssumption
    <2> QED
      BY <1>1, <1>6, <2>1, Writes DEF dispatchTemplateMessage, JobPcs
  <1>7. CASE trackOutboundMessage(m) \/ attachConversationProviderMessageId(m)
    <2>1. CASE trackOutboundMessage(m)
      BY <1>1, <2>1, Writes DEF trackOutboundMessage, JobPcs, outboxHistory
    <2>2. CASE attachConversationProviderMessageId(m)
      <3>1. bubble[m] \in BubbleRecs /\ Tracked(m) \in BubbleStatus
        BY <1>1, Writes
      <3>2. bubble' \in [Bubbles -> BubbleRecs]
        BY <1>1, <2>2, <3>1 DEF attachConversationProviderMessageId, BubbleRecs
      <3> QED
        BY <1>1, <2>2, <3>2, Writes DEF attachConversationProviderMessageId, JobPcs, outboxHistory
    <2> QED
      BY <1>7, <2>1, <2>2
  <1>8. CASE retryJob(m)
    <2>1. [IdleJob("waiting") EXCEPT !.attempts = job[m].attempts + 1] \in JobRecs
      BY <1>1 DEF IdleJob, JobRecs, JobPcs
    <2> QED
      BY <1>1, <1>8, <2>1, Writes DEF retryJob, RowStates, outboxHistory
  <1>9. CASE flipPendingMessage(m) \/ endJob(m)
    BY <1>1, <1>9, Writes DEF flipPendingMessage, endJob, JobPcs, BubbleStatus, outboxHistory
  <1> HIDE DEF Goal
  <1>10. Goal
    BY <1>2, <1>3, <1>4, <1>5, <1>6, <1>7, <1>8, <1>9 DEF Goal, WorkerStep
  <1> QED
    BY <1>10 DEF Goal

\* What a request, the reconciler or a fault of a message writes has the
\* right type.
LEMMA MessageTypes ==
  ASSUME OutboxTypeOK, NEW m \in Bubbles,
         \/ insertOutboundMessage(m) \/ RequestStep(m) \/ failRequest(m) \/ throwAfterAccept(m)
         \/ crashJob(m) \/ requeueStaleRow(m) \/ reconcileRow(m) \/ selectByWamid(m)
  PROVE  /\ bubble' \in [Bubbles -> BubbleRecs] /\ row' \in [Bubbles -> RowStates]
         /\ job' \in [Bubbles -> JobRecs]
         /\ request' \in [Bubbles -> {"none", "track", "enqueue", "done"}]
         /\ changes' \subseteq (Bubbles \X Statuses) /\ UNCHANGED click
  <1> DEFINE Goal == /\ bubble' \in [Bubbles -> BubbleRecs] /\ row' \in [Bubbles -> RowStates]
                     /\ job' \in [Bubbles -> JobRecs]
                     /\ request' \in [Bubbles -> {"none", "track", "enqueue", "done"}]
                     /\ changes' \subseteq (Bubbles \X Statuses) /\ UNCHANGED click
  <1>1. /\ bubble \in [Bubbles -> BubbleRecs] /\ row \in [Bubbles -> RowStates]
        /\ job \in [Bubbles -> JobRecs]
        /\ request \in [Bubbles -> {"none", "track", "enqueue", "done"}]
        /\ changes \subseteq (Bubbles \X Statuses)
    BY DEF OutboxTypeOK, BubbleRecs, RowStates, JobRecs
  <1>2. CASE insertOutboundMessage(m)
    BY <1>1, <1>2, Writes DEF insertOutboundMessage, RequestTo, RowStates
  <1>3. CASE trackQueuedConversationTemplateMessage(m) \/ trackReply(m)
    <2>1. \E status \in BubbleStatus : SetBubble(m, status)
      BY <1>3, Writes DEF trackQueuedConversationTemplateMessage, trackReply, NewBubble, BubbleStatus
    <2>2. bubble' \in [Bubbles -> BubbleRecs]
      BY <2>1, Writes
    <2>3. UNCHANGED <<row, job, click, changes>> /\ \E pc \in {"enqueue", "done"} : RequestTo(m, pc)
      BY <1>3 DEF trackQueuedConversationTemplateMessage, trackReply
    <2> QED
      BY <1>1, <2>2, <2>3 DEF RequestTo
  <1>4. CASE enqueueOutboundJob(m) \/ failRequest(m)
    BY <1>1, <1>4, Writes DEF enqueueOutboundJob, failRequest, RequestTo
  <1>5. CASE throwAfterAccept(m) \/ crashJob(m)
    BY <1>1, <1>5, Writes DEF throwAfterAccept, crashJob, requestVars, JobPcs
  <1>6. CASE requeueStaleRow(m) \/ reconcileRow(m)
    BY <1>1, <1>6, Writes DEF requeueStaleRow, reconcileRow, requestVars, RowStates
  <1>7. CASE selectByWamid(m)
    BY <1>1, <1>7 DEF selectByWamid, requestVars
  <1> HIDE DEF Goal
  <1>8. Goal
    BY <1>2, <1>3, <1>4, <1>5, <1>6, <1>7 DEF Goal, RequestStep
  <1> QED
    BY <1>8 DEF Goal

\* A click at work on a message names it, and writes what has the right type.
LEMMA ClickTypes ==
  ASSUME OutboxTypeOK, NEW c \in Clicks,
         ClickStep(c) \/ failClick(c) \/ \E m \in Bubbles : checkFailed(c, m)
  PROVE  /\ bubble' \in [Bubbles -> BubbleRecs] /\ row' \in [Bubbles -> RowStates]
         /\ job' \in [Bubbles -> JobRecs] /\ click' \in [Clicks -> {IdleClick} \cup ClickRecs]
         /\ UNCHANGED <<request, changes>>
  <1> DEFINE Goal == /\ bubble' \in [Bubbles -> BubbleRecs] /\ row' \in [Bubbles -> RowStates]
                     /\ job' \in [Bubbles -> JobRecs]
                     /\ click' \in [Clicks -> {IdleClick} \cup ClickRecs]
                     /\ UNCHANGED <<request, changes>>
             m == click[c].of
  <1>1. /\ bubble \in [Bubbles -> BubbleRecs] /\ row \in [Bubbles -> RowStates]
        /\ job \in [Bubbles -> JobRecs] /\ click \in [Clicks -> {IdleClick} \cup ClickRecs]
    BY DEF OutboxTypeOK, BubbleRecs, RowStates, JobRecs, ClickRecs
  <1>2. click[c].pc # "idle" => click[c] \in ClickRecs /\ m \in Bubbles
    BY <1>1 DEF IdleClick, ClickRecs
  <1>3. ASSUME NEW pc \in {"reset", "requeue", "clear", "remove", "add"}, click[c].pc # "idle",
               ClickTo(c, pc)
        PROVE  click' \in [Clicks -> {IdleClick} \cup ClickRecs]
    BY <1>1, <1>2, <1>3 DEF ClickTo, ClickRecs
  <1>4. Return(c) => click' \in [Clicks -> {IdleClick} \cup ClickRecs]
    BY <1>1 DEF Return
  <1>5. CASE resetBubble(c)
    <2>1. m \in Bubbles /\ bubble[m] \in BubbleRecs
      BY <1>1, <1>2, <1>5 DEF resetBubble, ClickAt
    <2>2. ASSUME NEW n \in Nat, bubble' = [bubble EXCEPT ![m].status = "pending", ![m].retries = n]
          PROVE  bubble' \in [Bubbles -> BubbleRecs]
      BY <1>1, <2>1, <2>2 DEF BubbleRecs, BubbleStatus
    <2>3. bubble[m].retries + 1 \in Nat
      BY <2>1 DEF BubbleRecs
    <2>4. bubble' \in [Bubbles -> BubbleRecs]
      BY <1>5, <2>2, <2>3 DEF resetBubble
    <2> QED
      BY <1>1, <1>3, <1>5, <2>4 DEF resetBubble, ClickAt
  <1>6. CASE requeueRow(c)
    BY <1>1, <1>2, <1>3, <1>6, Writes DEF requeueRow, ClickAt, RowStates
  <1>7. CASE clearFrequencyCapSend(c)
    BY <1>1, <1>3, <1>7 DEF clearFrequencyCapSend, ClickAt
  <1>8. CASE removeJob(c)
    BY <1>1, <1>2, <1>3, <1>4, <1>8, Writes DEF removeJob, ClickAt, JobPcs
  <1>9. CASE addRetryJob(c)
    BY <1>1, <1>2, <1>4, <1>9, Writes DEF addRetryJob, ClickAt
  <1>10. CASE failClick(c)
    BY <1>1, <1>4, <1>10 DEF failClick
  <1>11. ASSUME NEW n \in Bubbles, checkFailed(c, n)
         PROVE  Goal
    BY <1>1, <1>11 DEF checkFailed, ClickRecs
  <1> HIDE DEF Goal
  <1>12. Goal
    BY <1>5, <1>6, <1>7, <1>8, <1>9, <1>10, <1>11 DEF Goal, ClickStep
  <1> QED
    BY <1>12 DEF Goal

\* The lock, the cap and the counts keep their type.
LEMMA HistoryTypes ==
  ASSUME OutboxTypeOK, OutboxNext
  PROVE  /\ order' \in {Nobody, DeadHolder} \cup {<<m>> : m \in Bubbles}
         /\ cap' \in BOOLEAN /\ taken' \in [Bubbles -> Nat] /\ capSends' \in Nat
         /\ statuses' \in Nat /\ outboxFaults' \in Nat
         /\ outboxFaults' = 0 => outboxFaults = 0
  <1> DEFINE Orders == {Nobody, DeadHolder} \cup {<<m>> : m \in Bubbles}
             Goal == /\ order' \in Orders /\ cap' \in BOOLEAN
                     /\ taken' \in [Bubbles -> Nat] /\ capSends' \in Nat
                     /\ statuses' \in Nat /\ outboxFaults' \in Nat
                     /\ outboxFaults' = 0 => outboxFaults = 0
  <1>1. /\ order \in Orders /\ cap \in BOOLEAN /\ taken \in [Bubbles -> Nat] /\ capSends \in Nat
        /\ statuses \in Nat /\ outboxFaults \in Nat
    BY DEF OutboxTypeOK
  <1>2. \A m \in Bubbles : <<m>> \in Orders
    OBVIOUS
  <1>3. ASSUME UNCHANGED <<cap, taken, capSends, statuses>>, order' \in Orders,
               UNCHANGED outboxFaults \/ Fault
        PROVE  Goal
    BY <1>1, <1>3 DEF Fault
  <1>4. ASSUME NEW m \in Bubbles,
               insertOutboundMessage(m) \/ RequestStep(m) \/ failRequest(m)
        PROVE  Goal
    BY <1>1, <1>3, <1>4 DEF insertOutboundMessage, RequestStep, failRequest, enqueueOutboundJob,
       trackQueuedConversationTemplateMessage, trackReply, outboxHistory, outboxBounds
  <1>5. ASSUME NEW m \in Bubbles,
               \/ startJob(m) \/ evaluatePolicy(m) \/ deferRow(m) \/ trackOutboundMessage(m)
               \/ completeRow(m) \/ attachConversationProviderMessageId(m) \/ retryJob(m)
               \/ failJob(m) \/ flipPendingMessage(m) \/ endJob(m)
        PROVE  Goal
    BY <1>1, <1>3, <1>5 DEF startJob, evaluatePolicy, deferRow, trackOutboundMessage, completeRow,
       attachConversationProviderMessageId, retryJob, failJob, flipPendingMessage, endJob,
       outboxHistory, outboxBounds
  <1>6. ASSUME NEW m \in Bubbles,
               takeOrder(m) \/ moveToDelayed(m) \/ readOrder(m) \/ deleteOrder(m)
        PROVE  Goal
    BY <1>1, <1>2, <1>3, <1>6 DEF takeOrder, moveToDelayed, readOrder, deleteOrder, outboxHistory,
       outboxBounds
  <1>7. ASSUME NEW m \in Bubbles, dispatchTemplateMessage(m)
        PROVE  Goal
    BY <1>1, <1>7 DEF dispatchTemplateMessage, outboxBounds
  <1>8. ASSUME NEW m \in Bubbles, recordFrequencyCapSend(m)
        PROVE  Goal
    BY <1>1, <1>8 DEF recordFrequencyCapSend, outboxHistory, outboxBounds
  <1>9. ASSUME NEW m \in Bubbles, throwAfterAccept(m) \/ crashJob(m) \/ requeueStaleRow(m)
        PROVE  Goal
    BY <1>1, <1>3, <1>9 DEF throwAfterAccept, crashJob, requeueStaleRow, outboxHistory
  <1>10. ASSUME NEW m \in Bubbles, reconcileRow(m)
         PROVE  Goal
    BY <1>1, <1>3, <1>10 DEF reconcileRow, outboxBounds
  <1>11. ASSUME NEW m \in Bubbles, selectByWamid(m)
         PROVE  Goal
    BY <1>1, <1>11 DEF selectByWamid, outboxHistory
  <1>12. ASSUME NEW c \in Clicks,
                \/ resetBubble(c) \/ requeueRow(c) \/ removeJob(c) \/ addRetryJob(c) \/ failClick(c)
                \/ \E m \in Bubbles : checkFailed(c, m)
         PROVE  Goal
    BY <1>1, <1>3, <1>12 DEF resetBubble, requeueRow, removeJob, addRetryJob, failClick, checkFailed,
       outboxHistory, outboxBounds
  <1>13. ASSUME NEW c \in Clicks, clearFrequencyCapSend(c)
         PROVE  Goal
    BY <1>1, <1>13 DEF clearFrequencyCapSend, outboxBounds
  <1>14. expireOrder => Goal
    BY <1>1, <1>3 DEF expireOrder, outboxBounds
  <1>15. ASSUME expireCap
         PROVE  Goal
    <2>1. UNCHANGED <<order, taken, outboxFaults, statuses>> /\ cap' = FALSE /\ capSends' = 0
      BY <1>15 DEF expireCap, outboxBounds
    <2> QED
      BY <1>1, <2>1
  <1>16. ASSUME recordOtherSend
         PROVE  Goal
    <2>1. UNCHANGED <<order, taken, capSends, outboxFaults, statuses>> /\ cap' = TRUE
      BY <1>16 DEF recordOtherSend, outboxHistory, outboxBounds
    <2> QED
      BY <1>1, <2>1
  <1>17. ASSUME NEW ch \in changes, applyChange(ch)
         PROVE  Goal
    <2>1. UNCHANGED <<order, taken, outboxFaults, statuses>>
      BY <1>17 DEF applyChange, outboxBounds
    <2>2. (cap' = FALSE /\ capSends' = 0) \/ UNCHANGED <<cap, capSends>>
      BY <1>17 DEF applyChange
    <2>3. cap' \in BOOLEAN
      BY <1>1, <2>2, Zenon
    <2>4. capSends' \in Nat
      BY <1>1, <2>2
    <2> QED
      BY <1>1, <2>1, <2>3, <2>4
  <1> HIDE DEF Goal
  <1>18. Goal
    BY <1>4, <1>5, <1>6, <1>7, <1>8, <1>9, <1>10, <1>11, <1>12, <1>13, <1>14, <1>15, <1>16, <1>17
       DEF OutboxNext, WorkerStep, ClickStep
  <1> QED
    BY <1>18 DEF Goal

\* What the history says of overtaking and the lock stays a yes or no, stray
\* jobs are counted, and neither is taken back.
LEMMA FlagTypes ==
  ASSUME OutboxTypeOK, OutboxNext
  PROVE  /\ {overtaken, orderLost}' \subseteq BOOLEAN /\ requeued' \in Nat
         /\ requeued' = 0 => requeued = 0
         /\ ~orderLost' => ~orderLost
  <1> DEFINE Goal == /\ overtaken' \in BOOLEAN /\ requeued' \in Nat /\ orderLost' \in BOOLEAN
                     /\ requeued' = 0 => requeued = 0
                     /\ ~orderLost' => ~orderLost
  <1>1. overtaken \in BOOLEAN /\ requeued \in Nat /\ orderLost \in BOOLEAN
    BY DEF OutboxTypeOK
  <1>2. ASSUME UNCHANGED <<overtaken, requeued, orderLost>>
        PROVE  Goal
    BY <1>1, <1>2, Zenon
  <1>3. ASSUME NEW m \in Bubbles, WorkerStep(m)
        PROVE  Goal
    BY <1>2, <1>3, WorkerTypes
  <1>4. ASSUME NEW m \in Bubbles,
               \/ insertOutboundMessage(m) \/ RequestStep(m) \/ failRequest(m) \/ throwAfterAccept(m)
               \/ crashJob(m) \/ requeueStaleRow(m) \/ selectByWamid(m)
        PROVE  Goal
    BY <1>2, <1>4 DEF insertOutboundMessage, RequestStep, failRequest, enqueueOutboundJob,
       trackQueuedConversationTemplateMessage, trackReply, throwAfterAccept, crashJob,
       requeueStaleRow, selectByWamid, outboxHistory
  <1>5. ASSUME NEW m \in Bubbles, reconcileRow(m)
        PROVE  Goal
    <2>1. /\ UNCHANGED orderLost
          /\ overtaken' = (overtaken \/ Requesting(m))
          /\ requeued' \in {requeued, requeued + 1}
      BY <1>5, Zenon DEF reconcileRow
    <2>2. requeued' \in Nat /\ (requeued' = 0 => requeued = 0)
      BY <1>1, <2>1
    <2> QED
      BY <1>1, <2>1, <2>2, Zenon
  <1>6. ASSUME NEW c \in Clicks, resetBubble(c) \/ failClick(c)
        PROVE  Goal
    <2>1. UNCHANGED <<requeued, orderLost>>
      BY <1>6 DEF resetBubble, failClick
    <2>2. overtaken' \in BOOLEAN
      BY <1>1, <1>6, Zenon DEF resetBubble, failClick
    <2> QED
      BY <1>1, <2>1, <2>2, Zenon
  <1>7. ASSUME NEW c \in Clicks,
               \/ requeueRow(c) \/ clearFrequencyCapSend(c) \/ removeJob(c) \/ addRetryJob(c)
               \/ \E m \in Bubbles : checkFailed(c, m)
        PROVE  Goal
    BY <1>2, <1>7 DEF requeueRow, clearFrequencyCapSend, removeJob, addRetryJob, checkFailed,
       outboxHistory
  <1>8. ASSUME expireOrder
        PROVE  Goal
    <2>1. UNCHANGED <<overtaken, requeued>> /\ orderLost' = (orderLost \/ order # DeadHolder)
      BY <1>8 DEF expireOrder
    <2> QED
      BY <1>1, <2>1, Zenon
  <1>9. expireCap \/ recordOtherSend \/ (\E ch \in changes : applyChange(ch)) => Goal
    BY <1>2 DEF expireCap, recordOtherSend, applyChange, outboxHistory
  <1> HIDE DEF Goal
  <1>10. Goal
    BY <1>3, <1>4, <1>5, <1>6, <1>7, <1>8, <1>9 DEF OutboxNext, ClickStep
  <1> QED
    BY <1>10, Zenon DEF Goal

\* Every variable keeps its type, initially ...
LEMMA OutboxInitTypes == OutboxInit => OutboxTypeOK
  <1> SUFFICES ASSUME OutboxInit
               PROVE  OutboxTypeOK
    OBVIOUS
  <1>1. bubble \in [Bubbles -> BubbleRecs]
    BY DEF OutboxInit, BubbleRecs, BubbleStatus
  <1>2. job \in [Bubbles -> JobRecs]
    BY DEF OutboxInit, IdleJob, JobRecs, JobPcs
  <1>3. click \in [Clicks -> {IdleClick} \cup ClickRecs]
    BY DEF OutboxInit
  <1> QED
    BY <1>1, <1>2, <1>3 DEF OutboxInit, OutboxTypeOK, BubbleRecs, JobRecs, ClickRecs

\* ... and in every step.
LEMMA OutboxNextTypes == OutboxTypeOK /\ [OutboxNext]_outboxVars => OutboxTypeOK'
  <1>1. CASE UNCHANGED outboxVars
    BY <1>1 DEF outboxVars, requestVars, outboxHistory, outboxBounds, OutboxTypeOK
  <1>2. ASSUME OutboxTypeOK, OutboxNext
        PROVE  OutboxTypeOK'
    <2> DEFINE Main == /\ bubble' \in [Bubbles -> BubbleRecs] /\ row' \in [Bubbles -> RowStates]
                       /\ job' \in [Bubbles -> JobRecs]
                       /\ request' \in [Bubbles -> {"none", "track", "enqueue", "done"}]
                       /\ click' \in [Clicks -> {IdleClick} \cup ClickRecs]
                       /\ changes' \subseteq (Bubbles \X Statuses)
    <2>1. /\ bubble \in [Bubbles -> BubbleRecs] /\ row \in [Bubbles -> RowStates]
          /\ job \in [Bubbles -> JobRecs]
          /\ request \in [Bubbles -> {"none", "track", "enqueue", "done"}]
          /\ click \in [Clicks -> {IdleClick} \cup ClickRecs]
          /\ changes \subseteq (Bubbles \X Statuses)
      BY <1>2 DEF OutboxTypeOK, BubbleRecs, RowStates, JobRecs, ClickRecs
    <2>2. ASSUME NEW m \in Bubbles, WorkerStep(m)
          PROVE  Main
      BY <1>2, <2>1, <2>2, WorkerTypes DEF requestVars
    <2>3. ASSUME NEW m \in Bubbles,
                 \/ insertOutboundMessage(m) \/ RequestStep(m) \/ failRequest(m)
                 \/ throwAfterAccept(m) \/ crashJob(m) \/ requeueStaleRow(m) \/ reconcileRow(m)
                 \/ selectByWamid(m)
          PROVE  Main
      BY <1>2, <2>1, <2>3, MessageTypes
    <2>4. ASSUME NEW c \in Clicks,
                 ClickStep(c) \/ failClick(c) \/ \E m \in Bubbles : checkFailed(c, m)
          PROVE  Main
      BY <1>2, <2>1, <2>4, ClickTypes
    <2>5. expireOrder \/ expireCap \/ recordOtherSend => Main
      BY <2>1 DEF expireOrder, expireCap, recordOtherSend, requestVars
    <2>6. ASSUME NEW ch \in changes, applyChange(ch)
          PROVE  Main
      <3>1. ch[1] \in Bubbles /\ ch[2] \in BubbleStatus
        BY <2>1, OutboxAssumption DEF BubbleStatus
      <3> QED
        BY <1>2, <2>1, <2>6, <3>1, Writes DEF applyChange, requestVars
    <2> HIDE DEF Main
    <2>7. Main
      BY <1>2, <2>2, <2>3, <2>4, <2>5, <2>6 DEF OutboxNext
    <2> QED
      BY <1>2, <2>7, HistoryTypes, FlagTypes DEF Main, OutboxTypeOK, BubbleRecs, RowStates, JobRecs, ClickRecs
  <1> QED
    BY <1>1, <1>2

\* Every variable of ConversationOutbox keeps its type.
THEOREM OutboxTypes == OutboxSpec => []OutboxTypeOK
  BY OutboxInitTypes, OutboxNextTypes, PTL DEF OutboxSpec
(***************************************************************************)
(* A failed template is shown as failed                                    *)
(***************************************************************************)
AfterAccept == {"accepted", "tracked", "complete", "attach"}
Unsent == {"none", "pending", "failed"}
Shown(m) == /\ job[m].pc \in AfterAccept => taken[m] > 0
            /\ bubble[m].wamid => taken[m] > 0
            /\ m \in Templates /\ taken[m] = 0 => bubble[m].status \in Unsent

\* A step that changes one message only leaves the others as they were shown.
LEMMA ShownElsewhere ==
  ASSUME OutboxTypeOK, ShownWasTaken, NEW m \in Bubbles,
         \A n \in Bubbles \ {m} : /\ job'[n] = job[n] /\ taken'[n] = taken[n]
                                  /\ bubble'[n] = bubble[n],
         taken[m] > 0 => taken'[m] > 0, changes' \subseteq changes, Shown(m)'
  PROVE  ShownWasTaken'
  <1>1. taken \in [Bubbles -> Nat] /\ changes \subseteq (Bubbles \X Statuses)
    BY DEF OutboxTypeOK
  <1>2. ASSUME NEW n \in Bubbles
        PROVE  Shown(n)'
    <2>1. CASE n = m
      BY <2>1
    <2>2. CASE n # m
      <3>1. Shown(n)
        BY DEF ShownWasTaken, Shown, AfterAccept, Unsent
      <3> QED
        BY <2>2, <3>1 DEF Shown
    <2> QED
      BY <2>1, <2>2
  <1>3. ASSUME NEW ch \in changes'
        PROVE  taken'[ch[1]] > 0
    <2>1. ch[1] \in Bubbles /\ taken[ch[1]] > 0
      BY <1>1 DEF ShownWasTaken
    <2> QED
      BY <2>1
  <1> QED
    BY <1>2, <1>3 DEF ShownWasTaken, Shown, AfterAccept, Unsent

\* Nor does a step in which no message is shown or sent.
LEMMA ShownAsBefore ==
  ASSUME OutboxTypeOK, ShownWasTaken, UNCHANGED <<bubble, taken>>, changes' \subseteq changes,
         \A n \in Bubbles : job'[n].pc \in AfterAccept => job[n].pc \in AfterAccept
  PROVE  ShownWasTaken'
  BY DEF ShownWasTaken, AfterAccept

\* A step of a worker keeps what is shown.
LEMMA WorkerShows ==
  ASSUME OutboxTypeOK, ShownWasTaken, NEW m \in Bubbles, WorkerStep(m)
  PROVE  ShownWasTaken'
  <1>1. /\ bubble \in [Bubbles -> BubbleRecs] /\ job \in [Bubbles -> JobRecs]
        /\ taken \in [Bubbles -> Nat]
    BY DEF OutboxTypeOK, BubbleRecs, JobRecs
  <1>2. UNCHANGED changes
    BY WorkerTypes
  <1>3. Shown(m)
    BY DEF ShownWasTaken, Shown, AfterAccept, Unsent
  <1>4. CASE startJob(m) \/ takeOrder(m) \/ evaluatePolicy(m) \/ deferRow(m) \/ moveToDelayed(m)
    <2>1. UNCHANGED <<bubble, taken>> /\ \A n \in Bubbles \ {m} : job'[n] = job[n]
      BY <1>1, <1>4 DEF startJob, takeOrder, evaluatePolicy, deferRow, moveToDelayed, JobTo,
         outboxHistory
    <2>2. job'[m].pc \notin AfterAccept
      BY <1>1, <1>4 DEF startJob, takeOrder, evaluatePolicy, deferRow, moveToDelayed, JobTo,
         AfterAccept, JobRecs
    <2> QED
      BY <1>2, <2>1, <2>2, ShownAsBefore
  <1>5. CASE readOrder(m) \/ deleteOrder(m) \/ retryJob(m) \/ failJob(m) \/ endJob(m)
    BY <1>1, <1>2, <1>5, ShownAsBefore DEF readOrder, deleteOrder, AfterUnlock, retryJob, failJob,
       endJob, IdleJob, JobAt, JobTo, AfterAccept, outboxHistory, JobRecs
  <1>6. CASE recordFrequencyCapSend(m)
    BY <1>1, <1>2, <1>6, ShownAsBefore DEF recordFrequencyCapSend, JobAt, JobTo, AfterAccept,
       outboxHistory, JobRecs
  <1>10. CASE completeRow(m)
    <2>1. /\ UNCHANGED taken /\ job[m].pc = "complete"
          /\ \A n \in Bubbles \ {m} : bubble'[n] = bubble[n] /\ job'[n] = job[n]
          /\ bubble'[m].status = bubble[m].status /\ bubble'[m].wamid = bubble[m].wamid
      BY <1>1, <1>10 DEF completeRow, JobAt, JobTo, BubbleRecs, outboxHistory
    <2>2. Shown(m)'
      BY <1>3, <2>1 DEF Shown, AfterAccept
    <2> QED
      BY <1>1, <1>2, <2>1, <2>2, ShownElsewhere
  <1>7. CASE dispatchTemplateMessage(m)
    <2>1. CASE /\ taken' = [taken EXCEPT ![m] = @ + 1] /\ UNCHANGED bubble
               /\ \A n \in Bubbles \ {m} : job'[n] = job[n]
      BY <1>1, <1>2, <1>3, <2>1, ShownElsewhere DEF Shown
    <2>2. CASE UNCHANGED <<taken, bubble>> /\ \E e : job' = [job EXCEPT ![m].pc = "unlock", ![m].error = e]
      BY <1>1, <1>2, <2>2, ShownAsBefore DEF AfterAccept, JobRecs
    <2> QED
      BY <1>1, <1>7, <2>1, <2>2 DEF dispatchTemplateMessage, JobTo
  <1>8. CASE trackOutboundMessage(m) \/ attachConversationProviderMessageId(m)
    <2>1. taken[m] > 0 /\ UNCHANGED taken
      BY <1>3, <1>8 DEF trackOutboundMessage, attachConversationProviderMessageId, JobAt, Shown,
         AfterAccept, outboxHistory
    <2>2. \A n \in Bubbles \ {m} : bubble'[n] = bubble[n] /\ job'[n] = job[n]
      BY <1>1, <1>8 DEF trackOutboundMessage, attachConversationProviderMessageId, JobTo
    <2>3. Shown(m)'
      BY <1>1, <2>1 DEF Shown
    <2> QED
      BY <1>1, <1>2, <2>1, <2>2, <2>3, ShownElsewhere
  <1>9. CASE flipPendingMessage(m)
    <2>1. /\ UNCHANGED taken /\ job'[m].pc = "end" /\ bubble'[m].wamid = bubble[m].wamid
          /\ bubble'[m].status \in {bubble[m].status, "failed"}
          /\ \A n \in Bubbles \ {m} : bubble'[n] = bubble[n] /\ job'[n] = job[n]
      BY <1>1, <1>9 DEF flipPendingMessage, JobTo, SetBubble, BubbleRecs, JobRecs, outboxHistory
    <2>2. Shown(m)'
      BY <1>3, <2>1 DEF Shown, AfterAccept, Unsent
    <2> QED
      BY <1>1, <1>2, <2>1, <2>2, ShownElsewhere
  <1> QED
    BY <1>4, <1>5, <1>6, <1>7, <1>8, <1>9, <1>10 DEF WorkerStep

\* So does every step.
LEMMA NextShows ==
  ASSUME OutboxTypeOK, ShownWasTaken, OutboxNext
  PROVE  ShownWasTaken'
  <1>1. /\ bubble \in [Bubbles -> BubbleRecs] /\ job \in [Bubbles -> JobRecs]
        /\ taken \in [Bubbles -> Nat] /\ changes \subseteq (Bubbles \X Statuses)
        /\ click \in [Clicks -> {IdleClick} \cup ClickRecs]
    BY DEF OutboxTypeOK, BubbleRecs, JobRecs, ClickRecs
  <1>2. ASSUME NEW m \in Bubbles
        PROVE  Shown(m) /\ bubble[m] \in BubbleRecs
    BY <1>1 DEF ShownWasTaken, Shown, AfterAccept, Unsent
  <1>3. ASSUME NEW m \in Bubbles, AddJob(m)
        PROVE  \A n \in Bubbles : job'[n].pc \in AfterAccept => job[n].pc \in AfterAccept
    BY <1>1, <1>3 DEF AddJob, IdleJob, AfterAccept
  <1>4. ASSUME NEW m \in Bubbles,
               insertOutboundMessage(m) \/ enqueueOutboundJob(m) \/ failRequest(m)
        PROVE  ShownWasTaken'
    BY <1>3, <1>4, ShownAsBefore DEF insertOutboundMessage, enqueueOutboundJob, failRequest,
       outboxHistory
  <1>5. ASSUME NEW m \in Bubbles, trackQueuedConversationTemplateMessage(m)
        PROVE  ShownWasTaken'
    <2>1. /\ UNCHANGED <<taken, job, changes>> /\ bubble'[m].wamid = bubble[m].wamid
          /\ bubble'[m].status = IF bubble[m].status \in {"none", "pending"} THEN "pending"
                                 ELSE bubble[m].status
          /\ \A n \in Bubbles \ {m} : bubble'[n] = bubble[n]
      BY <1>1, <1>5 DEF trackQueuedConversationTemplateMessage, NewBubble, SetBubble, BubbleRecs,
         outboxHistory
    <2>2. Shown(m)'
      BY <1>2, <2>1 DEF Shown, Unsent
    <2> QED
      BY <1>1, <2>1, <2>2, ShownElsewhere
  <1>6. ASSUME NEW m \in Bubbles, trackReply(m)
        PROVE  ShownWasTaken'
    <2>1. /\ UNCHANGED <<taken, job, changes>> /\ bubble'[m].wamid = bubble[m].wamid
          /\ m \notin Templates /\ \A n \in Bubbles \ {m} : bubble'[n] = bubble[n]
      BY <1>1, <1>6 DEF trackReply, SetBubble, BubbleRecs, outboxHistory
    <2>2. Shown(m)'
      BY <1>2, <2>1 DEF Shown
    <2> QED
      BY <1>1, <2>1, <2>2, ShownElsewhere
  <1>7. ASSUME NEW m \in Bubbles, throwAfterAccept(m) \/ crashJob(m)
        PROVE  ShownWasTaken'
    <2>1. UNCHANGED <<bubble, taken, changes>>
      BY <1>7 DEF throwAfterAccept, crashJob, outboxHistory
    <2>2. job'[m].pc \in {"unlock", "waiting"} /\ \A n \in Bubbles \ {m} : job'[n] = job[n]
      BY <1>1, <1>7 DEF throwAfterAccept, crashJob, JobRecs
    <2> QED
      BY <2>1, <2>2, ShownAsBefore DEF AfterAccept
  <1>8. ASSUME NEW m \in Bubbles, requeueStaleRow(m) \/ reconcileRow(m)
        PROVE  ShownWasTaken'
    BY <1>3, <1>8, ShownAsBefore DEF requeueStaleRow, reconcileRow, outboxHistory
  <1>9. ASSUME NEW m \in Bubbles, selectByWamid(m)
        PROVE  ShownWasTaken'
    <2>1. /\ UNCHANGED <<bubble, job, taken>> /\ bubble[m].wamid
          /\ \E st \in Statuses : changes' \subseteq changes \cup {<<m, st>>}
      BY <1>9 DEF selectByWamid, outboxHistory
    <2>2. \A ch \in changes' : taken[ch[1]] > 0
      BY <1>2, <2>1 DEF ShownWasTaken, Shown
    <2> QED
      BY <2>1, <2>2 DEF ShownWasTaken
  <1>10. ASSUME NEW c \in Clicks, resetBubble(c)
         PROVE  ShownWasTaken'
    <2>1. PICK m \in Bubbles : m = click[c].of
      BY <1>1, <1>10 DEF resetBubble, ClickAt, IdleClick, ClickRecs
    <2>2. /\ UNCHANGED <<taken, job, changes>> /\ bubble'[m].wamid = bubble[m].wamid
          /\ bubble'[m].status = "pending" /\ \A n \in Bubbles \ {m} : bubble'[n] = bubble[n]
      BY <1>1, <1>10, <2>1 DEF resetBubble, BubbleRecs
    <2>3. Shown(m)'
      BY <1>2, <2>1, <2>2 DEF Shown, Unsent
    <2> QED
      BY <1>1, <2>1, <2>2, <2>3, ShownElsewhere
  <1>11. ASSUME NEW c \in Clicks,
                \/ requeueRow(c) \/ clearFrequencyCapSend(c) \/ failClick(c)
                \/ \E m \in Bubbles : checkFailed(c, m)
         PROVE  ShownWasTaken'
    BY <1>11, ShownAsBefore DEF requeueRow, clearFrequencyCapSend, failClick, checkFailed,
       outboxHistory
  <1>12. ASSUME NEW c \in Clicks, removeJob(c) \/ addRetryJob(c)
         PROVE  ShownWasTaken'
    <2>1. click[c].of \in Bubbles
      BY <1>1, <1>12 DEF removeJob, addRetryJob, ClickAt, IdleClick, ClickRecs
    <2> QED
      BY <1>1, <1>3, <1>12, <2>1, ShownAsBefore DEF removeJob, addRetryJob, IdleJob, AfterAccept,
         outboxHistory
  <1>13. expireOrder \/ expireCap \/ recordOtherSend => ShownWasTaken'
    BY ShownAsBefore DEF expireOrder, expireCap, recordOtherSend, outboxHistory
  <1>14. ASSUME NEW ch \in changes, applyChange(ch)
         PROVE  ShownWasTaken'
    <2> DEFINE m == ch[1]
    <2>1. m \in Bubbles /\ taken[m] > 0
      BY <1>1 DEF ShownWasTaken
    <2>2. /\ UNCHANGED <<taken, job>> /\ changes' \subseteq changes
          /\ \A n \in Bubbles \ {m} : bubble'[n] = bubble[n]
      BY <1>1, <1>14 DEF applyChange, SetBubble
    <2> HIDE DEF m
    <2>3. Shown(m)'
      BY <1>1, <2>1, <2>2 DEF Shown
    <2> QED
      BY <1>1, <2>1, <2>2, <2>3, ShownElsewhere
  <1> QED
    BY <1>4, <1>5, <1>6, <1>7, <1>8, <1>9, <1>10, <1>11, <1>12, <1>13, <1>14, WorkerShows
       DEF OutboxNext, RequestStep, ClickStep

(***************************************************************************)
(* A worker has an error only on its way out                               *)
(***************************************************************************)
Busy == {"lock", "policy", "defer", "delay", "dispatch", "accepted", "tracked", "complete", "attach"}
Fresh(j) == j.pc \in Busy => j.error = "none"

\* Whatever adds a job, the job has no error and has not begun.
LEMMA AddedJob ==
  ASSUME OutboxTypeOK, NEW m \in Bubbles, AddJob(m)
  PROVE  /\ \A n \in Bubbles \ {m} : job'[n] = job[n]
         /\ Pending(job[m].pc) => job' = job
         /\ ~Pending(job[m].pc) => job'[m] = IdleJob("waiting")
  BY DEF OutboxTypeOK, AddJob

\* A job keeps the error of its last attempt out of the next one.
LEMMA ErrorsStayNew ==
  ASSUME OutboxTypeOK, ErrorIsNew, [OutboxNext]_outboxVars
  PROVE  ErrorIsNew'
  <1>1. /\ job \in [Bubbles -> JobRecs] /\ click \in [Clicks -> {IdleClick} \cup ClickRecs]
    BY DEF OutboxTypeOK, JobRecs, ClickRecs
  <1> DEFINE Only(m) == (\A n \in Bubbles \ {m} : job'[n] = job[n]) /\ Fresh(job'[m])
  <1>2. \A m \in Bubbles : Fresh(job[m])
    BY DEF ErrorIsNew, Fresh, Busy
  <1>3. ASSUME NEW m \in Bubbles, Only(m)
        PROVE  ErrorIsNew'
    <2>1. \A n \in Bubbles : Fresh(job'[n])
      BY <1>2, <1>3
    <2> QED
      BY <2>1 DEF ErrorIsNew, Fresh, Busy
  <1>4. ASSUME NEW m \in Bubbles, AddJob(m)
        PROVE  ErrorIsNew'
    <2>1. Only(m)
      BY <1>1, <1>2, <1>4 DEF AddJob, IdleJob, Fresh, Busy
    <2> QED
      BY <1>3, <2>1
  <1>5. ASSUME UNCHANGED job
        PROVE  ErrorIsNew'
    BY <1>5 DEF ErrorIsNew
  <1>6. CASE UNCHANGED outboxVars
    BY <1>5, <1>6 DEF outboxVars
  <1>7. ASSUME NEW m \in Bubbles,
               \/ startJob(m) \/ takeOrder(m) \/ evaluatePolicy(m) \/ deferRow(m)
               \/ moveToDelayed(m)
        PROVE  ErrorIsNew'
    <2>1. Only(m)
      BY <1>1, <1>2, <1>7 DEF Fresh, startJob, takeOrder, evaluatePolicy, deferRow,
       moveToDelayed, JobAt, JobTo, JobRecs, Busy
    <2> QED
      BY <1>3, <2>1
  <1>8. ASSUME NEW m \in Bubbles,
               \/ dispatchTemplateMessage(m) \/ trackOutboundMessage(m)
               \/ recordFrequencyCapSend(m) \/ completeRow(m)
               \/ attachConversationProviderMessageId(m)
        PROVE  ErrorIsNew'
    <2>1. Only(m)
      BY <1>1, <1>2, <1>8 DEF Fresh, dispatchTemplateMessage, trackOutboundMessage,
       recordFrequencyCapSend, completeRow, attachConversationProviderMessageId, JobAt, JobTo,
       JobRecs, Busy
    <2> QED
      BY <1>3, <2>1
  <1>9. ASSUME NEW m \in Bubbles,
               \/ readOrder(m) \/ deleteOrder(m) \/ retryJob(m) \/ failJob(m)
               \/ flipPendingMessage(m) \/ endJob(m) \/ throwAfterAccept(m) \/ crashJob(m)
        PROVE  ErrorIsNew'
    <2>1. Only(m)
      BY <1>1, <1>2, <1>9 DEF Fresh, readOrder, deleteOrder, AfterUnlock, retryJob, failJob,
       flipPendingMessage, endJob, throwAfterAccept, crashJob, IdleJob, JobAt, JobTo, JobRecs, Busy
    <2> QED
      BY <1>3, <2>1
  <1>10. ASSUME NEW m \in Bubbles,
                \/ insertOutboundMessage(m) \/ RequestStep(m) \/ failRequest(m)
                \/ requeueStaleRow(m) \/ reconcileRow(m) \/ selectByWamid(m)
         PROVE  ErrorIsNew'
    BY <1>4, <1>5, <1>10 DEF insertOutboundMessage, RequestStep, enqueueOutboundJob, trackReply,
       trackQueuedConversationTemplateMessage, failRequest, requeueStaleRow, reconcileRow,
       selectByWamid
  <1>11. ASSUME NEW c \in Clicks, removeJob(c) \/ addRetryJob(c)
         PROVE  ErrorIsNew'
    <2>1. PICK m \in Bubbles : m = click[c].of
      BY <1>1, <1>11 DEF removeJob, addRetryJob, ClickAt, IdleClick, ClickRecs
    <2>2. CASE addRetryJob(c)
      BY <1>4, <2>1, <2>2 DEF addRetryJob
    <2>3. CASE removeJob(c)
      <3>1. Only(m)
        BY <1>1, <1>2, <2>1, <2>3 DEF removeJob, IdleJob, Fresh, Busy
      <3> QED
        BY <1>3, <3>1
    <2> QED
      BY <1>11, <2>2, <2>3
  <1>12. ASSUME NEW c \in Clicks,
                \/ resetBubble(c) \/ requeueRow(c) \/ clearFrequencyCapSend(c) \/ failClick(c)
                \/ \E m \in Bubbles : checkFailed(c, m)
         PROVE  ErrorIsNew'
    BY <1>5, <1>12 DEF resetBubble, requeueRow, clearFrequencyCapSend, failClick, checkFailed
  <1>13. expireOrder \/ expireCap \/ recordOtherSend \/ (\E ch \in changes : applyChange(ch))
           => ErrorIsNew'
    BY <1>5 DEF expireOrder, expireCap, recordOtherSend, applyChange
  <1> QED
    BY <1>6, <1>7, <1>8, <1>9, <1>10, <1>11, <1>12, <1>13 DEF OutboxNext, WorkerStep, ClickStep

(***************************************************************************)
(* What holds as long as nothing fails between two statements              *)
(***************************************************************************)
\* The steps that are no fault.
LEMMA NoFault ==
  ASSUME OutboxTypeOK, OutboxNext, outboxFaults' = 0
  PROVE  \/ \E m \in Bubbles :
              \/ insertOutboundMessage(m) \/ RequestStep(m) \/ WorkerStep(m)
              \/ requeueStaleRow(m) /\ ~Started(job[m].pc)
              \/ reconcileRow(m) \/ selectByWamid(m)
         \/ \E c \in Clicks : ClickStep(c) \/ \E m \in Bubbles : checkFailed(c, m)
         \/ expireOrder \/ expireCap \/ recordOtherSend
         \/ \E ch \in changes : applyChange(ch)
  <1>1. outboxFaults \in Nat
    BY DEF OutboxTypeOK
  <1>2. ~Fault
    BY <1>1 DEF Fault
  <1>3. \A m \in Bubbles : ~failRequest(m) /\ ~throwAfterAccept(m) /\ ~crashJob(m)
    BY <1>2 DEF failRequest, throwAfterAccept, crashJob
  <1>4. \A c \in Clicks : ~failClick(c)
    BY <1>2 DEF failClick
  <1>5. \A m \in Bubbles : requeueStaleRow(m) => ~Started(job[m].pc)
    BY <1>2 DEF requeueStaleRow
  <1> QED
    BY <1>3, <1>4, <1>5 DEF OutboxNext
\* Whoever is at work under the lock of the conversation holds it.
LEMMA OrderKept ==
  ASSUME OutboxTypeOK, OrderIsOwn, OutboxNext, outboxFaults' = 0
  PROVE  OrderIsOwn'
  <1>1. /\ job \in [Bubbles -> JobRecs] /\ click \in [Clicks -> {IdleClick} \cup ClickRecs]
    BY DEF OutboxTypeOK, JobRecs, ClickRecs
  <1> DEFINE Only(m) == /\ \A n \in Bubbles \ {m} : job'[n] = job[n]
                        /\ job'[m].pc \in UnderOrder => job[m].pc \in UnderOrder
  <1> SUFFICES ASSUME ~orderLost'
               PROVE  OrderIsOwn'
    BY DEF OrderIsOwn
  <1>2. \A m \in Bubbles : job[m].pc \in UnderOrder => order = <<m>>
    BY FlagTypes DEF OrderIsOwn
  <1>3. ASSUME NEW m \in Bubbles, Only(m), UNCHANGED order
        PROVE  OrderIsOwn'
    BY <1>2, <1>3 DEF OrderIsOwn
  <1>4. ASSUME UNCHANGED <<job, order>>
        PROVE  OrderIsOwn'
    BY <1>2, <1>4 DEF OrderIsOwn
  <1>5. ASSUME NEW m \in Bubbles, AddJob(m), UNCHANGED order
        PROVE  OrderIsOwn'
    <2>1. Only(m)
      BY <1>1, <1>5 DEF AddJob, IdleJob, UnderOrder
    <2> QED
      BY <1>3, <1>5, <2>1
  <1>6. ASSUME NEW m \in Bubbles,
               \/ startJob(m) \/ evaluatePolicy(m) \/ deferRow(m) \/ dispatchTemplateMessage(m)
               \/ trackOutboundMessage(m) \/ recordFrequencyCapSend(m)
        PROVE  OrderIsOwn'
    <2>1. Only(m)
      BY <1>1, <1>6 DEF startJob, evaluatePolicy, deferRow, dispatchTemplateMessage,
         trackOutboundMessage, recordFrequencyCapSend, JobAt, JobTo, JobRecs, UnderOrder
    <2>2. UNCHANGED order
      BY <1>6 DEF startJob, evaluatePolicy, deferRow, dispatchTemplateMessage,
         trackOutboundMessage, recordFrequencyCapSend
    <2> QED
      BY <1>3, <2>1, <2>2
  <1>7. ASSUME NEW m \in Bubbles,
               \/ completeRow(m) \/ attachConversationProviderMessageId(m) \/ retryJob(m)
               \/ failJob(m) \/ flipPendingMessage(m) \/ endJob(m)
        PROVE  OrderIsOwn'
    <2>1. Only(m)
      BY <1>1, <1>7 DEF completeRow, attachConversationProviderMessageId, retryJob, failJob,
         flipPendingMessage, endJob, IdleJob, JobAt, JobTo, JobRecs, UnderOrder
    <2>2. UNCHANGED order
      BY <1>7 DEF completeRow, attachConversationProviderMessageId, retryJob, failJob,
         flipPendingMessage, endJob
    <2> QED
      BY <1>3, <2>1, <2>2
  <1>8. ASSUME NEW m \in Bubbles, takeOrder(m)
        PROVE  OrderIsOwn'
    <2>1. CASE order = Nobody
      <3>1. \A n \in Bubbles : job[n].pc \notin UnderOrder
        BY <1>2, <2>1 DEF Nobody
      <3>2. order' = <<m>> /\ \A n \in Bubbles \ {m} : job'[n] = job[n]
        BY <1>1, <1>8, <2>1 DEF takeOrder, OrderFree, JobTo
      <3> QED
        BY <3>1, <3>2 DEF OrderIsOwn
    <2>2. CASE order # Nobody
      <3>1. Only(m) /\ UNCHANGED order
        BY <1>1, <1>8, <2>2 DEF takeOrder, OrderFree, JobRecs, UnderOrder
      <3> QED
        BY <1>3, <3>1
    <2> QED
      BY <2>1, <2>2
  <1>9. ASSUME NEW m \in Bubbles, moveToDelayed(m) \/ deleteOrder(m)
        PROVE  OrderIsOwn'
    <2>1. order = <<m>>
      BY <1>2, <1>9 DEF moveToDelayed, deleteOrder, JobAt, UnderOrder
    <2>2. \A n \in Bubbles \ {m} : job[n].pc \notin UnderOrder
      BY <1>2, <2>1
    <2>3. job'[m].pc \notin UnderOrder /\ \A n \in Bubbles \ {m} : job'[n] = job[n]
      BY <1>1, <1>9 DEF moveToDelayed, deleteOrder, AfterUnlock, JobTo, JobRecs, UnderOrder
    <2> QED
      BY <2>2, <2>3 DEF OrderIsOwn
  <1>15. ASSUME NEW m \in Bubbles, readOrder(m)
         PROVE  OrderIsOwn'
    <2>1. Only(m) /\ UNCHANGED order
      BY <1>1, <1>15 DEF readOrder, JobAt, JobTo, JobRecs, UnderOrder
    <2> QED
      BY <1>3, <2>1
  <1>10. ASSUME NEW m \in Bubbles,
                \/ insertOutboundMessage(m) \/ RequestStep(m) \/ requeueStaleRow(m)
                \/ reconcileRow(m) \/ selectByWamid(m)
         PROVE  OrderIsOwn'
    BY <1>4, <1>5, <1>10 DEF insertOutboundMessage, RequestStep, enqueueOutboundJob, trackReply,
       trackQueuedConversationTemplateMessage, requeueStaleRow, reconcileRow, selectByWamid
  <1>11. ASSUME NEW c \in Clicks, removeJob(c) \/ addRetryJob(c)
         PROVE  OrderIsOwn'
    <2>1. PICK m \in Bubbles : m = click[c].of
      BY <1>1, <1>11 DEF removeJob, addRetryJob, ClickAt, IdleClick, ClickRecs
    <2>2. CASE addRetryJob(c)
      BY <1>5, <2>1, <2>2 DEF addRetryJob
    <2>3. CASE removeJob(c)
      <3>1. Only(m) /\ UNCHANGED order
        BY <1>1, <2>1, <2>3 DEF removeJob, IdleJob, UnderOrder
      <3> QED
        BY <1>3, <3>1
    <2> QED
      BY <1>11, <2>2, <2>3
  <1>12. ASSUME NEW c \in Clicks,
                \/ resetBubble(c) \/ requeueRow(c) \/ clearFrequencyCapSend(c)
                \/ \E m \in Bubbles : checkFailed(c, m)
         PROVE  OrderIsOwn'
    BY <1>4, <1>12 DEF resetBubble, requeueRow, clearFrequencyCapSend, checkFailed
  <1>13. expireCap \/ recordOtherSend \/ (\E ch \in changes : applyChange(ch)) => OrderIsOwn'
    BY <1>4 DEF expireCap, recordOtherSend, applyChange
  <1>14. ASSUME expireOrder
         PROVE  OrderIsOwn'
    <2>1. order = DeadHolder /\ UNCHANGED job
      BY <1>14 DEF expireOrder
    <2>2. \A m \in Bubbles : job[m].pc \notin UnderOrder
      BY <1>2, <2>1 DEF DeadHolder
    <2> QED
      BY <2>1, <2>2 DEF OrderIsOwn
  <1> QED
    BY <1>6, <1>7, <1>8, <1>9, <1>10, <1>11, <1>12, <1>13, <1>14, <1>15, NoFault
       DEF WorkerStep, ClickStep

\* Until a retry has reset a bubble, no click has got further.
LEMMA ClicksKept ==
  ASSUME OutboxTypeOK, ClicksWait, OutboxNext, outboxFaults' = 0
  PROVE  ClicksWait' /\ (Unretried' => Unretried)
  <1>1. /\ bubble \in [Bubbles -> BubbleRecs] /\ click \in [Clicks -> {IdleClick} \cup ClickRecs]
    BY DEF OutboxTypeOK, BubbleRecs, ClickRecs
  <1> DEFINE SameRetries == \A m \in Bubbles : bubble'[m].retries = bubble[m].retries
             Goal == ClicksWait' /\ (Unretried' => Unretried)
  <1>2. ASSUME SameRetries, UNCHANGED click
        PROVE  Goal
    BY <1>2 DEF ClicksWait, Unretried
  <1>3. ASSUME NEW m \in Bubbles, NEW status, SetBubble(m, status)
        PROVE  SameRetries
    BY <1>1, <1>3 DEF SetBubble, BubbleRecs
  <1>4. ASSUME NEW m \in Bubbles, WorkerStep(m)
        PROVE  Goal
    <2>1. UNCHANGED click
      BY <1>4, WorkerTypes DEF requestVars
    <2>2. UNCHANGED bubble \/ flipPendingMessage(m) \/ trackOutboundMessage(m)
             \/ completeRow(m) \/ attachConversationProviderMessageId(m)
      BY <1>4 DEF WorkerStep, startJob, takeOrder, evaluatePolicy, deferRow, moveToDelayed,
         dispatchTemplateMessage, recordFrequencyCapSend, readOrder, deleteOrder, retryJob,
         failJob, endJob
    <2>3. SameRetries
      BY <1>1, <1>3, <2>2 DEF flipPendingMessage, trackOutboundMessage, completeRow,
         attachConversationProviderMessageId, BubbleRecs
    <2> QED
      BY <1>2, <2>1, <2>3
  <1>5. ASSUME NEW m \in Bubbles,
               \/ insertOutboundMessage(m) \/ RequestStep(m) \/ requeueStaleRow(m)
               \/ reconcileRow(m) \/ selectByWamid(m)
        PROVE  Goal
    BY <1>2, <1>3, <1>5 DEF insertOutboundMessage, RequestStep, enqueueOutboundJob, trackReply,
       trackQueuedConversationTemplateMessage, requeueStaleRow, reconcileRow, selectByWamid, requestVars
  <1>6. ASSUME NEW c \in Clicks, resetBubble(c)
        PROVE  Goal
    <2>1. PICK m \in Bubbles : m = click[c].of
      BY <1>1, <1>6 DEF resetBubble, ClickAt, IdleClick, ClickRecs
    <2>2. bubble'[m].retries = bubble[m].retries + 1 /\ bubble[m].retries \in Nat
      BY <1>1, <1>6, <2>1 DEF resetBubble, BubbleRecs
    <2>3. ~Unretried'
      BY <2>2 DEF Unretried
    <2> QED
      BY <2>3 DEF ClicksWait
  <1>7. ASSUME NEW c \in Clicks,
               requeueRow(c) \/ clearFrequencyCapSend(c) \/ removeJob(c) \/ addRetryJob(c)
        PROVE  Goal
    <2>1. UNCHANGED bubble /\ click[c].pc \notin {"idle", "reset"}
      BY <1>7 DEF requeueRow, clearFrequencyCapSend, removeJob, addRetryJob, ClickAt
    <2> QED
      BY <2>1 DEF ClicksWait, Unretried
  <1>8. ASSUME NEW c \in Clicks, NEW m \in Bubbles, checkFailed(c, m)
        PROVE  Goal
    <2>1. UNCHANGED bubble /\ click' = [click EXCEPT ![c] = [pc |-> "reset", of |-> m]]
      BY <1>8 DEF checkFailed
    <2> QED
      BY <1>1, <2>1 DEF ClicksWait, Unretried
  <1>9. expireOrder \/ expireCap \/ recordOtherSend => Goal
    BY <1>2 DEF expireOrder, expireCap, recordOtherSend, requestVars
  <1>10. ASSUME NEW ch \in changes, applyChange(ch)
         PROVE  Goal
    <2>1. ch[1] \in Bubbles
      BY DEF OutboxTypeOK
    <2> QED
      BY <1>2, <1>3, <1>10, <2>1 DEF applyChange, requestVars
  <1> HIDE DEF Goal
  <1>11. Goal
    BY <1>4, <1>5, <1>6, <1>7, <1>8, <1>9, <1>10, NoFault DEF ClickStep
  <1> QED
    BY <1>11 DEF Goal
\* A template that is sent holds the lock of the conversation from the check
\* of the cap to its record.
Unrecorded == {"accepted", "tracked"}
CapSafe == /\ \A m \in Templates : job[m].pc = "dispatch" => capSends = 0
           /\ capSends <= 1
           /\ capSends > 0 => cap \/ \E m \in Templates : job[m].pc \in Unrecorded

\* As long as nothing fails, no worker outlasts its lock and no retry is asked
\* for, each send of a template finds the cap clear and leaves it set.
LEMMA CapKept ==
  ASSUME OutboxTypeOK, OrderIsOwn, ClicksWait, CapIsKept, OutboxNext, outboxFaults' = 0
  PROVE  CapIsKept'
  <1> SUFFICES ASSUME Unretried', ~orderLost'
               PROVE  CapSafe'
    BY DEF CapIsKept, CapSafe, Unrecorded, JobAt
  <1>1. /\ job \in [Bubbles -> JobRecs] /\ click \in [Clicks -> {IdleClick} \cup ClickRecs]
        /\ cap \in BOOLEAN /\ capSends \in Nat /\ Templates \subseteq Bubbles
    BY OutboxAssumption DEF OutboxTypeOK, JobRecs, ClickRecs
  <1>2. Unretried /\ CapSafe /\ \A c \in Clicks : click[c].pc \in {"idle", "reset"}
    BY ClicksKept, FlagTypes DEF ClicksWait, CapIsKept, CapSafe, Unrecorded, JobAt
  <1>15. \A m, n \in Bubbles :
           job[m].pc \in UnderOrder /\ job[n].pc \in {"dispatch", "accepted", "tracked"} => m = n
    BY FlagTypes DEF OrderIsOwn, UnderOrder
  <1> DEFINE Only(m) == /\ \A n \in Bubbles \ {m} : job'[n] = job[n]
                        /\ job'[m].pc = "dispatch" => job[m].pc = "dispatch"
                        /\ job[m].pc \in Unrecorded => job'[m].pc \in Unrecorded
  <1>3. ASSUME NEW m \in Bubbles, m \notin Templates \/ Only(m),
               \A n \in Bubbles \ {m} : job'[n] = job[n], UNCHANGED <<cap, capSends>>
        PROVE  CapSafe'
    <2>1. \A n \in Templates : /\ job'[n].pc = "dispatch" => job[n].pc = "dispatch"
                               /\ job[n].pc \in Unrecorded => job'[n].pc \in Unrecorded
      BY <1>1, <1>3
    <2> QED
      BY <1>2, <1>3, <2>1 DEF CapSafe
  <1>4. ASSUME UNCHANGED <<cap, capSends, job>>
        PROVE  CapSafe'
    BY <1>2, <1>4 DEF CapSafe
  <1>5. ASSUME NEW m \in Bubbles, AddJob(m), UNCHANGED <<cap, capSends>>
        PROVE  CapSafe'
    <2>1. Only(m)
      BY <1>1, <1>5 DEF AddJob, Pending, Started, IdleJob, Unrecorded
    <2> QED
      BY <1>3, <1>5, <2>1
  <1>6. ASSUME NEW m \in Bubbles,
               \/ startJob(m) \/ takeOrder(m) \/ deferRow(m) \/ moveToDelayed(m)
               \/ trackOutboundMessage(m) \/ attachConversationProviderMessageId(m)
        PROVE  CapSafe'
    <2>1. Only(m)
      BY <1>1, <1>6 DEF startJob, takeOrder, deferRow, moveToDelayed, trackOutboundMessage,
         attachConversationProviderMessageId, JobAt, JobTo, JobRecs, Unrecorded
    <2>2. UNCHANGED <<cap, capSends>>
      BY <1>6 DEF startJob, takeOrder, deferRow, moveToDelayed, trackOutboundMessage,
         attachConversationProviderMessageId, outboxHistory
    <2> QED
      BY <1>3, <2>1, <2>2
  <1>7. ASSUME NEW m \in Bubbles,
               \/ completeRow(m) \/ readOrder(m) \/ deleteOrder(m) \/ retryJob(m)
               \/ failJob(m) \/ flipPendingMessage(m) \/ endJob(m)
        PROVE  CapSafe'
    <2>1. Only(m)
      BY <1>1, <1>7 DEF completeRow, readOrder, deleteOrder, AfterUnlock, retryJob, failJob,
         flipPendingMessage, endJob, IdleJob, JobAt, JobTo, JobRecs, Unrecorded
    <2>2. UNCHANGED <<cap, capSends>>
      BY <1>7 DEF completeRow, readOrder, deleteOrder, retryJob, failJob, flipPendingMessage,
         endJob, outboxHistory
    <2> QED
      BY <1>3, <2>1, <2>2
  <1>8. ASSUME NEW m \in Bubbles, evaluatePolicy(m)
        PROVE  CapSafe'
    <2>1. /\ UNCHANGED <<cap, capSends>> /\ \A n \in Bubbles \ {m} : job'[n] = job[n]
          /\ job[m].pc = "policy" /\ job'[m].pc \notin Unrecorded
          /\ m \in Templates /\ job'[m].pc = "dispatch" => ~cap
      BY <1>1, <1>8 DEF evaluatePolicy, JobAt, JobTo, JobRecs, Unrecorded, outboxHistory
    <2>2. \A n \in Bubbles : job[n].pc \notin {"dispatch", "accepted", "tracked"}
      BY <1>15, <2>1 DEF UnderOrder
    <2>3. \A n \in Templates : job'[n].pc = "dispatch" => n = m /\ ~cap
      BY <1>1, <2>1, <2>2
    <2>4. ~cap => capSends = 0
      BY <1>1, <1>2, <2>2 DEF CapSafe, Unrecorded
    <2>5. capSends > 0 => cap
      BY <1>1, <1>2, <2>2 DEF CapSafe, Unrecorded
    <2> QED
      BY <1>2, <2>1, <2>3, <2>4, <2>5 DEF CapSafe
  <1>9. ASSUME NEW m \in Bubbles, dispatchTemplateMessage(m)
        PROVE  CapSafe'
    <2>1. UNCHANGED cap /\ job[m].pc = "dispatch" /\ \A n \in Bubbles \ {m} : job'[n] = job[n]
      BY <1>1, <1>9 DEF dispatchTemplateMessage, JobAt, JobTo
    <2>2. \A n \in Bubbles \ {m} : job'[n].pc # "dispatch"
      BY <1>15, <2>1 DEF UnderOrder
    <2>3. CASE m \in Templates /\ capSends' = capSends + 1 /\ JobTo(m, "accepted")
      <3>1. capSends' = 1
        BY <1>2, <2>1, <2>3 DEF CapSafe
      <3>2. job'[m].pc = "accepted"
        BY <1>1, <2>3 DEF JobTo, JobRecs
      <3>3. \A n \in Templates : job'[n].pc # "dispatch"
        BY <1>1, <2>2, <3>2
      <3> QED
        BY <2>3, <3>1, <3>2, <3>3 DEF CapSafe, Unrecorded
    <2>4. CASE /\ UNCHANGED capSends
               /\ m \notin Templates \/ job'[m].pc = "unlock"
      BY <1>3, <2>1, <2>4 DEF Unrecorded
    <2> QED
      BY <1>1, <1>9, <2>3, <2>4 DEF dispatchTemplateMessage, JobRecs
  <1>10. ASSUME NEW m \in Bubbles, recordFrequencyCapSend(m)
         PROVE  CapSafe'
    <2>1. /\ job'[m].pc = "complete" /\ cap' = TRUE /\ UNCHANGED capSends
          /\ \A n \in Bubbles \ {m} : job'[n] = job[n]
      BY <1>1, <1>10 DEF recordFrequencyCapSend, JobAt, JobTo, JobRecs, outboxHistory
    <2>2. \A n \in Templates : job'[n].pc = "dispatch" => job[n].pc = "dispatch"
      BY <1>1, <2>1
    <2> QED
      BY <1>2, <2>1, <2>2 DEF CapSafe
  <1>11. ASSUME NEW m \in Bubbles,
                \/ insertOutboundMessage(m) \/ RequestStep(m) \/ requeueStaleRow(m)
                \/ reconcileRow(m) \/ selectByWamid(m)
         PROVE  CapSafe'
    BY <1>4, <1>5, <1>11 DEF insertOutboundMessage, RequestStep, enqueueOutboundJob, trackReply,
       trackQueuedConversationTemplateMessage, requeueStaleRow, reconcileRow, selectByWamid,
       outboxHistory
  <1>12. ASSUME NEW c \in Clicks, ClickStep(c) \/ \E m \in Bubbles : checkFailed(c, m)
         PROVE  CapSafe'
    <2>1. ~ (requeueRow(c) \/ clearFrequencyCapSend(c) \/ removeJob(c) \/ addRetryJob(c))
      BY <1>2 DEF requeueRow, clearFrequencyCapSend, removeJob, addRetryJob, ClickAt
    <2> QED
      BY <1>4, <1>12, <2>1 DEF ClickStep, resetBubble, checkFailed, outboxHistory
  <1>13. ASSUME cap' = FALSE, capSends' = 0
         PROVE  CapSafe'
    BY <1>13 DEF CapSafe
  <1>14. expireOrder \/ expireCap \/ (\E ch \in changes : applyChange(ch)) => CapSafe'
    BY <1>4, <1>13 DEF expireOrder, expireCap, applyChange
  <1>16. recordOtherSend => CapSafe'
    BY <1>2 DEF recordOtherSend, outboxHistory, CapSafe
  <1> QED
    BY <1>6, <1>7, <1>8, <1>9, <1>10, <1>11, <1>12, <1>14, <1>16, NoFault DEF WorkerStep

(***************************************************************************)
(* A step is about one message                                             *)
(***************************************************************************)
IsOf(k, m) == k.pc = "idle" \/ k.of = m
About(m) ==
  /\ \A n \in Bubbles \ {m} : /\ request'[n] = request[n] /\ row'[n] = row[n] /\ job'[n] = job[n]
                              /\ bubble'[n] = bubble[n] /\ taken'[n] = taken[n]
  /\ \A c \in Clicks : click'[c] = click[c] \/ (IsOf(click[c], m) /\ IsOf(click'[c], m))

\* A step of a worker is about the message of its job only.
LEMMA WorkerIsAboutIt ==
  ASSUME OutboxTypeOK, NEW m \in Bubbles, WorkerStep(m)
  PROVE  About(m)
  <1>1. /\ bubble \in [Bubbles -> BubbleRecs] /\ row \in [Bubbles -> RowStates]
        /\ job \in [Bubbles -> JobRecs] /\ taken \in [Bubbles -> Nat]
    BY DEF OutboxTypeOK, BubbleRecs, RowStates, JobRecs
  <1>2. UNCHANGED <<request, click>>
    BY WorkerTypes DEF requestVars
  <1> DEFINE Only == \A n \in Bubbles \ {m} : /\ row'[n] = row[n] /\ job'[n] = job[n]
                                              /\ bubble'[n] = bubble[n] /\ taken'[n] = taken[n]
  <1>3. CASE startJob(m) \/ takeOrder(m) \/ evaluatePolicy(m) \/ deferRow(m) \/ moveToDelayed(m)
    <2>1. Only
      BY <1>1, <1>3 DEF startJob, takeOrder, evaluatePolicy, deferRow, moveToDelayed, SetRow,
         JobTo, outboxHistory
    <2> QED
      BY <1>2, <2>1 DEF About
  <1>4. CASE dispatchTemplateMessage(m) \/ trackOutboundMessage(m) \/ recordFrequencyCapSend(m)
             \/ completeRow(m) \/ attachConversationProviderMessageId(m)
    <2>1. Only
      BY <1>1, <1>4 DEF dispatchTemplateMessage, trackOutboundMessage, recordFrequencyCapSend,
         completeRow, attachConversationProviderMessageId, SetRow, JobTo, outboxHistory
    <2> QED
      BY <1>2, <2>1 DEF About
  <1>5. CASE readOrder(m) \/ deleteOrder(m) \/ retryJob(m) \/ failJob(m) \/ flipPendingMessage(m)
             \/ endJob(m)
    <2>1. Only
      BY <1>1, <1>5 DEF readOrder, deleteOrder, retryJob, failJob, flipPendingMessage, endJob, SetRow,
         SetBubble, JobTo, outboxHistory
    <2> QED
      BY <1>2, <2>1 DEF About
  <1> QED
    BY <1>3, <1>4, <1>5 DEF WorkerStep

\* A step of a request, of the stale-row audit or of a webhook is about one
\* message.
LEMMA MessageIsAboutIt ==
  ASSUME OutboxTypeOK, NEW m \in Bubbles,
         \/ insertOutboundMessage(m) \/ RequestStep(m) \/ requeueStaleRow(m) \/ reconcileRow(m)
         \/ selectByWamid(m)
  PROVE  About(m)
  <1>1. /\ bubble \in [Bubbles -> BubbleRecs] /\ row \in [Bubbles -> RowStates]
        /\ job \in [Bubbles -> JobRecs] /\ taken \in [Bubbles -> Nat]
        /\ request \in [Bubbles -> {"none", "track", "enqueue", "done"}]
    BY DEF OutboxTypeOK, BubbleRecs, RowStates, JobRecs
  <1>2. CASE insertOutboundMessage(m) \/ RequestStep(m)
    BY <1>1, <1>2, AddedJob DEF insertOutboundMessage, RequestStep, enqueueOutboundJob, trackReply,
       trackQueuedConversationTemplateMessage, SetRow, SetBubble, RequestTo, outboxHistory, About
  <1>3. CASE requeueStaleRow(m) \/ reconcileRow(m) \/ selectByWamid(m)
    BY <1>1, <1>3, AddedJob DEF requeueStaleRow, reconcileRow, selectByWamid, SetRow, requestVars,
       outboxHistory, About
  <1> QED
    BY <1>2, <1>3

\* A step of a retry is about the message that was clicked.
LEMMA ClickIsAboutIt ==
  ASSUME OutboxTypeOK, NEW c \in Clicks, NEW m \in Bubbles,
         checkFailed(c, m) \/ (ClickStep(c) /\ m = click[c].of)
  PROVE  About(m)
  <1>1. /\ bubble \in [Bubbles -> BubbleRecs] /\ row \in [Bubbles -> RowStates]
        /\ job \in [Bubbles -> JobRecs] /\ taken \in [Bubbles -> Nat]
        /\ click \in [Clicks -> {IdleClick} \cup ClickRecs]
    BY DEF OutboxTypeOK, BubbleRecs, RowStates, JobRecs, ClickRecs
  <1> DEFINE Only == \A n \in Bubbles \ {m} : /\ row'[n] = row[n] /\ job'[n] = job[n]
                                              /\ bubble'[n] = bubble[n]
             Clicked == \A d \in Clicks : click'[d] = click[d]
                                          \/ (IsOf(click[d], m) /\ IsOf(click'[d], m))
  <1>2. ASSUME NEW pc, ClickTo(c, pc), m = click[c].of
        PROVE  Clicked
    BY <1>1, <1>2 DEF ClickTo, IsOf, IdleClick, ClickRecs
  <1>3. Return(c) /\ m = click[c].of => Clicked
    BY <1>1 DEF Return, IsOf, IdleClick
  <1>4. CASE checkFailed(c, m)
    <2>1. Clicked
      BY <1>1, <1>4 DEF checkFailed, ClickAt, IsOf
    <2> QED
      BY <1>4, <2>1 DEF checkFailed, outboxHistory, About
  <1>5. CASE ClickStep(c) /\ m = click[c].of
    <2>1. Only
      BY <1>1, <1>5, AddedJob DEF ClickStep, resetBubble, requeueRow, clearFrequencyCapSend,
         removeJob, addRetryJob, SetRow
    <2>2. Clicked
      BY <1>2, <1>3, <1>5 DEF ClickStep, resetBubble, requeueRow, clearFrequencyCapSend,
         removeJob, addRetryJob
    <2>3. UNCHANGED <<request, taken>>
      BY <1>5 DEF ClickStep, resetBubble, requeueRow, clearFrequencyCapSend, removeJob,
         addRetryJob, outboxHistory
    <2> QED
      BY <2>1, <2>2, <2>3 DEF About
  <1> QED
    BY <1>4, <1>5

\* A change that is applied is about the bubble it was read from.
LEMMA ChangeIsAboutIt ==
  ASSUME OutboxTypeOK, NEW ch \in changes, applyChange(ch)
  PROVE  ch[1] \in Bubbles /\ About(ch[1])
  BY DEF OutboxTypeOK, applyChange, SetBubble, requestVars, About

(***************************************************************************)
(* There is nothing of a message before its request                        *)
(***************************************************************************)
LEMMA NothingElsewhere ==
  ASSUME OutboxTypeOK, NothingBeforeRequest, NEW m \in Bubbles, About(m), request'[m] # "none"
  PROVE  NothingBeforeRequest'
  <1> SUFFICES ASSUME NEW n \in Bubbles, request'[n] = "none"
               PROVE  /\ row'[n] = "none" /\ job'[n].pc = "none" /\ bubble'[n].status = "none"
                      /\ ~bubble'[n].wamid /\ taken'[n] = 0
                      /\ \A c \in Clicks : click'[c].pc = "idle" \/ click'[c].of # n
    BY DEF NothingBeforeRequest, JobAt, ClickAt
  <1>1. n # m /\ request[n] = "none"
    BY DEF About
  <1>2. /\ row[n] = "none" /\ job[n].pc = "none" /\ bubble[n].status = "none"
        /\ ~bubble[n].wamid /\ taken[n] = 0
        /\ \A c \in Clicks : click[c].pc = "idle" \/ click[c].of # n
    BY <1>1 DEF NothingBeforeRequest, JobAt, ClickAt
  <1> QED
    BY <1>1, <1>2 DEF About, IsOf

\* No step makes something of a message that was not requested.
LEMMA NothingKept ==
  ASSUME OutboxTypeOK, ShownWasTaken, NothingBeforeRequest, OutboxNext, outboxFaults' = 0
  PROVE  NothingBeforeRequest'
  <1>1. /\ request \in [Bubbles -> {"none", "track", "enqueue", "done"}]
        /\ click \in [Clicks -> {IdleClick} \cup ClickRecs] /\ taken \in [Bubbles -> Nat]
    BY DEF OutboxTypeOK, ClickRecs
  <1>2. ASSUME NEW m \in Bubbles, WorkerStep(m)
        PROVE  NothingBeforeRequest'
    <2>1. job[m].pc # "none"
      BY <1>2 DEF WorkerStep, startJob, takeOrder, evaluatePolicy, deferRow, moveToDelayed,
         dispatchTemplateMessage, trackOutboundMessage, recordFrequencyCapSend, completeRow,
         attachConversationProviderMessageId, readOrder, deleteOrder, retryJob, failJob,
         flipPendingMessage, endJob, JobAt
    <2>2. request'[m] # "none"
      BY <1>2, <2>1, WorkerTypes DEF requestVars, NothingBeforeRequest, JobAt
    <2> QED
      BY <1>2, <2>2, WorkerIsAboutIt, NothingElsewhere
  <1>3. ASSUME NEW m \in Bubbles, insertOutboundMessage(m) \/ RequestStep(m)
        PROVE  NothingBeforeRequest'
    <2>1. request'[m] # "none"
      BY <1>1, <1>3 DEF insertOutboundMessage, RequestStep, enqueueOutboundJob, trackReply,
         trackQueuedConversationTemplateMessage, RequestTo
    <2> QED
      BY <1>3, <2>1, MessageIsAboutIt, NothingElsewhere
  <1>4. ASSUME NEW m \in Bubbles, requeueStaleRow(m) \/ reconcileRow(m) \/ selectByWamid(m)
        PROVE  NothingBeforeRequest'
    <2>1. row[m] # "none" \/ bubble[m].wamid
      BY <1>4 DEF requeueStaleRow, reconcileRow, selectByWamid
    <2>2. request'[m] # "none"
      BY <1>4, <2>1 DEF requeueStaleRow, reconcileRow, selectByWamid, requestVars,
         NothingBeforeRequest
    <2> QED
      BY <1>4, <2>2, MessageIsAboutIt, NothingElsewhere
  <1>5. ASSUME NEW c \in Clicks, ClickStep(c)
        PROVE  NothingBeforeRequest'
    <2>1. click[c].pc # "idle" /\ UNCHANGED request
      BY <1>5 DEF ClickStep, resetBubble, requeueRow, clearFrequencyCapSend, removeJob,
         addRetryJob, ClickAt
    <2>2. PICK m \in Bubbles : m = click[c].of
      BY <1>1, <2>1 DEF IdleClick, ClickRecs
    <2>3. request'[m] # "none"
      BY <2>1, <2>2 DEF NothingBeforeRequest, ClickAt
    <2> QED
      BY <1>5, <2>2, <2>3, ClickIsAboutIt, NothingElsewhere
  <1>6. ASSUME NEW c \in Clicks, NEW m \in Bubbles, checkFailed(c, m)
        PROVE  NothingBeforeRequest'
    <2>1. request'[m] # "none"
      BY <1>6 DEF checkFailed, NothingBeforeRequest
    <2> QED
      BY <1>6, <2>1, ClickIsAboutIt, NothingElsewhere
  <1>7. expireOrder \/ expireCap \/ recordOtherSend => NothingBeforeRequest'
    BY DEF expireOrder, expireCap, recordOtherSend, requestVars, outboxHistory, NothingBeforeRequest, JobAt, ClickAt
  <1>8. ASSUME NEW ch \in changes, applyChange(ch)
        PROVE  NothingBeforeRequest'
    <2>1. PICK m \in Bubbles : m = ch[1] /\ About(m)
      BY <1>8, ChangeIsAboutIt
    <2>2. taken[m] > 0 /\ UNCHANGED request
      BY <1>8, <2>1 DEF ShownWasTaken, applyChange, requestVars
    <2>3. request'[m] # "none"
      BY <1>1, <2>2 DEF NothingBeforeRequest
    <2> QED
      BY <2>1, <2>3, NothingElsewhere
  <1> QED
    BY <1>2, <1>3, <1>4, <1>5, <1>6, <1>7, <1>8, NoFault
(***************************************************************************)
(* A row is being processed only by a worker that will settle it           *)
(***************************************************************************)
LEMMA ProcessingElsewhere ==
  ASSUME OutboxTypeOK, ProcessingIsAtWork, NEW m \in Bubbles, About(m),
         row'[m] = "processing" => SettlesRow(m)'
  PROVE  ProcessingIsAtWork'
  <1> SUFFICES ASSUME NEW n \in Bubbles, n # m, row'[n] = "processing"
               PROVE  SettlesRow(n)'
    BY DEF ProcessingIsAtWork
  <1>1. row'[n] = row[n] /\ job'[n] = job[n]
    BY DEF About
  <1>2. SettlesRow(n)
    BY <1>1 DEF ProcessingIsAtWork
  <1> QED
    BY <1>1, <1>2 DEF SettlesRow, JobAt

\* A row is 'processing' only while a job is at work that will settle it.
LEMMA ProcessingKept ==
  ASSUME OutboxTypeOK, ErrorIsNew, ProcessingIsAtWork, OutboxNext, outboxFaults' = 0
  PROVE  ProcessingIsAtWork'
  <1>1. /\ row \in [Bubbles -> RowStates] /\ job \in [Bubbles -> JobRecs]
        /\ click \in [Clicks -> {IdleClick} \cup ClickRecs]
    BY DEF OutboxTypeOK, RowStates, JobRecs, ClickRecs
  <1> DEFINE Settled(m) == row'[m] = "processing" => SettlesRow(m)'
  <1>2. \A m \in Bubbles : row[m] = "processing" => SettlesRow(m)
    BY DEF ProcessingIsAtWork
  <1>3. ASSUME NEW m \in Bubbles, WorkerStep(m)
        PROVE  ProcessingIsAtWork'
    <2>1. CASE startJob(m) \/ takeOrder(m) \/ evaluatePolicy(m) \/ deferRow(m) \/ moveToDelayed(m)
      <3>1. Settled(m)
        BY <1>1, <1>2, <2>1 DEF startJob, takeOrder, evaluatePolicy, deferRow, moveToDelayed,
           JobAt, JobTo, SetRow, JobRecs, SettlesRow
      <3> QED
        BY <1>3, <3>1, WorkerIsAboutIt, ProcessingElsewhere
    <2>2. CASE dispatchTemplateMessage(m)
      <3>1. \A e \in Outcomes \ {"sent"} : e # "none"
        BY OutboxAssumption
      <3>2. Settled(m)
        BY <1>1, <1>2, <2>2, <3>1 DEF dispatchTemplateMessage, JobAt, JobTo, JobRecs, SettlesRow
      <3> QED
        BY <1>3, <3>2, WorkerIsAboutIt, ProcessingElsewhere
    <2>3. CASE trackOutboundMessage(m) \/ recordFrequencyCapSend(m) \/ completeRow(m)
               \/ attachConversationProviderMessageId(m)
      <3>1. Settled(m)
        BY <1>1, <1>2, <2>3 DEF trackOutboundMessage, recordFrequencyCapSend, completeRow, RowSent,
           attachConversationProviderMessageId, JobAt, JobTo, SetRow, JobRecs, SettlesRow
      <3> QED
        BY <1>3, <3>1, WorkerIsAboutIt, ProcessingElsewhere
    <2>4. CASE readOrder(m) \/ deleteOrder(m) \/ retryJob(m) \/ failJob(m)
               \/ flipPendingMessage(m) \/ endJob(m)
      <3>1. Settled(m)
        BY <1>1, <1>2, <2>4 DEF readOrder, deleteOrder, AfterUnlock, retryJob, failJob,
           flipPendingMessage, endJob, IdleJob, JobAt, JobTo, SetRow, JobRecs, SettlesRow
      <3> QED
        BY <1>3, <3>1, WorkerIsAboutIt, ProcessingElsewhere
    <2> QED
      BY <1>3, <2>1, <2>2, <2>3, <2>4 DEF WorkerStep
  <1>4. ASSUME NEW m \in Bubbles, SettlesRow(m) => SettlesRow(m)', UNCHANGED row, About(m)
        PROVE  ProcessingIsAtWork'
    BY <1>2, <1>4, ProcessingElsewhere
  <1>5. ASSUME NEW m \in Bubbles, AddJob(m)
        PROVE  SettlesRow(m) => SettlesRow(m)'
    BY <1>1, <1>5 DEF AddJob, Pending, Started, SettlesRow, JobAt
  <1>6. ASSUME NEW m \in Bubbles,
               \/ insertOutboundMessage(m) \/ RequestStep(m) \/ requeueStaleRow(m)
               \/ reconcileRow(m) \/ selectByWamid(m)
        PROVE  ProcessingIsAtWork'
    <2>1. CASE insertOutboundMessage(m) \/ requeueStaleRow(m)
      <3>1. row'[m] = "queued"
        BY <1>1, <2>1 DEF insertOutboundMessage, requeueStaleRow, SetRow
      <3> QED
        BY <1>6, <3>1, MessageIsAboutIt, ProcessingElsewhere
    <2>2. CASE RequestStep(m) \/ reconcileRow(m) \/ selectByWamid(m)
      <3>1. UNCHANGED row /\ (AddJob(m) \/ UNCHANGED job)
        BY <2>2 DEF RequestStep, enqueueOutboundJob, trackQueuedConversationTemplateMessage,
           trackReply, reconcileRow, selectByWamid
      <3>2. SettlesRow(m) => SettlesRow(m)'
        BY <1>5, <3>1 DEF SettlesRow, JobAt
      <3> QED
        BY <1>4, <1>6, <3>1, <3>2, MessageIsAboutIt
    <2> QED
      BY <1>6, <2>1, <2>2
  <1>7. ASSUME NEW c \in Clicks, ClickStep(c)
        PROVE  ProcessingIsAtWork'
    <2>1. click[c].pc # "idle"
      BY <1>7 DEF ClickStep, resetBubble, requeueRow, clearFrequencyCapSend, removeJob,
         addRetryJob, ClickAt
    <2>2. PICK m \in Bubbles : m = click[c].of
      BY <1>1, <2>1 DEF IdleClick, ClickRecs
    <2>3. CASE requeueRow(c)
      <3>1. row'[m] = "queued"
        BY <1>1, <2>2, <2>3 DEF requeueRow, SetRow
      <3> QED
        BY <1>7, <2>2, <3>1, ClickIsAboutIt, ProcessingElsewhere
    <2>4. CASE resetBubble(c) \/ clearFrequencyCapSend(c) \/ removeJob(c) \/ addRetryJob(c)
      <3>1. UNCHANGED row
        BY <2>4 DEF resetBubble, clearFrequencyCapSend, removeJob, addRetryJob
      <3>2. AddJob(m) \/ UNCHANGED job \/ ~Started(job[m].pc)
        BY <2>2, <2>4 DEF resetBubble, clearFrequencyCapSend, removeJob, addRetryJob
      <3>3. SettlesRow(m) => SettlesRow(m)'
        BY <1>5, <3>2 DEF SettlesRow, JobAt, Started
      <3> QED
        BY <1>4, <1>7, <2>2, <3>1, <3>3, ClickIsAboutIt
    <2> QED
      BY <1>7, <2>3, <2>4 DEF ClickStep
  <1>8. ASSUME UNCHANGED <<row, job>>
        PROVE  ProcessingIsAtWork'
    BY <1>8 DEF ProcessingIsAtWork, SettlesRow, JobAt
  <1>9. ASSUME expireOrder \/ expireCap \/ recordOtherSend \/ (\E ch \in changes : applyChange(ch))
               \/ \E c \in Clicks, m \in Bubbles : checkFailed(c, m)
        PROVE  ProcessingIsAtWork'
    BY <1>8, <1>9 DEF expireOrder, expireCap, recordOtherSend, applyChange, checkFailed
  <1> QED
    BY <1>3, <1>6, <1>7, <1>9, NoFault
(***************************************************************************)
(* A message is sent once for every time the user asked for it             *)
(***************************************************************************)
LEMMA Counts ==
  /\ \A S \in SUBSET Clicks : IsFiniteSet(S) /\ Cardinality(S) \in Nat
  /\ \A c \in Clicks, S \in SUBSET Clicks :
       /\ c \notin S => Cardinality(S \cup {c}) = Cardinality(S) + 1
       /\ c \in S => Cardinality(S \ {c}) = Cardinality(S) - 1
  <1>1. \A S \in SUBSET Clicks : IsFiniteSet(S) /\ Cardinality(S) \in Nat
    BY OutboxAssumption, FS_Subset, FS_CardinalityType
  <1> QED
    BY <1>1, FS_AddElement, FS_RemoveElement

\* No more was taken of a message, and may still be, than was asked for.
Settled(m) == taken[m] + SendsAhead(m) <= 1 + bubble[m].retries
EachSettled == \A m \in Bubbles : Settled(m)

\* A step about one message leaves the account of the sends of the others alone.
LEMMA SendsElsewhere ==
  ASSUME OutboxTypeOK, EachSettled, NEW m \in Bubbles, About(m), Settled(m)'
  PROVE  EachSettled'
  <1> SUFFICES ASSUME NEW n \in Bubbles, n # m
               PROVE  Settled(n)'
    BY DEF EachSettled, Settled
  <1>1. /\ request'[n] = request[n] /\ row'[n] = row[n] /\ job'[n] = job[n]
        /\ bubble'[n] = bubble[n] /\ taken'[n] = taken[n]
    BY DEF About
  <1>2. \A c \in Clicks : click'[c] = click[c] \/ (IsOf(click[c], m) /\ IsOf(click'[c], m))
    BY DEF About
  <1>3. RetriesOf(n)' = RetriesOf(n)
    BY <1>2 DEF RetriesOf, IsOf
  <1>4. Retrying(n)' <=> Retrying(n)
    BY <1>2 DEF Retrying, IsOf
  <1>5. RequestMaySend(n)' <=> RequestMaySend(n)
    BY <1>1 DEF RequestMaySend, Requesting
  <1>6. JobMaySend(n)' <=> JobMaySend(n)
    BY <1>1 DEF JobMaySend, JobAt
  <1>7. RowMaySend(n)' <=> RowMaySend(n)
    BY <1>1, <1>4, <1>5, <1>6 DEF RowMaySend
  <1>8. SendsAhead(n)' = SendsAhead(n)
    BY <1>3, <1>5, <1>6, <1>7 DEF SendsAhead, One
  <1> QED
    BY <1>1, <1>8 DEF EachSettled, Settled

\* The arithmetic of that account.
LEMMA Adds ==
  ASSUME NEW t \in Nat, NEW u \in Nat, NEW k \in Nat, NEW l \in Nat, NEW a \in Nat, NEW b \in Nat,
         t + (a + k) <= 1 + u, b + l <= a + k
  PROVE  t + (b + l) <= 1 + u
  OBVIOUS

\* A step that neither sends nor retries keeps the account when what may be
\* sent after it could be sent before.
Calm(m) ==
  /\ taken'[m] = taken[m] /\ bubble'[m].retries = bubble[m].retries
  /\ RetriesOf(m)' = RetriesOf(m)
  /\ RequestMaySend(m)' => RequestMaySend(m)
  /\ JobMaySend(m)' \/ RowMaySend(m)' =>
       JobMaySend(m) \/ RowMaySend(m) \/ (RequestMaySend(m) /\ ~RequestMaySend(m)')

\* A calm step keeps the account.
LEMMA SendsCalm ==
  ASSUME OutboxTypeOK, EachSettled, NEW m \in Bubbles, About(m), Calm(m)
  PROVE  EachSettled'
  <1> DEFINE k == Cardinality(RetriesOf(m))
             a == One(RequestMaySend(m)) + One(JobMaySend(m)) + One(RowMaySend(m))
  <1>1. /\ k \in Nat /\ k' = k
    BY Counts DEF RetriesOf, Calm
  <1>2. a \in Nat /\ a' \in Nat
    BY DEF One
  <1>3. ~(JobMaySend(m)' /\ RowMaySend(m)')
    BY DEF RowMaySend
  <1>4. a' <= a
    BY <1>3 DEF Calm, One
  <1>5. /\ taken[m] \in Nat /\ taken'[m] = taken[m] /\ bubble'[m].retries = bubble[m].retries
        /\ bubble[m].retries \in Nat
    BY DEF Calm, OutboxTypeOK
  <1>6. taken[m] + (a + k) <= 1 + bubble[m].retries
    BY <1>1 DEF EachSettled, Settled, SendsAhead, One
  <1> HIDE DEF k, a
  <1>7. taken'[m] + (a' + k') <= 1 + bubble'[m].retries
    BY <1>1, <1>2, <1>4, <1>5, <1>6, Adds
  <1>8. Settled(m)'
    BY <1>1, <1>7 DEF k, a, Settled, SendsAhead, One
  <1> QED
    BY <1>8, SendsElsewhere

\* A retry that gives its turn to the queue.
LEMMA SendsHandedOver ==
  ASSUME OutboxTypeOK, EachSettled, NEW m \in Bubbles, About(m), NEW c \in Clicks,
         taken'[m] = taken[m], bubble'[m].retries = bubble[m].retries,
         c \in RetriesOf(m), RetriesOf(m)' = RetriesOf(m) \ {c},
         RequestMaySend(m)' => RequestMaySend(m)
  PROVE  EachSettled'
  <1> DEFINE k == Cardinality(RetriesOf(m))
             a == One(RequestMaySend(m)) + One(JobMaySend(m)) + One(RowMaySend(m))
  <1>1. /\ k \in Nat /\ k' = k - 1
    BY Counts DEF RetriesOf
  <1>2. a \in Nat /\ a' \in Nat
    BY DEF One
  <1>3. ~(JobMaySend(m)' /\ RowMaySend(m)')
    BY DEF RowMaySend
  <1>4. a' <= a + 1
    BY <1>3 DEF One
  <1>5. /\ taken[m] \in Nat /\ taken'[m] = taken[m] /\ bubble'[m].retries = bubble[m].retries
        /\ bubble[m].retries \in Nat
    BY DEF OutboxTypeOK
  <1>6. taken[m] + (a + k) <= 1 + bubble[m].retries
    BY <1>1 DEF EachSettled, Settled, SendsAhead, One
  <1> HIDE DEF k, a
  <1>7. taken'[m] + (a' + k') <= 1 + bubble'[m].retries
    BY <1>1, <1>2, <1>4, <1>5, <1>6, Adds
  <1>8. Settled(m)'
    BY <1>1, <1>7 DEF k, a, Settled, SendsAhead, One
  <1> QED
    BY <1>8, SendsElsewhere
\* A worker sends what its job still owes, and hands on what it does not.
LEMMA WorkerSends ==
  ASSUME OutboxTypeOK, ErrorIsNew, EachSettled, NEW m \in Bubbles, WorkerStep(m)
  PROVE  EachSettled'
  <1>1. /\ bubble \in [Bubbles -> BubbleRecs] /\ row \in [Bubbles -> RowStates]
        /\ job \in [Bubbles -> JobRecs] /\ taken \in [Bubbles -> Nat]
    BY DEF OutboxTypeOK, BubbleRecs, RowStates, JobRecs
  <1>2. UNCHANGED <<request, click>> /\ About(m)
    BY WorkerTypes, WorkerIsAboutIt DEF requestVars
  <1>3. /\ RetriesOf(m)' = RetriesOf(m) /\ (Retrying(m)' <=> Retrying(m))
        /\ RequestMaySend(m)' <=> RequestMaySend(m)
    BY <1>2 DEF RetriesOf, Retrying, RequestMaySend, Requesting
  <1> DEFINE Same == taken'[m] = taken[m] /\ bubble'[m].retries = bubble[m].retries
             Owes == JobMaySend(m) \/ RowMaySend(m)
  <1>4. ASSUME Same, Owes' => Owes
        PROVE  EachSettled'
    BY <1>2, <1>3, <1>4, SendsCalm DEF Calm
  <1>5. CASE startJob(m) \/ takeOrder(m) \/ evaluatePolicy(m) \/ deferRow(m) \/ moveToDelayed(m)
             \/ retryJob(m) \/ failJob(m)
    <2>1. Same
      BY <1>5 DEF startJob, takeOrder, evaluatePolicy, deferRow, moveToDelayed, retryJob, failJob,
         outboxHistory
    <2>2. JobMaySend(m)
      BY <1>5 DEF startJob, takeOrder, evaluatePolicy, deferRow, moveToDelayed, retryJob, failJob,
         JobAt, JobMaySend
    <2> QED
      BY <1>4, <2>1, <2>2
  <1>6. CASE dispatchTemplateMessage(m)
    <2>1. JobMaySend(m) /\ UNCHANGED <<bubble, row>>
      BY <1>6 DEF dispatchTemplateMessage, JobAt, JobMaySend
    <2>2. CASE UNCHANGED taken
      BY <1>4, <2>1, <2>2
    <2>3. CASE /\ taken' = [taken EXCEPT ![m] = @ + 1]
               /\ JobTo(m, IF m \in Templates THEN "accepted" ELSE "complete")
      <3>1. taken[m] \in Nat /\ taken'[m] = taken[m] + 1 /\ job'[m].pc \in {"accepted", "complete"}
        BY <1>1, <2>3 DEF JobTo, JobRecs
      <3>2. ~JobMaySend(m)' /\ ~RowMaySend(m)'
        BY <3>1 DEF JobMaySend, RowMaySend, JobAt
      <3> DEFINE k == Cardinality(RetriesOf(m))
                 a == One(RequestMaySend(m))
      <3>3. k \in Nat /\ k' = k /\ a \in Nat /\ a' = a
        BY <1>3, Counts DEF RetriesOf, One
      <3>4. /\ SendsAhead(m)' = a' + k'
            /\ SendsAhead(m) >= a + k + 1
        BY <2>1, <3>2, <3>3 DEF SendsAhead, One
      <3>5. taken[m] + SendsAhead(m) <= 1 + bubble[m].retries
        BY DEF EachSettled, Settled
      <3>6. bubble[m].retries \in Nat /\ bubble'[m].retries = bubble[m].retries
        BY <1>1, <2>1 DEF BubbleRecs
      <3>7. SendsAhead(m) \in Int /\ SendsAhead(m)' \in Int
        BY <3>2, <3>3, <3>4 DEF SendsAhead, One
      <3> HIDE DEF k, a
      <3>8. Settled(m)'
        BY <3>1, <3>3, <3>4, <3>5, <3>6, <3>7 DEF Settled
      <3> QED
        BY <1>2, <3>8, SendsElsewhere
    <2> QED
      BY <1>6, <2>2, <2>3 DEF dispatchTemplateMessage
  <1>7. CASE trackOutboundMessage(m) \/ recordFrequencyCapSend(m)
    <2>1. Same
      BY <1>1, <1>7 DEF trackOutboundMessage, recordFrequencyCapSend, BubbleRecs, outboxHistory
    <2>2. job'[m].pc \in {"tracked", "complete"}
      BY <1>1, <1>7 DEF trackOutboundMessage, recordFrequencyCapSend, JobTo, JobRecs
    <2>3. ~Owes'
      BY <2>2 DEF JobMaySend, RowMaySend, JobAt
    <2> QED
      BY <1>4, <2>1, <2>3
  <1>8. CASE completeRow(m)
    <2>1. Same /\ row'[m] = "completed"
      BY <1>1, <1>8 DEF completeRow, SetRow, RowSent, outboxHistory
    <2>2. job'[m].pc \in {"unlock", "attach"} /\ job'[m].error = "none"
      BY <1>1, <1>8 DEF completeRow, JobAt, JobTo, JobRecs, ErrorIsNew
    <2>3. ~Owes'
      BY <2>1, <2>2 DEF JobMaySend, RowMaySend, JobAt
    <2> QED
      BY <1>4, <2>1, <2>3
  <1>9. CASE attachConversationProviderMessageId(m)
    <2>1. Same /\ UNCHANGED row
      BY <1>1, <1>9 DEF attachConversationProviderMessageId, BubbleRecs, outboxHistory
    <2>2. job[m].pc = "attach" /\ job'[m].pc = "unlock" /\ job'[m].error = "none"
      BY <1>1, <1>9 DEF attachConversationProviderMessageId, JobAt, JobTo, JobRecs, ErrorIsNew
    <2>3. ~JobMaySend(m)' /\ ~JobMaySend(m)
      BY <2>2 DEF JobMaySend, JobAt
    <2>4. RowMaySend(m)' => RowMaySend(m)
      BY <1>3, <2>1, <2>2, <2>3 DEF RowMaySend
    <2> QED
      BY <1>4, <2>1, <2>3, <2>4
  <1>10. CASE (readOrder(m) \/ deleteOrder(m)) /\ job[m].error # "none"
    <2>1. Same /\ JobMaySend(m)
      BY <1>10 DEF readOrder, deleteOrder, JobAt, JobMaySend, outboxHistory
    <2> QED
      BY <1>4, <2>1
  <1>11. CASE \/ (readOrder(m) \/ deleteOrder(m)) /\ job[m].error = "none"
              \/ flipPendingMessage(m) \/ endJob(m)
    <2>1. Same /\ UNCHANGED row
      BY <1>1, <1>11 DEF readOrder, deleteOrder, flipPendingMessage, endJob, SetBubble, BubbleRecs,
         outboxHistory
    <2>2. /\ job[m].pc \in {"unlock", "delete", "flip", "end"}
          /\ job'[m].pc \in {"delete", "end", "done"}
          /\ job[m].pc \in {"unlock", "delete"} => job[m].error = "none"
          /\ job'[m].pc = "delete" => job'[m].error = "none"
      BY <1>1, <1>11 DEF readOrder, deleteOrder, AfterUnlock, flipPendingMessage, endJob, IdleJob,
         JobAt, JobTo, JobRecs
    <2>3. ~JobMaySend(m)' /\ ~JobMaySend(m)
      BY <2>2 DEF JobMaySend, JobAt
    <2>4. RowMaySend(m)' => RowMaySend(m)
      BY <1>3, <2>1, <2>2, <2>3 DEF RowMaySend
    <2> QED
      BY <1>4, <2>1, <2>3, <2>4
  <1> QED
    BY <1>5, <1>6, <1>7, <1>8, <1>9, <1>10, <1>11 DEF WorkerStep

\* A request and the reconciler hand on what they owe.
LEMMA MessageSends ==
  ASSUME OutboxTypeOK, NothingBeforeRequest, ProcessingIsAtWork, EachSettled, NEW m \in Bubbles,
         \/ insertOutboundMessage(m) \/ RequestStep(m)
         \/ requeueStaleRow(m) /\ ~Started(job[m].pc)
         \/ reconcileRow(m) /\ LeftToReconciler(m)
         \/ selectByWamid(m)
  PROVE  EachSettled'
  <1>1. /\ bubble \in [Bubbles -> BubbleRecs] /\ row \in [Bubbles -> RowStates]
        /\ job \in [Bubbles -> JobRecs] /\ taken \in [Bubbles -> Nat]
        /\ request \in [Bubbles -> {"none", "track", "enqueue", "done"}]
    BY DEF OutboxTypeOK, BubbleRecs, RowStates, JobRecs
  <1>2. About(m)
    BY MessageIsAboutIt
  <1>3. UNCHANGED <<click, taken>>
    BY DEF insertOutboundMessage, RequestStep, enqueueOutboundJob, trackReply,
       trackQueuedConversationTemplateMessage, requeueStaleRow, reconcileRow, selectByWamid,
       requestVars, outboxHistory
  <1>4. bubble'[m].retries = bubble[m].retries
    BY <1>1 DEF insertOutboundMessage, RequestStep, enqueueOutboundJob, trackReply,
       trackQueuedConversationTemplateMessage, requeueStaleRow, reconcileRow, selectByWamid,
       SetBubble, BubbleRecs
  <1>5. RetriesOf(m)' = RetriesOf(m) /\ (Retrying(m)' <=> Retrying(m))
    BY <1>3 DEF RetriesOf, Retrying
  <1>6. ASSUME RequestMaySend(m)' => RequestMaySend(m),
               JobMaySend(m)' \/ RowMaySend(m)' =>
                 JobMaySend(m) \/ RowMaySend(m) \/ (RequestMaySend(m) /\ ~RequestMaySend(m)')
        PROVE  EachSettled'
    BY <1>2, <1>3, <1>4, <1>5, <1>6, SendsCalm DEF Calm
  <1>7. CASE insertOutboundMessage(m)
    <2>1. /\ request[m] = "none" /\ UNCHANGED job
          /\ request'[m] = IF m \in Templates THEN "track" ELSE "enqueue"
      BY <1>1, <1>7 DEF insertOutboundMessage, RequestTo
    <2>2. RequestMaySend(m) /\ RequestMaySend(m)'
      BY <2>1 DEF RequestMaySend, Requesting
    <2>3. ~RowMaySend(m)' /\ (JobMaySend(m)' => JobMaySend(m))
      BY <2>1, <2>2 DEF RowMaySend, JobMaySend, JobAt
    <2> QED
      BY <1>6, <2>2, <2>3
  <1>8. CASE trackQueuedConversationTemplateMessage(m)
    <2>1. /\ request[m] = "track" /\ m \in Templates /\ UNCHANGED job /\ request'[m] = "enqueue"
      BY <1>1, <1>8 DEF trackQueuedConversationTemplateMessage, RequestTo
    <2>2. RequestMaySend(m) /\ RequestMaySend(m)'
      BY <2>1 DEF RequestMaySend, Requesting
    <2>3. ~RowMaySend(m)' /\ (JobMaySend(m)' => JobMaySend(m))
      BY <2>1, <2>2 DEF RowMaySend, JobMaySend, JobAt
    <2> QED
      BY <1>6, <2>2, <2>3
  <1>9. CASE enqueueOutboundJob(m)
    <2>1. request[m] = "enqueue" /\ request'[m] = IF m \in Templates THEN "done" ELSE "track"
      BY <1>1, <1>9 DEF enqueueOutboundJob, RequestTo
    <2>2. RequestMaySend(m) /\ ~RequestMaySend(m)'
      BY <2>1 DEF RequestMaySend, Requesting
    <2> QED
      BY <1>6, <2>2
  <1>10. CASE trackReply(m)
    <2>1. /\ request[m] = "track" /\ m \notin Templates /\ UNCHANGED <<job, row>>
          /\ request'[m] = "done"
      BY <1>1, <1>10 DEF trackReply, RequestTo
    <2>2. ~RequestMaySend(m) /\ ~RequestMaySend(m)'
      BY <2>1 DEF RequestMaySend, Requesting
    <2>3. /\ JobMaySend(m)' <=> JobMaySend(m)
          /\ RowMaySend(m)' => RowMaySend(m)
      BY <1>5, <2>1, <2>2 DEF RowMaySend, JobMaySend, JobAt
    <2> QED
      BY <1>6, <2>2, <2>3
  <1>11. CASE requeueStaleRow(m) /\ ~Started(job[m].pc)
    <2>1. SettlesRow(m)
      BY <1>11 DEF requeueStaleRow, ProcessingIsAtWork
    <2> QED
      BY <1>11, <2>1 DEF SettlesRow, Started, JobAt
  <1>12. CASE reconcileRow(m) /\ LeftToReconciler(m)
    <2>1. /\ row[m] = "queued" /\ ~Requesting(m) /\ ~Retrying(m)
          /\ ~Pending(job[m].pc) /\ UNCHANGED request
      BY <1>12 DEF reconcileRow, LeftToReconciler, JobMissing, requestVars
    <2>2. request[m] # "none"
      BY <2>1 DEF NothingBeforeRequest
    <2>3. ~RequestMaySend(m) /\ ~RequestMaySend(m)'
      BY <2>1, <2>2 DEF RequestMaySend, Requesting
    <2>4. ~JobMaySend(m) /\ job[m].pc \notin {"accepted", "tracked", "complete"}
      BY <2>1 DEF Pending, Started, JobMaySend, JobAt
    <2>5. RowMaySend(m)
      BY <2>1, <2>3, <2>4 DEF RowMaySend
    <2> QED
      BY <1>6, <2>3, <2>5
  <1>13. CASE selectByWamid(m)
    <2>1. UNCHANGED <<row, job, request>>
      BY <1>13 DEF selectByWamid, requestVars
    <2>2. RequestMaySend(m)' <=> RequestMaySend(m)
      BY <2>1 DEF RequestMaySend, Requesting
    <2>3. /\ JobMaySend(m)' <=> JobMaySend(m)
          /\ RowMaySend(m)' => RowMaySend(m)
      BY <1>5, <2>1, <2>2 DEF RowMaySend, JobMaySend, JobAt
    <2> QED
      BY <1>6, <2>2, <2>3
  <1> QED
    BY <1>7, <1>8, <1>9, <1>10, <1>11, <1>12, <1>13 DEF RequestStep
\* A click is counted from the moment it has reset its bubble, and hands its
\* turn to the job it adds or to the worker it finds.
LEMMA ClickSends ==
  ASSUME OutboxTypeOK, EachSettled, NEW c \in Clicks,
         ClickStep(c) \/ \E m \in Bubbles : checkFailed(c, m)
  PROVE  EachSettled'
  <1>1. /\ bubble \in [Bubbles -> BubbleRecs] /\ row \in [Bubbles -> RowStates]
        /\ job \in [Bubbles -> JobRecs] /\ taken \in [Bubbles -> Nat]
        /\ click \in [Clicks -> {IdleClick} \cup ClickRecs]
    BY DEF OutboxTypeOK, BubbleRecs, RowStates, JobRecs, ClickRecs
  <1>2. UNCHANGED <<request, taken>>
    BY DEF ClickStep, resetBubble, requeueRow, clearFrequencyCapSend, removeJob, addRetryJob,
       checkFailed, outboxHistory
  <1>3. \A m \in Bubbles : RequestMaySend(m)' <=> RequestMaySend(m)
    BY <1>2 DEF RequestMaySend, Requesting
  <1>4. ASSUME NEW m \in Bubbles, checkFailed(c, m)
        PROVE  EachSettled'
    <2>1. /\ UNCHANGED <<bubble, row, job>> /\ click[c].pc = "idle"
          /\ click' = [click EXCEPT ![c] = [pc |-> "reset", of |-> m]]
      BY <1>4 DEF checkFailed, ClickAt
    <2>2. RetriesOf(m)' = RetriesOf(m) /\ (Retrying(m)' <=> Retrying(m))
      BY <1>1, <2>1 DEF RetriesOf, Retrying
    <2>3. /\ JobMaySend(m)' <=> JobMaySend(m)
          /\ RowMaySend(m)' => RowMaySend(m)
      BY <1>3, <2>1, <2>2 DEF RowMaySend, JobMaySend, JobAt
    <2> QED
      BY <1>2, <1>3, <1>4, <2>1, <2>2, <2>3, ClickIsAboutIt, SendsCalm DEF Calm
  <1>5. ASSUME ClickStep(c)
        PROVE  EachSettled'
    <2>1. click[c].pc # "idle"
      BY <1>5 DEF ClickStep, resetBubble, requeueRow, clearFrequencyCapSend, removeJob,
         addRetryJob, ClickAt
    <2>2. PICK m \in Bubbles : m = click[c].of
      BY <1>1, <2>1 DEF IdleClick, ClickRecs
    <2>3. About(m)
      BY <1>5, <2>2, ClickIsAboutIt
    <2>4. ASSUME NEW pc, ClickTo(c, pc)
          PROVE  /\ \A d \in Clicks \ {c} : click'[d] = click[d]
                 /\ click'[c].pc = pc /\ click'[c].of = m
      BY <1>1, <2>1, <2>2, <2>4 DEF ClickTo, IdleClick, ClickRecs
    <2>5. ASSUME Return(c), c \in RetriesOf(m), UNCHANGED bubble
          PROVE  EachSettled'
      <3>1. RetriesOf(m)' = RetriesOf(m) \ {c}
        BY <1>1, <2>5 DEF Return, IdleClick, RetriesOf
      <3> QED
        BY <1>2, <1>3, <2>3, <2>5, <3>1, SendsHandedOver
    <2>6. CASE resetBubble(c)
      <3>1. /\ click[c].pc = "reset" /\ UNCHANGED <<row, job>> /\ ClickTo(c, "requeue")
            /\ bubble[m].retries \in Nat /\ bubble'[m].retries = bubble[m].retries + 1
        BY <1>1, <2>2, <2>6 DEF resetBubble, ClickAt, BubbleRecs
      <3>2. RetriesOf(m)' = RetriesOf(m) \cup {c} /\ c \notin RetriesOf(m)
        BY <2>2, <2>4, <3>1 DEF RetriesOf
      <3>3. Retrying(m)' <=> Retrying(m)
        BY <2>2, <2>4, <3>1 DEF Retrying
      <3>4. JobMaySend(m)' <=> JobMaySend(m)
        BY <3>1 DEF JobMaySend, JobAt
      <3>5. RowMaySend(m)' <=> RowMaySend(m)
        BY <1>3, <3>1, <3>3, <3>4 DEF RowMaySend, JobAt
      <3>6. Cardinality(RetriesOf(m)) \in Nat /\ Cardinality(RetriesOf(m)') = Cardinality(RetriesOf(m)) + 1
        BY <3>2, Counts DEF RetriesOf
      <3>7. SendsAhead(m)' = SendsAhead(m) + 1 /\ SendsAhead(m) \in Nat
        BY <1>3, <3>4, <3>5, <3>6 DEF SendsAhead, One
      <3>8. taken[m] + SendsAhead(m) <= 1 + bubble[m].retries /\ taken[m] \in Nat /\ taken'[m] = taken[m]
        BY <1>1, <1>2 DEF EachSettled, Settled
      <3>9. Settled(m)'
        BY <3>1, <3>7, <3>8 DEF Settled
      <3> QED
        BY <2>3, <3>9, SendsElsewhere
    <2>7. CASE requeueRow(c)
      <3>1. /\ click[c].pc = "requeue" /\ UNCHANGED <<bubble, job>>
            /\ \E pc \in {"clear", "remove"} : ClickTo(c, pc)
        BY <2>7 DEF requeueRow, ClickAt
      <3>2. RetriesOf(m)' = RetriesOf(m) /\ Retrying(m)'
        BY <2>2, <2>4, <3>1 DEF RetriesOf, Retrying
      <3>3. ~RowMaySend(m)' /\ (JobMaySend(m)' <=> JobMaySend(m))
        BY <3>1, <3>2 DEF RowMaySend, JobMaySend, JobAt
      <3> QED
        BY <1>2, <1>3, <2>3, <3>1, <3>2, <3>3, SendsCalm DEF Calm
    <2>8. CASE clearFrequencyCapSend(c)
      <3>1. click[c].pc = "clear" /\ UNCHANGED <<bubble, row, job>> /\ ClickTo(c, "remove")
        BY <2>8 DEF clearFrequencyCapSend, ClickAt
      <3>2. RetriesOf(m)' = RetriesOf(m) /\ Retrying(m)'
        BY <2>2, <2>4, <3>1 DEF RetriesOf, Retrying
      <3>3. ~RowMaySend(m)' /\ (JobMaySend(m)' <=> JobMaySend(m))
        BY <3>1, <3>2 DEF RowMaySend, JobMaySend, JobAt
      <3> QED
        BY <1>2, <1>3, <2>3, <3>1, <3>2, <3>3, SendsCalm DEF Calm
    <2>9. CASE removeJob(c) /\ Started(job[m].pc)
      <3>1. Return(c) /\ c \in RetriesOf(m) /\ UNCHANGED bubble
        BY <2>2, <2>9 DEF removeJob, ClickAt, RetriesOf
      <3> QED
        BY <2>5, <3>1
    <2>10. CASE removeJob(c) /\ ~Started(job[m].pc)
      <3>1. /\ click[c].pc = "remove" /\ UNCHANGED bubble /\ ClickTo(c, "add")
            /\ job'[m].pc = "none"
        BY <1>1, <2>2, <2>10 DEF removeJob, ClickAt, IdleJob
      <3>2. RetriesOf(m)' = RetriesOf(m) /\ Retrying(m)'
        BY <2>2, <2>4, <3>1 DEF RetriesOf, Retrying
      <3>3. ~RowMaySend(m)' /\ ~JobMaySend(m)'
        BY <3>1, <3>2 DEF RowMaySend, JobMaySend, JobAt
      <3> QED
        BY <1>2, <1>3, <2>3, <3>1, <3>2, <3>3, SendsCalm DEF Calm
    <2>11. CASE addRetryJob(c)
      <3>1. Return(c) /\ c \in RetriesOf(m) /\ UNCHANGED bubble
        BY <2>2, <2>11 DEF addRetryJob, ClickAt, RetriesOf
      <3> QED
        BY <2>5, <3>1
    <2> QED
      BY <1>5, <2>2, <2>6, <2>7, <2>8, <2>9, <2>10, <2>11 DEF ClickStep
  <1> QED
    BY <1>4, <1>5

\* Every step keeps it, as long as nothing fails between two statements and
\* the reconciler adds a job only for a row that is left to it.
LEMMA SendsKept ==
  ASSUME OutboxTypeOK, ErrorIsNew, NothingBeforeRequest, ProcessingIsAtWork, SendsAreAskedFor,
         OutboxNext, outboxFaults' = 0
  PROVE  SendsAreAskedFor'
  <1> SUFFICES ASSUME requeued' = 0
               PROVE  EachSettled'
    BY DEF SendsAreAskedFor, EachSettled, Settled
  <1>1. EachSettled
    BY FlagTypes DEF SendsAreAskedFor, EachSettled, Settled
  <1>2. ASSUME NEW ch \in changes, applyChange(ch)
        PROVE  EachSettled'
    <2>1. PICK m \in Bubbles : m = ch[1] /\ About(m)
      BY <1>2, ChangeIsAboutIt
    <2>2. UNCHANGED <<row, job, request, click, taken>> /\ bubble'[m].retries = bubble[m].retries
      BY <1>2, <2>1 DEF applyChange, SetBubble, requestVars, OutboxTypeOK
    <2>3. /\ RetriesOf(m)' = RetriesOf(m) /\ (Retrying(m)' <=> Retrying(m))
          /\ RequestMaySend(m)' <=> RequestMaySend(m)
          /\ JobMaySend(m)' <=> JobMaySend(m)
      BY <2>2 DEF RetriesOf, Retrying, RequestMaySend, Requesting, JobMaySend, JobAt
    <2>4. RowMaySend(m)' => RowMaySend(m)
      BY <2>2, <2>3 DEF RowMaySend
    <2> QED
      BY <1>1, <2>1, <2>2, <2>3, <2>4, SendsCalm DEF Calm
  <1>3. ASSUME expireOrder \/ expireCap \/ recordOtherSend
        PROVE  EachSettled'
    <2>1. UNCHANGED <<bubble, row, job, request, click, taken>>
      BY <1>3 DEF expireOrder, expireCap, recordOtherSend, requestVars, outboxHistory
    <2> QED
      BY <1>1, <2>1 DEF EachSettled, Settled, SendsAhead, RequestMaySend, Requesting, RetriesOf,
         JobMaySend, RowMaySend, Retrying, JobAt, One
  <1>4. ASSUME NEW m \in Bubbles, reconcileRow(m)
        PROVE  LeftToReconciler(m)
    <2>1. requeued \in Nat
      BY DEF OutboxTypeOK
    <2> QED
      BY <1>4, <2>1 DEF reconcileRow
  <1> QED
    BY <1>1, <1>2, <1>3, <1>4, NoFault, WorkerSends, MessageSends, ClickSends

\* It holds before the first request: each message may be sent once.
LEMMA SendsFromTheStart == OutboxInit => SendsAreAskedFor
  <1> SUFFICES ASSUME OutboxInit, NEW m \in Bubbles
               PROVE  Settled(m)
    BY DEF SendsAreAskedFor, Settled
  <1>1. /\ taken[m] = 0 /\ bubble[m].retries = 0 /\ request[m] = "none" /\ job[m].pc = "none"
        /\ \A c \in Clicks : click[c].pc = "idle"
    BY DEF OutboxInit, IdleJob, IdleClick
  <1>2. RequestMaySend(m) /\ ~JobMaySend(m) /\ ~RowMaySend(m) /\ RetriesOf(m) = {}
    BY <1>1 DEF RequestMaySend, Requesting, JobMaySend, RowMaySend, RetriesOf, JobAt
  <1>3. SendsAhead(m) = 1
    BY <1>2, FS_EmptySet DEF SendsAhead, One
  <1> QED
    BY <1>1, <1>3 DEF Settled

(***************************************************************************)
(* The inductive invariant                                                 *)
(***************************************************************************)
LEMMA OutboxInitInvariant == OutboxInit => OutboxInvariant
  <1> SUFFICES ASSUME OutboxInit
               PROVE  OutboxInvariant
    OBVIOUS
  <1>1. ShownWasTaken /\ ErrorIsNew
    BY OutboxAssumption DEF OutboxInit, ShownWasTaken, ErrorIsNew, IdleJob
  <1>2. OrderIsOwn /\ ClicksWait /\ CapIsKept
    BY OutboxAssumption
       DEF OutboxInit, OrderIsOwn, ClicksWait, CapIsKept, IdleJob, IdleClick, UnderOrder, JobAt
  <1>3. NothingBeforeRequest /\ ProcessingIsAtWork
    BY DEF OutboxInit, NothingBeforeRequest, ProcessingIsAtWork, IdleJob, IdleClick, JobAt, ClickAt
  <1> QED
    BY <1>1, <1>2, <1>3, OutboxInitTypes, SendsFromTheStart DEF OutboxInvariant

\* Every step keeps the invariant.
LEMMA OutboxNextInvariant == OutboxInvariant /\ [OutboxNext]_outboxVars => OutboxInvariant'
  <1>1. ASSUME OutboxInvariant, UNCHANGED outboxVars
        PROVE  OutboxInvariant'
    <2>1. UNCHANGED <<bubble, row, job, request, click, order, cap, changes, taken, capSends,
                      overtaken, requeued, orderLost, statuses, outboxFaults>>
      BY <1>1 DEF outboxVars, requestVars, outboxHistory, outboxBounds
    <2>2. OutboxTypeOK'
      BY <1>1, OutboxNextTypes DEF OutboxInvariant
    <2>3. ShownWasTaken' /\ ErrorIsNew'
      BY <1>1, <2>1 DEF OutboxInvariant, ShownWasTaken, ErrorIsNew
    <2>4. outboxFaults' = 0 => OrderIsOwn' /\ ClicksWait' /\ CapIsKept'
      BY <1>1, <2>1 DEF OutboxInvariant, OrderIsOwn, ClicksWait, CapIsKept, Unretried, JobAt
    <2>5. outboxFaults' = 0 => NothingBeforeRequest' /\ ProcessingIsAtWork'
      BY <1>1, <2>1
         DEF OutboxInvariant, NothingBeforeRequest, ProcessingIsAtWork, SettlesRow, JobAt, ClickAt
    <2>6. outboxFaults' = 0 => SendsAreAskedFor'
      BY <1>1, <2>1 DEF OutboxInvariant, SendsAreAskedFor, SendsAhead, RequestMaySend, Requesting,
         RetriesOf, JobMaySend, RowMaySend, Retrying, JobAt, One
    <2> QED
      BY <2>2, <2>3, <2>4, <2>5, <2>6 DEF OutboxInvariant
  <1>2. ASSUME OutboxInvariant, OutboxNext
        PROVE  OutboxInvariant'
    <2>1. OutboxTypeOK /\ ShownWasTaken /\ ErrorIsNew
      BY <1>2 DEF OutboxInvariant
    <2>2. OutboxTypeOK' /\ ShownWasTaken' /\ ErrorIsNew' /\ (outboxFaults' = 0 => outboxFaults = 0)
      BY <1>2, <2>1, OutboxNextTypes, NextShows, ErrorsStayNew, HistoryTypes
    <2>3. ASSUME outboxFaults' = 0
          PROVE  /\ OrderIsOwn' /\ ClicksWait' /\ CapIsKept'
                 /\ NothingBeforeRequest' /\ ProcessingIsAtWork' /\ SendsAreAskedFor'
      <3>1. /\ OrderIsOwn /\ ClicksWait /\ CapIsKept
            /\ NothingBeforeRequest /\ ProcessingIsAtWork /\ SendsAreAskedFor
        BY <1>2, <2>2, <2>3 DEF OutboxInvariant
      <3> QED
        BY <1>2, <2>1, <2>3, <3>1, OrderKept, ClicksKept, CapKept, NothingKept, ProcessingKept,
           SendsKept
    <2> QED
      BY <2>2, <2>3 DEF OutboxInvariant
  <1> QED
    BY <1>1, <1>2

\* The inductive invariant holds: whatever fails, what the inbox shows of a
\* template was taken by the provider; as long as nothing fails between two
\* statements, the lock has one owner until it runs out under a worker, the cap
\* is kept until then or until a retry clears it, and every send is accounted
\* for until the reconciler comes to a row that was not left to it.
THEOREM OutboxInvariantHolds == OutboxSpec => []OutboxInvariant
  BY OutboxInitInvariant, OutboxNextInvariant, PTL DEF OutboxSpec

\* What the inbox shows of a template is what the provider has taken of it,
\* so that a template that has failed for good is not shown as sent.
THEOREM FailedShown == OutboxSpec => []FailedTemplateIsShown
  <1>1. OutboxInvariant => FailedTemplateIsShown
    BY OutboxAssumption DEF OutboxInvariant, ShownWasTaken, FailedTemplateIsShown
  <1> QED
    BY <1>1, OutboxInvariantHolds, PTL

\* As long as nothing fails between two statements, no worker outlasts its
\* lock and no retry clears the cap, the frequency cap lets one template of the
\* conversation through at a time, whatever campaigns and sequences record.
THEOREM CapOnce == OutboxSpec => []CapLetsOneThrough
  <1>1. OutboxInvariant => CapLetsOneThrough
    BY DEF OutboxInvariant, CapIsKept, CapLetsOneThrough, Unretried
  <1> QED
    BY <1>1, OutboxInvariantHolds, PTL

\* As long as nothing fails between two statements and the reconciler adds a
\* job only for a row that is left to it, the provider takes a message once,
\* and once more for every retry the user asked for, however clicks, workers,
\* status events and the end of the lock overlap.
THEOREM SentPerRetry == OutboxSpec => []SentOncePerRetry
  <1>1. ASSUME OutboxInvariant, outboxFaults = 0, requeued = 0, NEW m \in Bubbles
        PROVE  taken[m] <= 1 + bubble[m].retries
    <2>1. taken[m] + SendsAhead(m) <= 1 + bubble[m].retries
      BY <1>1 DEF OutboxInvariant, SendsAreAskedFor
    <2>2. SendsAhead(m) \in Nat
      BY Counts DEF SendsAhead, One, RetriesOf
    <2>3. taken[m] \in Nat /\ bubble[m].retries \in Nat
      BY <1>1 DEF OutboxInvariant, OutboxTypeOK
    <2> QED
      BY <2>1, <2>2, <2>3
  <1>2. OutboxInvariant => SentOncePerRetry
    BY <1>1 DEF SentOncePerRetry
  <1> QED
    BY <1>2, OutboxInvariantHolds, PTL
=============================================================================
