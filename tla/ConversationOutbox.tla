------------------------- MODULE ConversationOutbox -------------------------
(* The messages a user sends from the inbox into one conversation: the     *)
(* bubble the inbox shows (conversation_messages), the outbound row and    *)
(* BullMQ job behind it, the retry button of a failed bubble, the status   *)
(* events of the provider, and the frequency cap all templates share.  A   *)
(* message is a template (template_api) or a reply (conversation_api).     *)
(* The bubble of a template, and of a reply that a flow or the AI writes,  *)
(* carries the row's id as echo_id; that of a reply written in the inbox   *)
(* carries an echoId of the client.  One action is one statement or one    *)
(* group of Redis commands.                                                *)
(*                                                                         *)
(* Delays are left out: a job that waits may start, and the frequency cap  *)
(* may expire, at any moment.                                              *)
EXTENDS Integers, FiniteSets

CONSTANTS
  Bubbles,       \* the messages of the conversation
  Templates,     \* those that are templates; the others are replies
  ClientEchoes,  \* replies that come with an echoId of the client
  OthersSend,    \* may campaigns and sequences send to the contact, too?
  Clicks,        \* requests of the retry button that may be served at once
  MaxRetries,    \* how often a user may retry (3)
  Attempts,      \* attempts of a job (5)
  Outcomes,      \* what the policy and the provider may say, in this instance
  Statuses,      \* statuses the provider reports
  MaxStatuses, MaxOutboxFaults, MaxRequeued   \* bounds

ASSUME OutboxAssumption ==
  /\ Templates \subseteq Bubbles
  /\ ClientEchoes \subseteq Bubbles \ Templates
  /\ OthersSend \in BOOLEAN
  /\ IsFiniteSet(Clicks)
  /\ {MaxRetries, MaxStatuses, MaxOutboxFaults, MaxRequeued} \subseteq Nat
  /\ Attempts \in Nat \ {0}
  /\ Outcomes \subseteq {"sent", "transient", "permanent"}
  /\ Statuses \subseteq {"sent", "delivered", "read", "failed"}

VARIABLES
  bubble,      \* conversation_messages: status, retry_count, wamid or not, and
               \* whether its row is found by its echo_id or its wamid
  row,         \* outbound_messages.status
  job,         \* BullMQ's job of each row and its worker
  request,     \* the request that queues the message
  click,       \* the requests of the retry button
  order,       \* outbound-order:<conversation id>
  cap,         \* freq-cap:<contact>:<template>
  changes,     \* status updates between their SELECT and their UPDATE
  taken,       \* history: how often the provider took each message,
  capSends,    \* ... templates it took since the cap was last clear,
  overtaken,   \* ... has a request or a retry been overtaken, or died half way?
  requeued,    \* ... how often has the reconciler added a job nobody had left to it?
  orderLost,   \* ... has the lock run out under a worker that held it?
  statuses, outboxFaults

requestVars == <<request, click>>
outboxBounds == <<statuses, outboxFaults>>
outboxHistory == <<taken, capSends, overtaken, requeued, orderLost>>
outboxVars == <<bubble, row, job, requestVars, order, cap, changes, outboxHistory,
                outboxBounds>>

Started(pc)  == pc \notin {"none", "waiting", "done"}   \* BullMQ: active
Pending(pc)  == pc = "waiting" \/ Started(pc)           \* BullMQ: not finished
Nobody == <<>>
DeadHolder == <<"worker", "died">>

IdleJob(pc) == [pc |-> pc, attempts |-> 0, error |-> "none"]
IdleClick == [pc |-> "idle", of |-> "none"]

OutboxInit ==
  /\ bubble = [m \in Bubbles |-> [status |-> "none", retries |-> 0, wamid |-> FALSE,
                               linked |-> m \notin ClientEchoes]]
  /\ row = [m \in Bubbles |-> "none"]
  /\ job = [m \in Bubbles |-> IdleJob("none")]
  /\ request = [m \in Bubbles |-> "none"]
  /\ click = [c \in Clicks |-> IdleClick]
  /\ order = Nobody
  /\ cap = FALSE
  /\ changes = {}
  /\ taken = [m \in Bubbles |-> 0]
  /\ capSends = 0
  /\ overtaken = FALSE
  /\ requeued = 0
  /\ orderLost = FALSE
  /\ statuses = 0
  /\ outboxFaults = 0

Fault == outboxFaults < MaxOutboxFaults /\ outboxFaults' = outboxFaults + 1
SetBubble(m, status) == bubble' = [bubble EXCEPT ![m].status = status]
SetRow(m, status) == row' = [row EXCEPT ![m] = status]
JobAt(m, pc) == job[m].pc = pc
JobTo(m, pc) == job' = [job EXCEPT ![m].pc = pc]
AddJob(m) == job' = IF Pending(job[m].pc) THEN job ELSE [job EXCEPT ![m] = IdleJob("waiting")]

(***************************************************************************)
(* Queueing: queueConversationTemplateMessage tracks a template before its *)
(* job is added, sendConversationFlowMessage a reply after that.           *)
(***************************************************************************)
RequestTo(m, pc) == request' = [request EXCEPT ![m] = pc]

insertOutboundMessage(m) ==
  /\ request[m] = "none"
  /\ SetRow(m, "queued")
  /\ RequestTo(m, IF m \in Templates THEN "track" ELSE "enqueue")
  /\ UNCHANGED <<bubble, job, click, order, cap, changes, outboxHistory, outboxBounds>>

\* Faulty variants: the column's default, as for a reply; the row's status.
NewBubbleSent == "sent"
NewBubbleQueued == "queued"
NewBubble == "pending"

trackQueuedConversationTemplateMessage(m) ==
  /\ request[m] = "track" /\ m \in Templates
  /\ SetBubble(m, IF bubble[m].status \in {"none", "pending"} THEN NewBubble
                  ELSE bubble[m].status)
  /\ RequestTo(m, "enqueue")
  /\ UNCHANGED <<row, job, click, order, cap, changes, outboxHistory, outboxBounds>>

enqueueOutboundJob(m) ==
  /\ request[m] = "enqueue"
  /\ AddJob(m)
  /\ RequestTo(m, IF m \in Templates THEN "done" ELSE "track")
  /\ UNCHANGED <<bubble, row, click, order, cap, changes, outboxHistory, outboxBounds>>

\* trackOutboundMessage: a new bubble has the default status, "sent"; one
\* that is there keeps what the provider has reported.
Tracked(m) == IF bubble[m].status \in {"delivered", "read", "failed"}
              THEN bubble[m].status ELSE "sent"

trackReply(m) ==
  /\ request[m] = "track" /\ m \notin Templates
  /\ SetBubble(m, Tracked(m))
  /\ RequestTo(m, "done")
  /\ UNCHANGED <<row, job, click, order, cap, changes, outboxHistory, outboxBounds>>

failRequest(m) ==
  /\ request[m] \in {"track", "enqueue"}
  /\ Fault
  /\ RequestTo(m, "done")
  /\ UNCHANGED <<bubble, row, job, click, order, cap, changes, outboxHistory, statuses>>

RequestStep(m) ==
  \/ trackQueuedConversationTemplateMessage(m) \/ enqueueOutboundJob(m) \/ trackReply(m)

(***************************************************************************)
(* The worker: executeOutboundJob under the conversation's lock, then the  *)
(* catch clause of startOutboundWorker.                                    *)
(***************************************************************************)
startJob(m) ==
  /\ JobAt(m, "waiting")
  /\ SetRow(m, "processing")
  /\ job' = [job EXCEPT ![m].pc = "lock", ![m].error = "none"]
  /\ UNCHANGED <<bubble, requestVars, order, cap, changes, outboxHistory, outboxBounds>>

\* "Outbound ordering lock busy." is an error that may be retried.
\* Faulty variant: the lock is not looked at.
OrderIgnored == TRUE
OrderFree == order = Nobody

takeOrder(m) ==
  /\ JobAt(m, "lock")
  /\ IF OrderFree
     THEN order' = <<m>> /\ JobTo(m, "policy")
     ELSE UNCHANGED order /\ job' = [job EXCEPT ![m].pc = "catch", ![m].error = "transient"]
  /\ UNCHANGED <<bubble, row, requestVars, cap, changes, outboxHistory, outboxBounds>>

\* evaluateOutboundTemplatePolicy; a template under the cap is put off (no
\* variant of it is approved).
evaluatePolicy(m) ==
  /\ JobAt(m, "policy")
  /\ \/ m \in Templates /\ cap /\ JobTo(m, "defer")
     \/ ~(m \in Templates /\ cap) /\ JobTo(m, "dispatch")
     \/ "permanent" \in Outcomes
        /\ job' = [job EXCEPT ![m].pc = "unlock", ![m].error = "permanent"]
  /\ UNCHANGED <<bubble, row, requestVars, order, cap, changes, outboxHistory, outboxBounds>>

\* processTemplateApi: the row, then moveToDelayed and the lock (the delay is
\* of hours, so nobody looks at the job before the lock is released).
deferRow(m) ==
  /\ JobAt(m, "defer")
  /\ SetRow(m, "queued")
  /\ JobTo(m, "delay")
  /\ UNCHANGED <<bubble, requestVars, order, cap, changes, outboxHistory, outboxBounds>>

moveToDelayed(m) ==
  /\ JobAt(m, "delay")
  /\ JobTo(m, "waiting")
  /\ order' = IF order = <<m>> THEN Nobody ELSE order
  /\ UNCHANGED <<bubble, row, requestVars, cap, changes, outboxHistory, outboxBounds>>

dispatchTemplateMessage(m) ==
  /\ JobAt(m, "dispatch")
  /\ \/ /\ "sent" \in Outcomes
        /\ taken' = [taken EXCEPT ![m] = @ + 1]
        /\ capSends' = IF m \in Templates THEN capSends + 1 ELSE capSends
        /\ JobTo(m, IF m \in Templates THEN "accepted" ELSE "complete")
     \/ \E e \in Outcomes \ {"sent"} :
          /\ job' = [job EXCEPT ![m].pc = "unlock", ![m].error = e]
          /\ UNCHANGED <<taken, capSends>>
  /\ UNCHANGED <<bubble, row, requestVars, order, cap, changes, overtaken, requeued, orderLost,
                 outboxBounds>>

trackOutboundMessage(m) ==
  /\ JobAt(m, "accepted")
  /\ bubble' = [bubble EXCEPT ![m].status = Tracked(m), ![m].wamid = TRUE]
  /\ JobTo(m, "tracked")
  /\ UNCHANGED <<row, requestVars, order, cap, changes, outboxHistory, outboxBounds>>

recordFrequencyCapSend(m) ==
  /\ JobAt(m, "tracked")
  /\ cap' = TRUE
  /\ JobTo(m, "complete")
  /\ UNCHANGED <<bubble, row, requestVars, order, changes, outboxHistory, outboxBounds>>

\* Faulty variant: the row goes back to the queue.
RowSentAgain == "queued"
RowSent == "completed"

completeRow(m) ==
  /\ JobAt(m, "complete")
  /\ SetRow(m, RowSent)
  /\ bubble' = [bubble EXCEPT ![m].linked = m \notin ClientEchoes]   \* provider_message_id is new
  /\ JobTo(m, IF m \in Templates THEN "unlock" ELSE "attach")
  /\ UNCHANGED <<requestVars, order, cap, changes, outboxHistory, outboxBounds>>

\* The bubble of a reply gets its wamid only now, if it is there; it keeps one
\* it has.
attachConversationProviderMessageId(m) ==
  /\ JobAt(m, "attach")
  /\ bubble' = IF bubble[m].status = "none" THEN bubble
               ELSE [bubble EXCEPT ![m].status = Tracked(m), ![m].wamid = TRUE,
                                   ![m].linked = @ \/ ~bubble[m].wamid]
  /\ JobTo(m, "unlock")
  /\ UNCHANGED <<row, requestVars, order, cap, changes, outboxHistory, outboxBounds>>

\* The lock is released with a GET and a DEL.
AfterUnlock(m) == IF job[m].error = "none" THEN "end" ELSE "catch"

readOrder(m) ==
  /\ JobAt(m, "unlock")
  /\ JobTo(m, IF order = <<m>> THEN "delete" ELSE AfterUnlock(m))
  /\ UNCHANGED <<bubble, row, requestVars, order, cap, changes, outboxHistory, outboxBounds>>

deleteOrder(m) ==
  /\ JobAt(m, "delete")
  /\ order' = Nobody
  /\ JobTo(m, AfterUnlock(m))
  /\ UNCHANGED <<bubble, row, requestVars, cap, changes, outboxHistory, outboxBounds>>

MayTryAgain(m) == job[m].error = "transient" /\ job[m].attempts + 1 < Attempts

\* updateOutboundMessageState, and the retry of BullMQ
retryJob(m) ==
  /\ JobAt(m, "catch") /\ MayTryAgain(m)
  /\ SetRow(m, "queued")
  /\ job' = [job EXCEPT ![m] = [IdleJob("waiting") EXCEPT !.attempts = job[m].attempts + 1]]
  /\ UNCHANGED <<bubble, requestVars, order, cap, changes, outboxHistory, outboxBounds>>

failJob(m) ==
  /\ JobAt(m, "catch") /\ ~MayTryAgain(m)
  /\ SetRow(m, "failed")
  /\ JobTo(m, "flip")
  /\ UNCHANGED <<bubble, requestVars, order, cap, changes, outboxHistory, outboxBounds>>

\* The bubble is looked for by the id of the row.
HasRowAsEcho(m) == m \notin ClientEchoes

flipPendingMessage(m) ==
  /\ JobAt(m, "flip")
  /\ SetBubble(m, IF HasRowAsEcho(m) /\ bubble[m].status = "pending" THEN "failed"
                  ELSE bubble[m].status)
  /\ JobTo(m, "end")
  /\ UNCHANGED <<row, requestVars, order, cap, changes, outboxHistory, outboxBounds>>

endJob(m) ==
  /\ JobAt(m, "end")
  /\ job' = [job EXCEPT ![m] = IdleJob("done")]
  /\ UNCHANGED <<bubble, row, requestVars, order, cap, changes, outboxHistory, outboxBounds>>

WorkerStep(m) ==
  \/ startJob(m) \/ takeOrder(m) \/ evaluatePolicy(m) \/ deferRow(m) \/ moveToDelayed(m)
  \/ dispatchTemplateMessage(m) \/ trackOutboundMessage(m) \/ recordFrequencyCapSend(m)
  \/ completeRow(m) \/ attachConversationProviderMessageId(m) \/ readOrder(m)
  \/ deleteOrder(m) \/ retryJob(m) \/ failJob(m) \/ flipPendingMessage(m) \/ endJob(m)

\* A statement after the provider has taken the message throws.
throwAfterAccept(m) ==
  /\ job[m].pc \in {"accepted", "tracked", "complete", "attach"}
  /\ Fault
  /\ job' = [job EXCEPT ![m].pc = "unlock", ![m].error = "transient"]
  /\ UNCHANGED <<bubble, row, requestVars, order, cap, changes, outboxHistory, statuses>>

\* A worker dies: BullMQ hands its stalled job out again.
crashJob(m) ==
  /\ Started(job[m].pc)
  /\ Fault
  /\ job' = [job EXCEPT ![m].pc = "waiting", ![m].error = "none"]
  /\ order' = IF order = <<m>> THEN DeadHolder ELSE order
  /\ UNCHANGED <<bubble, row, requestVars, cap, changes, outboxHistory, statuses>>

\* The lock is for thirty seconds and never renewed: it may run out before a
\* worker that waits for the rate limit or the provider has released it.
expireOrder ==
  /\ order # Nobody
  /\ order' = Nobody
  /\ orderLost' = (orderLost \/ order # DeadHolder)
  /\ UNCHANGED <<bubble, row, job, requestVars, cap, changes, taken, capSends, overtaken,
                 requeued, outboxBounds>>

expireCap ==
  /\ cap
  /\ cap' = FALSE /\ capSends' = 0
  /\ UNCHANGED <<bubble, row, job, requestVars, order, changes, taken, overtaken, requeued,
                 orderLost, outboxBounds>>

\* A campaign or a sequence has sent the template to the contact, under a lock
\* of its own.
recordOtherSend ==
  /\ OthersSend /\ ~cap
  /\ cap' = TRUE
  /\ UNCHANGED <<bubble, row, job, requestVars, order, changes, outboxHistory, outboxBounds>>

(***************************************************************************)
(* reconcileOutboundQueue.  A row at work for five minutes is a fault.     *)
(***************************************************************************)
requeueStaleRow(m) ==
  /\ row[m] = "processing"
  /\ IF Started(job[m].pc) THEN Fault ELSE UNCHANGED outboxFaults
  /\ SetRow(m, "queued")
  /\ UNCHANGED <<bubble, job, requestVars, order, cap, changes, outboxHistory, statuses>>

Requesting(m) == request[m] = "enqueue" \/ (request[m] = "track" /\ m \in Templates)
Retrying(m) == \E c \in Clicks : click[c].of = m /\ click[c].pc \in {"clear", "remove", "add"}

\* Faulty variant: any job will do.
NoJobYet(m) == JobAt(m, "none")
JobMissing(m) == ~Pending(job[m].pc)

\* Of the rows it has selected none is read again before its job is looked
\* at: the row, queued when it was selected, may have been worked on since,
\* and a request or a retry may have its own job yet to add (at most
\* MaxRequeued times).
LeftToReconciler(m) == row[m] = "queued" /\ ~Requesting(m) /\ ~Retrying(m)

reconcileRow(m) ==
  /\ row[m] # "none" /\ JobMissing(m)
  /\ \/ LeftToReconciler(m) /\ UNCHANGED requeued
     \/ ~LeftToReconciler(m) /\ requeued < MaxRequeued /\ requeued' = requeued + 1
  /\ overtaken' = (overtaken \/ Requesting(m))
  /\ AddJob(m)
  /\ UNCHANGED <<bubble, row, requestVars, order, cap, changes, taken, capSends, orderLost,
                 outboxBounds>>

(***************************************************************************)
(* retryConversationOutboundMessage                                        *)
(***************************************************************************)
ClickAt(c, pc) == click[c].pc = pc
ClickTo(c, pc) == click' = [click EXCEPT ![c].pc = pc]
Return(c) == click' = [click EXCEPT ![c] = IdleClick]

checkFailed(c, m) ==
  /\ ClickAt(c, "idle")
  /\ bubble[m].status = "failed" /\ bubble[m].retries < MaxRetries
  /\ bubble[m].linked     \* loadOutboundMessageForConversationRetry finds the row
  /\ click' = [click EXCEPT ![c] = [pc |-> "reset", of |-> m]]
  /\ UNCHANGED <<bubble, row, job, request, order, cap, changes, outboxHistory, outboxBounds>>

resetBubble(c) ==
  LET m == click[c].of IN
  /\ ClickAt(c, "reset")
  /\ bubble' = [bubble EXCEPT ![m].status = "pending", ![m].retries = @ + 1]
  /\ overtaken' = (overtaken \/ job[m].pc \in {"tracked", "complete"})
  /\ ClickTo(c, "requeue")
  /\ UNCHANGED <<row, job, request, order, cap, changes, taken, capSends, requeued, orderLost,
                 outboxBounds>>

requeueRow(c) ==
  /\ ClickAt(c, "requeue")
  /\ SetRow(click[c].of, "queued")
  /\ ClickTo(c, IF click[c].of \in Templates THEN "clear" ELSE "remove")
  /\ UNCHANGED <<bubble, job, request, order, cap, changes, outboxHistory, outboxBounds>>

clearFrequencyCapSend(c) ==
  /\ ClickAt(c, "clear")
  /\ cap' = FALSE /\ capSends' = 0
  /\ ClickTo(c, "remove")
  /\ UNCHANGED <<bubble, row, job, request, order, changes, taken, overtaken, requeued, orderLost,
                 outboxBounds>>

\* The job of a worker at work cannot be removed: the worker is left to it.
removeJob(c) ==
  LET m == click[c].of IN
  /\ ClickAt(c, "remove")
  /\ IF Started(job[m].pc)
     THEN Return(c) /\ UNCHANGED job
     ELSE ClickTo(c, "add") /\ job' = [job EXCEPT ![m] = IdleJob("none")]
  /\ UNCHANGED <<bubble, row, request, order, cap, changes, outboxHistory, outboxBounds>>

addRetryJob(c) ==
  /\ ClickAt(c, "add")
  /\ AddJob(click[c].of)
  /\ Return(c)
  /\ UNCHANGED <<bubble, row, request, order, cap, changes, outboxHistory, outboxBounds>>

ClickStep(c) ==
  \/ resetBubble(c) \/ requeueRow(c) \/ clearFrequencyCapSend(c) \/ removeJob(c) \/ addRetryJob(c)

failClick(c) ==
  /\ ~ClickAt(c, "idle")
  /\ Fault
  /\ overtaken' = (overtaken \/ ClickAt(c, "requeue"))
  /\ Return(c)
  /\ UNCHANGED <<bubble, row, job, request, order, cap, changes, taken, capSends, requeued,
                 orderLost, statuses>>

(***************************************************************************)
(* applyConversationDeliveryStatusUpdate: a SELECT by wamid and an UPDATE  *)
(* by id.                                                                  *)
(***************************************************************************)
shouldApplyConversationStatus(current, next) ==
  \/ current = "pending"
  \/ current = "sent" /\ next # "sent"
  \/ current = "delivered" /\ next = "read"

selectByWamid(m) ==
  \E st \in Statuses :
    /\ bubble[m].wamid
    /\ statuses < MaxStatuses /\ statuses' = statuses + 1
    /\ changes' = IF shouldApplyConversationStatus(bubble[m].status, st)
                  THEN changes \cup {<<m, st>>} ELSE changes
    /\ UNCHANGED <<bubble, row, job, requestVars, order, cap, outboxHistory, outboxFaults>>

\* A failure also gives the frequency cap back.
applyChange(ch) ==
  /\ ch \in changes
  /\ changes' = changes \ {ch}
  /\ SetBubble(ch[1], ch[2])
  /\ IF ch[2] = "failed" /\ ch[1] \in Templates
     THEN cap' = FALSE /\ capSends' = 0
     ELSE UNCHANGED <<cap, capSends>>
  /\ UNCHANGED <<row, job, requestVars, order, taken, overtaken, requeued, orderLost, outboxBounds>>

OutboxNext ==
  \/ \E m \in Bubbles :
       \/ insertOutboundMessage(m) \/ RequestStep(m) \/ failRequest(m)
       \/ WorkerStep(m) \/ throwAfterAccept(m) \/ crashJob(m)
       \/ requeueStaleRow(m) \/ reconcileRow(m) \/ selectByWamid(m)
  \/ \E c \in Clicks : ClickStep(c) \/ failClick(c) \/ \E m \in Bubbles : checkFailed(c, m)
  \/ expireOrder \/ expireCap \/ recordOtherSend
  \/ \E ch \in changes : applyChange(ch)

OutboxSpec == OutboxInit /\ [][OutboxNext]_outboxVars

\* Requests, workers, the reconciler and the clock go on; no user, provider
\* or fault has to do anything.
OutboxFairness ==
  /\ \A m \in Bubbles :
       /\ WF_outboxVars(RequestStep(m)) /\ WF_outboxVars(WorkerStep(m))
       /\ WF_outboxVars(requeueStaleRow(m))
       /\ WF_outboxVars(row[m] = "queued" /\ reconcileRow(m))
  /\ \A c \in Clicks : WF_outboxVars(ClickStep(c))
  /\ WF_outboxVars(order = DeadHolder /\ expireOrder) /\ WF_outboxVars(expireCap)
  /\ \A m \in Bubbles, st \in Statuses : WF_outboxVars(applyChange(<<m, st>>))

OutboxFairSpec == OutboxSpec /\ OutboxFairness

(***************************************************************************)
(* Properties                                                              *)
(***************************************************************************)
JobPcs == {"none", "waiting", "lock", "policy", "defer", "delay", "dispatch", "accepted",
           "tracked", "complete", "attach", "unlock", "delete", "catch", "flip", "end", "done"}
BubbleStatus == {"none", "pending", "sent", "delivered", "read", "failed"}

\* Every variable keeps its type.
OutboxTypeOK ==
  /\ bubble \in [Bubbles -> [status : BubbleStatus, retries : Nat, wamid : BOOLEAN,
                             linked : BOOLEAN]]
  /\ row \in [Bubbles -> {"none", "queued", "processing", "completed", "failed"}]
  /\ job \in [Bubbles -> [pc : JobPcs, attempts : Nat,
                          error : {"none", "transient", "permanent"}]]
  /\ request \in [Bubbles -> {"none", "track", "enqueue", "done"}]
  /\ click \in [Clicks -> {IdleClick} \cup
       [pc : {"reset", "requeue", "clear", "remove", "add"}, of : Bubbles]]
  /\ order \in {Nobody, DeadHolder} \cup {<<m>> : m \in Bubbles}
  /\ cap \in BOOLEAN
  /\ changes \subseteq (Bubbles \X Statuses)
  /\ taken \in [Bubbles -> Nat] /\ capSends \in Nat 
  /\ {overtaken, orderLost} \subseteq BOOLEAN
  /\ requeued \in Nat /\ statuses \in Nat /\ outboxFaults \in Nat

\* The inbox never shows a template as sent that has failed for good and that
\* the provider has not taken, whatever dies, is retried or reconciled ("so the
\* retry spinner resolves and the user sees the error",
\* outbound-message-service.ts:349).  Of a reply it may: its bubble is tracked
\* as sent when its job is added.
FailedTemplateIsShown ==
  \A m \in Templates :
    row[m] = "failed" /\ JobAt(m, "done") /\ taken[m] = 0
      => bubble[m].status \in {"none", "pending", "failed"}

\* As long as nothing fails between two statements, and the reconciler adds a
\* job only for a row that is left to it, the provider takes a message once,
\* and once more for every retry the user asked for, however clicks, workers,
\* events and the end of the lock overlap.  (Not so when the reconciler comes
\* to a row that has been worked on since it was selected: then the message
\* is sent again.)
SentOncePerRetry ==
  outboxFaults = 0 /\ requeued = 0 => \A m \in Bubbles : taken[m] <= 1 + bubble[m].retries

\* As long as nothing fails between two statements, no worker outlasts its
\* lock and no retry clears the cap, the frequency cap lets one of the
\* conversation's templates through at a time, whatever campaigns and
\* sequences record meanwhile: the lock makes its check and its record one.
CapLetsOneThrough ==
  outboxFaults = 0 /\ ~orderLost /\ (\A m \in Bubbles : bubble[m].retries = 0)
    => capSends <= 1

\* A bubble that carries the id of its row, and waits, turns out sent or failed
\* in the end, though workers die or lose the lock, two clicks race and the
\* reconciler comes to rows it had selected before, unless it overtook the
\* request, or a retry met a worker that had already sent the message or died
\* before resetting the row.
PendingResolves ==
  \A m \in Bubbles \ ClientEchoes :
    bubble[m].status = "pending" ~> bubble[m].status # "pending" \/ overtaken

\* What "flip any pending conversation_messages row back to failed so the retry
\* spinner resolves" (outbound-message-service.ts:349) says of a reply written
\* in the inbox, with nothing overtaken, requeued, lost or failing between two
\* statements.  It does not hold: the bubble is looked for by the id of its
\* row, and carries the echoId of the client.
RetriedReplyResolves ==
  \A m \in ClientEchoes :
    bubble[m].status = "pending"
      ~> bubble[m].status # "pending" \/ overtaken \/ requeued > 0 \/ orderLost \/ outboxFaults > 0

(***************************************************************************)
(* The inductive invariant behind the invariants above                     *)
(***************************************************************************)
\* What the inbox shows of a template is what the provider has taken.
ShownWasTaken ==
  /\ \A m \in Bubbles :
       /\ job[m].pc \in {"accepted", "tracked", "complete", "attach"} => taken[m] > 0
       /\ bubble[m].wamid => taken[m] > 0
       /\ m \in Templates /\ taken[m] = 0 => bubble[m].status \in {"none", "pending", "failed"}
  /\ \A ch \in changes : taken[ch[1]] > 0

\* A worker has an error only once it is on its way out.
ErrorIsNew ==
  \A m \in Bubbles :
    job[m].pc \in {"lock", "policy", "defer", "delay", "dispatch", "accepted", "tracked", "complete",
                  "attach"} => job[m].error = "none"

\* The lock of the conversation, and what is done under it until it runs out.
UnderOrder == {"policy", "defer", "delay", "dispatch", "accepted", "tracked", "complete", "attach",
               "unlock", "delete"}
OrderIsOwn == ~orderLost => \A m \in Bubbles : job[m].pc \in UnderOrder => order = <<m>>

\* No retry has been served yet.
Unretried == \A m \in Bubbles : bubble[m].retries = 0
ClicksWait == Unretried => \A c \in Clicks : click[c].pc \in {"idle", "reset"}

\* A template is dispatched when none was taken since the cap was clear, and
\* the cap knows of what the provider took, or is about to.
CapIsKept ==
  Unretried /\ ~orderLost =>
    /\ \A m \in Templates : JobAt(m, "dispatch") => capSends = 0
    /\ capSends <= 1
    /\ capSends > 0 => cap \/ \E m \in Templates : JobAt(m, "accepted") \/ JobAt(m, "tracked")

\* Before its request has begun there is nothing of a message.
NothingBeforeRequest ==
  \A m \in Bubbles : request[m] = "none" =>
    /\ row[m] = "none" /\ JobAt(m, "none") /\ bubble[m].status = "none" /\ ~bubble[m].wamid
    /\ taken[m] = 0
    /\ \A c \in Clicks : ClickAt(c, "idle") \/ click[c].of # m

\* A row is being processed only by a worker that will settle it.
SettlesRow(m) ==
  \/ job[m].pc \in {"lock", "policy", "defer", "dispatch", "accepted", "tracked", "complete", "catch"}
  \/ job[m].pc \in {"unlock", "delete"} /\ job[m].error # "none"
ProcessingIsAtWork == \A m \in Bubbles : row[m] = "processing" => SettlesRow(m)

\* What may still make the provider take a message: a request that has not
\* added its job, a retry on its way, a job that has not been sent, or a row
\* in the queue that nobody but the reconciler looks at.
RequestMaySend(m) == request[m] = "none" \/ Requesting(m)
RetriesOf(m) ==
  {c \in Clicks : click[c].of = m /\ click[c].pc \in {"requeue", "clear", "remove", "add"}}
JobMaySend(m) ==
  \/ job[m].pc \in {"waiting", "lock", "policy", "defer", "delay", "dispatch", "catch"}
  \/ job[m].pc \in {"unlock", "delete"} /\ job[m].error # "none"
RowMaySend(m) ==
  /\ row[m] = "queued" /\ ~RequestMaySend(m) /\ ~JobMaySend(m) /\ ~Retrying(m)
  /\ job[m].pc \notin {"accepted", "tracked", "complete"}
One(holds) == IF holds THEN 1 ELSE 0
SendsAhead(m) ==
  One(RequestMaySend(m)) + Cardinality(RetriesOf(m)) + One(JobMaySend(m)) + One(RowMaySend(m))

SendsAreAskedFor == requeued = 0 => \A m \in Bubbles : taken[m] + SendsAhead(m) <= 1 + bubble[m].retries

OutboxInvariant ==
  /\ OutboxTypeOK
  /\ ShownWasTaken /\ ErrorIsNew
  /\ outboxFaults = 0 =>
       /\ OrderIsOwn /\ ClicksWait /\ CapIsKept
       /\ NothingBeforeRequest /\ ProcessingIsAtWork /\ SendsAreAskedFor
=============================================================================
