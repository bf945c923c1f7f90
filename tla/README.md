# WAgen: TLA+ models of the message pipeline and the AI credits

WAgen is a multi-tenant WhatsApp CRM: an HTTP API and a set of BullMQ workers
(Node/TypeScript, `apps/api`) over PostgreSQL and Redis, a web client and a
mobile client.  This directory specifies the part of it whose correctness
depends on what several processes do to shared rows and jobs at the same time,
checks it with TLC on small instances, and proves with TLAPS, for all
instances, every safety property the passing runs check.  Paths below are relative to
`apps/api/src/services/` unless they say otherwise.

## Inventory

How the parts interact: routes and timers change rows in PostgreSQL and add
jobs to BullMQ queues (Redis); workers take a job, read rows, call a provider
(Meta's API, a QR session, an AI provider) and write rows; providers call back
through webhooks, which are queued and applied by another worker.  PostgreSQL
transactions are short and most steps are single statements, so nearly every
`await` is a point where another process can act and where this one can die.

| Component | State it keeps | Operations | What is hard | What makes it correct |
|---|---|---|---|---|
| Campaign pipeline (`campaign-service`, `campaign-worker-service`, `message-delivery-service`) | `campaigns` (status, counters), `campaign_messages` (status, retry_count, wamid) | launch, cancel, pause alert, dispatch worker, retry sweep, deliver, complete | five processes over the same rows; crashes; completion raced by retries | nobody is left out or sent to against consent; a stop is final; counters cover what messages show; a claimed message is released |
| Outbound queue (`outbound-message-service`) | `outbound_messages`, BullMQ jobs, grouping locks in Redis | insert + enqueue, execute, reconcile, retry by hand | row and job are two stores; a stalled job runs twice | a job has a row, an open row gets a job, a completed row was sent |
| Delivery webhook (`message-delivery-data-service`, `delivery-webhook-queue-service`) | `delivery_webhook_events`, `message_delivery_attempts`, status columns | claim an event, apply it to a campaign or conversation message | unordered, repeated, early and lost events; unlocked reads | a status never claims more than the provider confirmed |
| Sequences (`sequence-*`) | `sequence_enrollments`, step and condition tables | trigger, claim, run steps, retry, stop | events, worker and step jobs race; long-lived enrollments | a step is sent once; a stopped enrollment sends nothing |
| Reminders (`reminder-dispatch-worker-service`, `reminder-capture-*`) | `reminder_dispatch_log`, capture sessions | minute poll, run of a user, ask and expire | overlapping runs of the same user, send before log | one reminder per contact and step |
| AI credits (`ai-token-service`) | `users.ai_token_balance`, `ai_token_ledger` | gate, charge, add, monthly reset | the gate is not the charge; retried charges and credits | never below the grace limit; one charge per reference; ledger and balance agree |
| Credit billing (`workspace-billing*`) | `credit_wallet`, `credit_transactions`, recharge orders, billing dates | recharge, renewal, adjustment, reset | repeated and reordered webhooks; rows locked in two orders | a captured payment is credited once, and in the end |
| Subscriptions and coupons (`billing-service`, `coupon-service`) | subscriptions, redemptions | webhooks of Razorpay, redemption | repeated and reordered webhooks | one subscription state per payment; redemption limits |
| Flow engine (`flow-engine-service`, `message-router-service`) | `flow_sessions` | start, resume at a waiting node, fall back | concurrent inbound messages of one contact | one active session, no step skipped |
| WhatsApp sessions (`whatsapp-session-manager`) | socket map, session status, auth state | connect, pair, reconnect, degrade | callbacks of old sockets | one live socket per user |
| Conversations (`conversation-service`, `channel-outbound-service`) | messages ("bubbles"), their outbound rows and jobs, the lock and the frequency cap in Redis | queue, send, retry button, status events, reconcile | a bubble, its row and its job are three stores; clicks, worker and reconciler race | a bubble resolves and says what was sent; one send per request; the cap holds |
| Knowledge ingestion, AI review queue, OTP, event bus | job rows, review rows, codes, a connection | small state machines | check-then-act | each named in `PROJECT.json` |
| Routes, contacts, templates, Google integrations, reports, admin, web and mobile clients | CRUD rows, views | single statements, reads, external calls | little | not modelled |

`PROJECT.json` lists every component with its sources and status, and every
hazard at its line with the properties that are about it.

The first six rows, the credit billing as far as it writes the AI balance, and
the outgoing half of the conversations are modelled below; the others are not
yet, or are not worth a model.

## Modules

| Module | What it is |
|---|---|
| `CampaignPipeline` | the broadcast send path of one campaign, from launch to completion |
| `CampaignLaunch` | how a campaign leaves the draft: launch, edit and cancel, statement by statement |
| `SequenceEnrollments` | a contact's enrollments in sequences, their jobs and step messages |
| `ConversationOutbox` | messages sent from the inbox, their retries and the frequency cap |
| `Reminders` | date capture and the dispatch of reminders |
| `CreditAccount` | abstract: one user's AI balance, every change one atomic step |
| `AiTokenWallet` | the transactions that write the balance, statement by statement |
| `MCCampaignPipeline`, `MCCampaignLaunch`, `MCSequenceEnrollments`, `MCConversationOutbox`, `MCReminders`, `MCAiTokenWallet` | the small instances for TLC |
| `MCCampaignParts` | two instances of `CampaignPipeline` in one run, as a constraint |
| `MCWorkers` | instances of the four worker modules in one run |
| `CampaignPipelineProofs`, `CampaignSafetyProofs` | types, and the other safety theorems, of `CampaignPipeline` |
| `CampaignLaunchProofs`, `SequenceEnrollmentsProofs`, `ConversationOutboxProofs`, `RemindersProofs`, `AiTokenWalletProofs` | the theorems of the module they are named after |

The models share no state: each follows the rows and jobs of its own kind of
message, as the code does, which keys rows and jobs by campaign message,
enrollment step or conversation message.  The outbound queue is therefore not a
module: its rows, jobs, worker, grouping lock and reconciliation are modelled
three times, with what each kind of message adds.

### CampaignPipeline

One campaign is modelled from launch on, with a set `Messages` of recipients.
State and code correspond as follows.

| Variable | In the code |
|---|---|
| `campaign`, `count` | `campaigns.status` and the four counters |
| `cm` | `campaign_messages`: status, retry_count, and the wamid as the number of the accepted send it belongs to |
| `row` | `outbound_messages.status` of the row with job key `campaign:<id>` |
| `job` | the state of the BullMQ job `outbound-campaign-<id>` |
| `exec` | how far the worker that runs the job has come, and the retry_count it loaded |
| `dispatch` | the job `campaign-<id>`, its worker's position and the batch it has claimed |
| `wake` | somebody is between a commit and the call of `enqueueCampaign` |
| `recon` | the rows the reconciliation timer has selected and not handled |
| `accepted` | how many sends of each message the provider accepted (a history variable no code reads; wamids are its values) |
| `seen`, `hooks` | status events received; status updates between their SELECT and their UPDATE |
| `tx` | the status transaction that has updated its rows and not committed: it holds the row lock of its message and of the campaign |
| `faults` | how many crashes and exceptions have happened |

An action is what the code does between two awaits: one statement, one
transaction, or one group of Redis commands.  Names are the code's where the
code has a function for the step.  The order of a run of a job is
`startOutboundJob` (row "processing", lock, load), then one of `blockByPolicy`,
`deferCampaignMessageToNextDay`, `dispatchTemplateMessage` and `failSend`, then
`markCampaignMessageSent`, `settleRow`, `settleJob`; `crashOutboundWorker` can
end it anywhere and `failBookkeeping` is the catch clause reached after the
provider has accepted.  The loop of the dispatch worker is
`loadRunningCampaign`, `checkStatus`, `claimQueuedCampaignMessages`,
`insertOutboundMessage` and `enqueueOutboundJob` for each message of the batch
in any order (the code runs them in a `Promise.all`), back to `checkStatus`, and
`markCampaignCompleted` in the end.  `applyCampaignDeliveryStatusUpdate` is four
actions, since it reads without a lock, updates, counts pending messages and
commits.

Abstractions, all named in the module: time (a time-out or a `next_retry_at`
may be reached at any moment; waiting and delayed jobs are "pending");
`enqueueOutboundJob` and `enqueueCampaign` take effect at their last Redis
command; the rate that triggers the pause alert is "some attempt failed";
"scheduled" is folded into "draft"; the policy verdict and the provider's answer
are free choices; a busy grouping lock is one of the exceptions of
`failOutboundJob`; one dispatch worker (its job id is unique per campaign); the
global kill switch is left out.

### CampaignLaunch

`CampaignPipeline` takes a launch as one step.  In the code it is a sequence of
statements that the user's other calls, and the sweep that launches scheduled
campaigns, may overtake.

| Variable | In the code |
|---|---|
| `draft` | the `campaigns` row: status, `scheduled_at` or not, audience, counts |
| `message` | `campaign_messages.status` of the row a launch inserts for a contact |
| `launch` | the calls of `launchCampaign`: position, the audience read, contacts still to insert |
| `edit` | the calls of `updateCampaign` between reading the status and writing |
| `dispatched`, `atWorker` | the dispatch job; the messages handed to the outbound worker |
| `received`, `raced` | history: how often a contact got the campaign; has a call overtaken another? |

A launch is `getCampaign`, `refuseLaunch` or `deleteMessages`, `insertMessage`
for each contact, `runCampaign`, `completeSkipped`, `enqueueLaunched`, and
`failLaunch` may end it after any of them.  `claimMessage`,
`deliverCampaignMessage`, `completeIfIdle` and `endDispatch` are the pipeline in
short.  The theorems say when the one step of `CampaignPipeline` is right: if no
call overtakes another, a contact gets the campaign once however often launches
failed half way, and the running campaign addresses the audience of the draft
with the right counts.

### SequenceEnrollments

| Variable | In the code |
|---|---|
| `event` | how far `maybeCreateSequenceEnrollment` has come for a contact event |
| `enrollment` | `sequence_enrollments`: status, step, next_run_at, retry_count, last_delivery_status, the last message (a step and the number of its send), has it run |
| `due` | the enrollments whose next_run_at has passed |
| `run` | the jobs of the run and retry queues, by enrollment, kind and time, and their workers |
| `outbound`, `send` | `outbound_messages.status` of a step; its BullMQ job and worker |
| `lock` | the Redis lock `outbound-order:sequence:<phone>` all sends to the contact take |
| `audit` | the row `reconcileDueSequenceEnrollments` has selected and not handled |
| `hooks` | status updates between their SELECT and their UPDATE |
| `accepted`, `lockLost`, `readded` | history: how often the provider accepted a step; has the lock run out under a worker that held it; how often has the reconciler added a job for a row that was no longer left to it? |
| `reports`, `stepFaults` | how many events and faults have happened |

A run job loads the enrollment and the sequence (`startRun`) and then stops or
completes the enrollment, or postpones it, reloads it and schedules a later run,
or claims it, inserts the outbound row of the step and enqueues the outbound
job.  The outbound job starts (`startStepJob`), takes the lock, loads the
enrollment and compares the step (`loadStep`), and is blocked, deferred (by the
frequency cap), put off by an hour (at the connection's daily limit), dispatched
or failed.  After an accepted send, `advanceEnrollment` moves the enrollment on,
`enqueueNextRun` adds the next run job and `completeStepRow` settles the row;
then the worker reads and deletes the lock in two Redis commands and settles the
job.  A statement that throws after the send, before or after the enrollment was
moved on, ends in the catch clause, which puts the step off or gives it up
(`failAfterAccept`).  `auditDue` (or `selectDue` and `handleDue`, when the row
changes in between) adds the job of a due enrollment again.  `readdStepJob` is the
reconciler: it handles rows it selected earlier without reading them again, so
the row may have been worked on since (`StepLeftToReconciler` says that it has
not, and `readded` counts when it had).  A status is never compared
before it is written, and the step once, before the send: the properties say
what holds all the same.

Abstractions: next_run_at is a number modulo `Times`, new whenever it is
written, since job ids are made of it and only their being new matters; the
columns last_enqueued_* are left out (they save the audit an add that would do
nothing); whether a user has paused the sequence, a stop condition matches or
the time window is closed is a free choice each time it is read; retry counts
are kept up to one more than the limit.

### ConversationOutbox

| Variable | In the code |
|---|---|
| `bubble` | `conversation_messages`: delivery status, retry_count, wamid or not, and whether its outbound row is found by its echo_id or its wamid |
| `row`, `job` | `outbound_messages.status`; its BullMQ job, attempts and worker |
| `request`, `click` | the request that queues a message; requests of the retry button between their statements |
| `order` | the Redis lock `outbound-order:<conversation id>` |
| `cap` | the Redis key `freq-cap:<contact>:<template>` |
| `changes` | status updates between their SELECT and their UPDATE |
| `taken`, `capSends` | history: sends the provider took of a message; templates it took since the cap was clear |
| `overtaken`, `requeued`, `orderLost` | history: has a request or retry been overtaken or died half way; how often has the reconciler added a job for a row that was no longer left to it; has the lock run out under a worker that held it? |

A template is tracked (its bubble is written) before its job is added, a reply
after (`Tracked`, `trackReply`).  The worker takes the lock, evaluates the
policy, which reads the cap, and defers or dispatches; then it tracks the
message, records the cap, completes the row and attaches the wamid.  An error
sends it through the catch clause (`retryJob` or `failJob`) and
`flipPendingMessage`; the lock is released with two commands (`readOrder`,
`deleteOrder`), and is for thirty seconds, so it may run out at any moment
(`expireOrder`).  The retry button finds the row of a failed bubble, resets
bubble and row, clears the cap, removes the job and adds it again, each a
statement of its own (`checkFailed` to `addRetryJob`).  `reconcileRow` adds a job
for a row that was queued when it was selected: for one that nobody else is
working on, or, from a stale list, for one that was settled since or that a
request or a retry is about to add its own job for.  Campaigns and sequences to
the same contact take other locks and share the cap (`recordOtherSend`).

A bubble and its row are linked by the bubble's echo_id or by its wamid.  The
echo_id is the row's id for a template and for a reply of a flow or the AI; a
reply written in the web client brings an echo_id of its own (`ClientEchoes`).
Such a reply is found for a retry through its wamid only, and the `UPDATE` that
makes a bubble failed does not find it (`HasRowAsEcho`).  Delays are left out:
what waits may start, and the cap may expire, at any moment.

### Reminders

| Variable | In the code |
|---|---|
| `dates` | contacts with a value in the date field |
| `log` | `reminder_dispatch_log` of a step and a contact |
| `runs` | the dispatch jobs: position, attempts, step, contacts selected and not handled |
| `asking` | the handlers of contact events, between the check, the question and the session |
| `session` | `reminder_capture_sessions`: state, status, and whether it is stale |
| `reading` | the handlers of inbound messages, between reading a session and writing it |
| `reminded`, `asked`, `jobsMet`, `asksMet`, `unlogged` | history, see the module |

A dispatch job selects, for each step, the contacts whose date matches and whom
the log does not name, and handles them in order: send, then log.  Three jobs
run at once, and the log's unique index lets the second row pass as a no-op.  A
contact event checks for an active session and the number of earlier ones, asks,
and inserts the session; the answers move it on or end it.  Every step is due on
the same day, and sending means queueing (the send itself is
`ConversationOutbox`'s matter).

### AiTokenWallet and CreditAccount

One workspace owner is modelled, with everything that writes the AI balance:
`ai-token-service` charges and credits, `billing-service` and
`workspace-billing-center-service` handle recharge orders,
`workspace-billing-service` renews, adjusts and resets.

| Variable | In the code |
|---|---|
| `balance` | `users.ai_token_balance` |
| `ledger` | the rows of `ai_token_ledger`: reference, amount, balance after |
| `wallet` | `credit_wallet.remaining_credits` |
| `orders`, `purchases` | `credit_recharge_orders.status`; the `addon_purchase` rows of `credit_transactions` |
| `nextDue`, `today` | `subscriptions.next_billing_date`, and the day |
| `captured`, `answered` | what the payment gateway has captured, and has reported and been answered 200 for |
| `op` | the request each database session is at work on |
| `want`, `mine` | the rows its transaction has still to lock, and those it holds |
| `seen` | the balance it read when it locked the user |
| `requests`, `failures` | how many are counted against the bounds |
| `drawn`, `granted` | history: credits taken per reference, credits of each order |

An action is one statement that may wait for a row lock (`Lock`), or the end of
a transaction.  The order of the locks is the order of the statements
(`RowsOf`): a charge, a signup and an activation lock the user; a recharge the
order, the user and the wallet; a failed attempt the order; an adjustment and a
reset the wallet and then the user; a renewal the user and then the wallet.
The last two orders are opposed, so two transactions can wait for each other;
`Deadlock` aborts one, as PostgreSQL does, and `Fail` aborts any.  The gate
(`Admit`) is a read without a lock and the charge comes after the work, in a
transaction of its own that nobody waits for.

Abstractions: references made of `Date.now()` never meet another one, and are
`NoReference`; a price is the larger of the action's cost and its token cost, a
free choice up to `MaxTokenCredits`; the wallet's total and remaining credits
are one number, since no caller lowers the remainder
(`evaluateConversationCredit` has none); one plan, one signup; the advisory lock
of the renewal is a guard.  The gateway and PostgreSQL's row locks are external.

`CreditAccount` is the promise behind all this: `balance`, `drawn` and `granted`
change in one step each, by `Charge`, `Purchase`, `Grant` or `Settle`.  A charge
takes exactly its cost from the balance of that moment, at most once for a
reference and never below the limit; a purchase adds its credits once.

## Runs

Each run takes from half a minute to four minutes with two workers.

| Run | Instance | Shows |
|---|---|---|
| `pipeline_delivery` | 1 message, 1 send after each retry, a throttling event, 1 crash or exception anywhere, fair; 88,948 states | `CompletedRowWasAccepted`, `JobHasRow`, `CompletedJobSettledRow`: row, job and send agree over any retry, lost answer or second run of a job; `ClaimIsReleased`, `OpenRowGetsJob`, `RetryIsClaimed`: what was interrupted or put back is taken up again |
| `pipeline_safety` | 2 recipients with a stop at any moment or a failure event; 1 recipient with two status events, or one and a stop; symmetric; 984,004 states | `TypeOK`, `SentWasAccepted`, `CountersCover`, `CompletedMissesNobody`, `SkippedIsFinal`, `StopIsFinal` |
| `wallet_account` | 2 sessions, all 8 kinds of transaction, 1 reference, 1 order, 1 failure, fair; 129,831 states | `TypeOK`, `BalanceAboveLimit`, `ChargedOncePerReference`, `LedgerTellsBalance`, `PaidOrderIsCredited`, `ImplementsAccount`, `CapturedIsCredited` |
| `workers_safety` | six parts, see below; about 819,000 states | `SequenceTypeOK`, `CompletedSentEveryStep`, `CompletedStepWasSent`, `StepSentOnce`, `OneSendAtATime`, `OnlyCurrentStepIsSent`; `CapLetsOneThrough`; `AskedWithinLimit`; `LaunchTypeOK`, `RecipientGetsOne`, `LaunchedAsDrafted` |
| `workers_progress` | three parts, see below, fair; about 232,000 states | `EnrollmentSettles`; `OutboxTypeOK`, `FailedTemplateIsShown`, `SentOncePerRetry`, `PendingResolves`; `ReminderTypeOK`, `RemindedOnceApart`, `KnownDateIsLogged` |
| `pipeline_smart_retry` | 2 messages, 2 events | violates `SmartRetryKeepsRunning` |
| `pipeline_never_ends` | 1 message, no fault, fair | violates `RunningCampaignEnds` |
| `wallet_hard_gate` | charges only, a soft and a hard-gated action | violates `HardGateHolds` |
| `wallet_overdue` | charges and renewals, a subscription overdue by two periods | violates `LedgerTellsBalance` |
| `seq_cap` | 1 enrollment, 2 steps, the previous delivery required, a frequency cap, fair | violates `PutOffStepIsTried` |
| `outbox_reply` | 1 reply written in the inbox, 1 retry, 1 status event, no fault, fair | violates `RetriedReplyResolves` |
| `reminder_twice` | 1 contact, 2 dispatch jobs | violates `RemindedOnce` |

Some runs hold several small instances.  `MCCampaignParts` gives
`pipeline_safety` the union of two, by a constraint on the state.  In
`MCWorkers` the modules share no variable, the variable `part` is chosen first
and says which of them moves, and the others stay in their first state; the
fairness of the modules is asked of the part it is about (`WorkersFairness`).
The parts are:

- `one enrollment`: 1 contact, 2 steps, failures of every kind, 1 fault or
  stale reconciliation anywhere (`OneSlip`), 1 report of a failure (in
  `workers_safety`);
- `put off` and `two enrollments`: the same module with other constants
  (`Delayed`: caps, daily limits, pauses and a required previous delivery;
  `Pair`: two enrollments that `allow_once` lets pass, with stop conditions);
- `one message`: a template, a reply of the AI or a reply written in the inbox,
  2 requests of the retry button, 2 attempts, 1 fault, lost lock or stale
  reconciliation anywhere (`OneMishap`), 1 status event;
- `two templates`: 2 templates under one cap that others write, too, 1 stale
  reconciliation, 1 status event, no fault and no retry, up to a lock that runs
  out under a worker;
- `reminders`: 2 jobs of 2 attempts, a contact whose date is known and one who
  is asked for it, 1 fault;
- `capture`: 2 events of one contact, 2 readers, any answer, 1 fault;
- `launch`: 2 launches, 1 edit and a cancellation of a draft for one or two of
  two contacts, 1 fault.  A launch that another call has overtaken is not
  followed: no property says anything about it.

### Bounds

`RetryBound`, `MaxSends`, `MaxEvents`, `MaxFaults`, `MaxReports`,
`MaxStepFaults`, `MaxReadded`, `MaxStatuses`, `MaxOutboxFaults`, `MaxRequeued`,
`MaxReminderFaults` and `MaxLaunchFaults` cap retries, accepted sends, status
events, faults and jobs the reconciler adds from a stale list; they
are guards of the actions they cap.  `MaxRequests`, `MaxFailures` and `MaxDay`
do so for the wallet, and `Times` caps how many next_run_at values of an
enrollment may have jobs at once.

One message is enough where a property relates the stores of one message:
messages meet only in the campaign's completion, its counters and its batches,
in a contact's lock and in a cap, and the parts with two are about those.  One
retry and one fault, or one job added from a stale list, reach every pair of a
first and a second run of a job; two
events, clicks, launches or dispatch jobs reach every race of two.  Two sessions
make every pair of transactions meet and every deadlock two sessions can make;
a third request meets the outcome of two concurrent ones.  In the theorems the
bounds are parameters of any value.

In `wallet_hard_gate` prices are no larger than the grace buffer, as in the
code, where a reply or a chunk costs 1 and the buffer is 5.  `wallet_account`
starts with a renewal due and ends before the next one, so no subscription in it
is overdue by a whole period; `wallet_overdue` is the run about those.

Deadlock is checked where the system cannot stop; the runs that allow it end in
states where every job, call and event within the bounds is done.

### Fairness

Pipeline (`FairSpec`).  Every worker and both timers are weakly fair: BullMQ
keeps handing out the jobs it holds, and `setInterval` keeps firing
(`ARCHITECTURE.md`, timers).  Three steps are strongly fair, because a timer's
pass sees the row each time although other steps come between: the recovery of a
stuck message, the selection of a stuck row, and the claim of a message whose
`next_retry_at` has passed.  Users, Meta's events and faults are under no
assumption.

Wallet.  A transaction that can commit does, a deadlock is resolved and an AI
action ends (weak fairness of `End`, `Deadlock`, `Finish`).  `Lock` is strongly
fair: PostgreSQL gives a row to its waiters in order.  The gateway repeats a
report that was not answered 200 (weak fairness of `ReportPaid`), an assumption
about Razorpay on which the route relies when it answers 500.  Failures,
requests and days are under no assumption.

Sequences, outbox, reminders.  Everything is weakly fair that a process goes on
with once it has begun (requests, clicks, workers, the application of a status
event) or that a timer or the clock does: the audit, the reconciler for the rows
that are queued, the cap and the lock of a dead worker, which expire,
next_run_at passing.  That a lock runs out under a live worker, and that the
reconciler comes to a row with a stale list, is under no assumption.  That a contact event happens, a user
clicks, a dispatch job is added, a contact answers, the provider reports or
something fails is under no assumption.  `CampaignLaunch` has no liveness
property and states none.

## Divergences

Seven runs violate a property that a comment or a document states; the lines are
quoted under "findings" in `PROJECT.json`.

- `pipeline_smart_retry`: a throttled message is put back after its campaign was
  completed, contrary to the comment beside it.
- `pipeline_never_ends`: nobody looks for completion after the last message
  failed in the outbound worker.
- `wallet_hard_gate`: a hard-gated action of price 1 passes at balance 0 and
  below, down to the grace limit, where the documentation says it is blocked.
- `wallet_overdue`: an overdue subscription is renewed twice on one day under
  one reference, and the second balance has no ledger row.
- `seq_cap`: a step the frequency cap puts off is marked failed; where the
  previous delivery is required, its enrollment is then postponed for ever,
  under the comment "reroute, never drop".
- `outbox_reply`: a reply written in the inbox is accepted, reported as failed,
  retried and fails for good: its bubble stays pending, for it does not carry
  the id of its row, under the comment "so the retry spinner resolves and the
  user sees the error".
- `reminder_twice`: two overlapping dispatch jobs send a reminder twice; the
  unique index named as the protection is inserted into after the send.

Met while modelling, without a run of their own: `updateCampaign` is "draft
only" (`routes/campaigns.ts:163`) by a status it reads before it writes
(`campaign-service.ts:464-533`), so a launch may come between; and the bubble of
a reply that failed stays shown as sent, since a reply is tracked as sent when
it is queued (`conversation-service.ts:857-970`), while the comment at
`outbound-message-service.ts:349-350` has every failed bubble flipped.

What the models do not claim.  That a message is sent at most once: the code
allows a second send in several ways (a stalled job, a stale reconciliation, an
error after the send) and no document says otherwise; the properties say what
stays true when it happens, and `StepSentOnce`, `SentOncePerRetry`,
`RemindedOnceApart` and `RecipientGetsOne` name exactly what must not happen for
it to be sent once (for a message of the inbox: no fault between two statements,
and no job from a stale list of the reconciler, which alone is enough to send it
again).  That the frequency cap is a limit: it is read before a send and recorded
after it, and holds for one conversation while its lock does
(`CapLetsOneThrough`); sends of campaigns and sequences take other locks.  That the ledger's amounts add up to the balance: a recharge
forgives a debt, and a reset, a renewal or an activation replaces the balance,
so an amount is not always the difference.  That admitted work is paid for: the
charge comes after it and may be refused.

## Proofs

Every invariant and every action property of the passing runs is proved for all
values of the constants, and so is the refinement of `CreditAccount`.  Each proof
module has the same shape: lemmas about helpers, one lemma per action or group
of actions that the invariant meets, a lemma `Init => Inv` and one
`Inv /\ [Next]_vars => Inv'`, and theorems that combine them in temporal logic.
Few of the properties are inductive; the strengthenings stand in the component's
module, and TLC has checked them on the instances above before they were proved.

The assumptions about constants only type them, with these exceptions, all true
of the code: the recipients of a campaign (`Messages`, `Contacts`) and the
requests of the retry button (`Clicks`) are finite sets, since they are counted;
no audience of a draft is
empty (a launch refuses one, as it does for other reasons); launches and edits, and the names of orders,
rows and references, are kept apart.

**Pipeline.**  `IInv` (theorem `InductiveInvariant`) adds to the properties what
links the stores: only messages queued at launch are touched by a worker
(`OnlyQueuedAreTouched`, which needs `DraftIsUntouched` for the launch itself);
a row exists before its job (`RowBeforeJob`); a worker's position implies an
active job (`RunHasJob`) and, at its end, a settled row (`DoneIsSettled`);
wamids are accepted sends and a worker past the send has one
(`SendsAreAccepted`); status updates in progress are about messages with a
wamid (`EventsHaveSend`); and what the status transaction counted holds until it
commits (`CountHolds`).  The last one is the argument for
`CompletedMissesNobody`: between the count and the commit a message can only
become pending through a retry, which raises its retry_count.  Two lemmas carry
the step proof: `PendingStep` for steps that move messages between queued and
sending, `MessageStep` for steps that change one message.  `StopSafety` needs no
invariant: it is a case analysis over the actions.

`CountersSafety` has an invariant of its own, `CountsInv`, over `IInv`.  The
counters are raised in statements of their own and never recomputed, so a
counter is compared with the set of messages it must cover: for "sent" those
that were ever given a wamid, which they keep although their status moves on,
for the others those that show the status.  An event that passed
`shouldApply` counts whatever the message shows when it commits, and no step
adds a message to a set without adding to its counter.

**Launch.**  `LaunchInvariant` says of a campaign no call of which was overtaken:
one launch is under way; the rows are those of one launch and of the audience it
has been through, which the draft still names; nothing is sent before the draft
is left; a contact who received the campaign has a sent row, of which there is
one.

**Sequences.**  `SequenceInvariant` is what the workers rely on although no one
compares a status.  The steps an enrollment has left behind were accepted
(`StepsBehindWereSent`), it is moved on only by the worker that compared its
step (`LoadedStepIsCurrent`), no row, job or worker is ahead of it
(`NobodyIsAhead`), a worker settles a row as sent only after an accepted send
(`SettledWasSent`), and completion lies beyond the last step
(`CompletedIsBeyondLast`).  The lock gives mutual exclusion while it does not
run out (`LockIsOwn`; its release is two commands, so a worker that has read it
keeps it until it deletes it).  Without a fault an accepted step is about to be
left or has been (`AcceptedIsLeft`), and since a worker loads only the current
step, it is not accepted again, not even by a job from a stale list.
`LoadedStepIsCurrent` holds with
faults and without the lock too: only the worker of a step moves the enrollment
past it, and a step has one job; it is what `OnlyCurrentStepIsSent` needs.

**Outbox.**  `OutboxInvariant` says that what is shown was taken (`ShownWasTaken`)
and that errors are new (`ErrorIsNew`), with faults too.  Without faults, lock
and cap are what the worker takes them for as long as the lock has not run out
under a worker (`OrderIsOwn`, `CapIsKept`, both under `~orderLost`): the holder
alone is between the policy check and the release, so a worker that found the cap
clear dispatches before another one looks.  `SentOncePerRetry` is an account: everything that may still make the provider
take a message - its request, a retry on its way, its job, a queued row that only
the reconciler looks at - counts one in `SendsAhead`, and
`taken + SendsAhead <= 1 + retries` (`SendsAreAskedFor`).  Each step moves a unit
from one place to the next; only the click that resets the bubble adds one, and
it raises the retry count.  It holds until the reconciler adds a job from a stale
list (`requeued = 0`); that it adds no unit for a row left to it needs
`ProcessingIsAtWork` and `NothingBeforeRequest`.  The account does not need the
lock, so `SentOncePerRetry` holds also when it runs out.

**Reminders.**  If no jobs overlapped, no job was run again and no outcome was
left out (`RunsApart`), one job works, the contacts it selected are still not in
the log when it gets to them, and a reminder not in the log is about to be.  If
no events of a contact overlapped or failed (`AsksApart`), one event asks at a
time, what its check counted holds until its session is made, and every question
asked has its session or its event is about to insert it.

**Credits.**  `WalletInv` (theorem `WalletInvariant`), for any number of sessions,
actions, orders and references, consists of the types, of what a request carries
(`OpOK`), of the lock discipline (`LockInv`), of the link between orders and
purchases (`PurchaseInv`), and of `BalanceAboveLimit` and
`ChargedOncePerReference`.  The lock discipline is the heart of it: a row is held
by one session, a transaction that writes the balance holds or will lock the
user row before it can commit, and what it read then is still the balance.
Hence a charge compares its cost with the balance it changes, which gives
`BalanceSafety`, and each commit is a step of the abstract account, which gives
`Implementation`, `Spec => Account!Spec`.  Failures and deadlocks change no
account variable and map to stutters.  `PurchaseInv` makes `AlreadyPaid` the
exact test for a repeated report (`PurchaseSafety`), and a ledger that keeps its
rows makes `AlreadyCharged` the one for a repeated charge (`ChargeSafety`).

`LedgerSafety` is proved from `[]RenewalsKeepUp`, that no subscription is overdue
by a whole period.  The hypothesis is needed: `wallet_overdue` is a behaviour
without it in which the ledger falls behind the balance.  The argument is that
no ledger row is skipped as a duplicate: an order, a signup and a renewal have
the row of their reference once they are done and not before (`RefIsOwn`,
`OneAtATime`), and a renewal within its period has a reference of its own.

**Only model-checked.**  The liveness properties (`ClaimIsReleased`,
`OpenRowGetsJob`, `RetryIsClaimed`, `CapturedIsCredited`, `EnrollmentSettles`,
`PendingResolves`, `KnownDateIsLogged`): TLAPS does not reason about liveness
under fairness.  The divergences are counterexamples and have nothing to prove.

## What is not modelled

Of the pipeline: deleting, previewing and analysing a campaign, alerts,
suppression lists.  The policy verdict and the provider's answer are free
choices, except for the frequency cap, which is in `ConversationOutbox`.  Of the
outbound queue: the messages of generic webhooks and the QR worker, which take
the same path, and the global kill switch.  Of the delivery webhook: the claim
and repetition of an event before it is applied (an event here is applied at
most once, at any time), delay alerts.  Of the sequences: the matching of events
and conditions, which is data, and the editor.  Of the reminders: templates, the
arithmetic of dates, steps due on different days.  Of the inbox: inbound
messages, assignment, the takeover switches.  Of the credit billing: the
synchronisation of a workspace's subscription
(`syncWorkspaceSubscriptionFromBillingEvent`), which sets the wallet and not the
balance; `applyAddonCredits`, which has no caller; checkout, invoices,
auto-recharge and the connection pool.  The other components are listed with the
reason in `PROJECT.json`.

## Plan

1. The launch of `CampaignLaunch` shown to implement the one step of
   `CampaignPipeline`, by a refinement mapping for launches that are not
   overtaken.
2. An abstract specification of an outbound row and its job, implemented by
   `CampaignPipeline`, `SequenceEnrollments` and `ConversationOutbox`.
3. Flow sessions: one active session of a contact under concurrent inbound
   messages, waiting nodes and timeouts.
4. Subscription webhooks and coupons; the claim of delivery events; OTP.
5. Generic webhooks and the kill switch in the outbound queue.

New components share runs with each other where their instances are small, or
join properties of the present runs, so that checking stays short.
