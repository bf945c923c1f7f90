---------------------------- MODULE CampaignLaunch ----------------------------
(* How a campaign leaves the draft: launchCampaign, statement by statement,  *)
(* called by the launch route and, for a scheduled campaign whose time has   *)
(* come, by the retry sweep; updateCampaign and cancelCampaign, which the    *)
(* user may call meanwhile; and, in short, the dispatch worker that sends    *)
(* what was launched.  CampaignPipeline takes a launch as one step and       *)
(* models the sending; this module shows when that is right.  Launch and     *)
(* update read the status in one statement and write in a later one, which   *)
(* does not look at the status again.  Pausing and the upload of a header    *)
(* image, which changes nothing that matters here, are left out.             *)
EXTENDS Integers, FiniteSets

CONSTANTS
  Contacts,         \* whom a campaign may address
  Audiences,        \* sets of contacts the draft may name
  Launches,         \* calls of launchCampaign
  Edits,            \* calls of updateCampaign
  MayCancel,        \* does the user cancel the campaign?
  MaxLaunchFaults   \* bound

ASSUME LaunchAssumption ==
  /\ IsFiniteSet(Contacts)
  /\ Audiences \subseteq SUBSET Contacts /\ {} \notin Audiences
  /\ Launches \cap Edits = {}
  /\ MayCancel \in BOOLEAN
  /\ MaxLaunchFaults \in Nat

VARIABLES
  draft,      \* the campaigns row
  message,    \* campaign_messages.status of the row a launch inserts
  launch,     \* the calls of launchCampaign
  edit,       \* the calls of updateCampaign
  dispatched, \* is there a dispatch job?
  atWorker,   \* messages handed to the outbound worker
  received,   \* history: how often each contact got the campaign,
  raced,      \* ... and has a call overtaken another?
  launchFaults

launchHistory == <<received, raced>>
launchVars == <<draft, message, launch, edit, dispatched, atWorker, launchHistory,
                launchFaults>>

MessageIds == Launches \X Contacts
NotLaunched == {"draft", "scheduled"}
NewCall == [pc |-> "new", audience |-> {}, todo |-> {}]
Ended == [pc |-> "ended", audience |-> {}, todo |-> {}]

\* createCampaign: with a time or without one.
LaunchInit ==
  /\ draft \in [status : NotLaunched, timed : BOOLEAN, audience : Audiences,
                total : {0}, skipped : {0}]
  /\ draft.timed <=> draft.status = "scheduled"
  /\ message = [m \in MessageIds |-> "none"]
  /\ launch = [l \in Launches |-> NewCall]
  /\ edit = [u \in Edits |-> "new"]
  /\ dispatched = FALSE
  /\ atWorker = {}
  /\ received = [c \in Contacts |-> 0]
  /\ raced = FALSE
  /\ launchFaults = 0

LaunchAt(l, pc) == launch[l].pc = pc
LaunchTo(l, pc) == launch' = [launch EXCEPT ![l].pc = pc]
UnderWay(l) == launch[l].pc \notin {"new", "ended"}
InStatus(status) == {m \in MessageIds : message[m] = status}
LaunchRows == MessageIds \ InStatus("none")

(***************************************************************************)
(* launchCampaign                                                          *)
(***************************************************************************)
\* Faulty variant: a campaign that runs may be launched again.
LaunchableAgain == draft.status \in NotLaunched \cup {"running"}
Launchable == draft.status \in NotLaunched

getCampaign(l) ==
  /\ LaunchAt(l, "new")
  /\ Launchable
  /\ launch' = [launch EXCEPT ![l] = [NewCall EXCEPT !.pc = "delete", !.audience = draft.audience]]
  /\ raced' = (raced \/ \E k \in Launches : UnderWay(k))
  /\ UNCHANGED <<draft, message, edit, dispatched, atWorker, received, launchFaults>>

\* No active connection, no approved template, or the plan's limit.
refuseLaunch(l) ==
  /\ LaunchAt(l, "delete")
  /\ launch' = [launch EXCEPT ![l] = Ended]
  /\ UNCHANGED <<draft, message, edit, dispatched, atWorker, launchHistory, launchFaults>>

\* Faulty variants: the rows of an earlier launch stay; they are marked only.
KeepRows == message
RowsMarked == [m \in MessageIds |-> "deleted"]
NoRows == [m \in MessageIds |-> "none"]

deleteMessages(l) ==
  /\ LaunchAt(l, "delete")
  /\ message' = NoRows
  /\ launch' = [launch EXCEPT ![l].pc = "insert", ![l].todo = launch[l].audience]
  /\ UNCHANGED <<draft, edit, dispatched, atWorker, launchHistory, launchFaults>>

\* A recipient who is suppressed, or did not consent, or whose variables are
\* missing is skipped.
insertMessage(l) ==
  /\ LaunchAt(l, "insert")
  /\ \E c \in launch[l].todo, status \in {"queued", "skipped"} :
       /\ message' = [message EXCEPT ![<<l, c>>] = status]
       /\ launch' = [launch EXCEPT ![l].todo = @ \ {c},
                                   ![l].pc = IF launch[l].todo = {c} THEN "run" ELSE "insert"]
  /\ UNCHANGED <<draft, edit, dispatched, atWorker, launchHistory, launchFaults>>

\* The counts are those of the loop.
Own(l, status) == {c \in launch[l].audience : message[<<l, c>>] = status}

\* Faulty variant: the recipients that are left are counted.
QueuedOnly(l) == Cardinality(launch[l].audience \ Own(l, "skipped"))
TotalCount(l) == Cardinality(launch[l].audience)

runCampaign(l) ==
  /\ LaunchAt(l, "run")
  /\ draft' = [draft EXCEPT !.status = "running", !.total = TotalCount(l),
                            !.skipped = Cardinality(Own(l, "skipped"))]
  /\ LaunchTo(l, IF Own(l, "skipped") = launch[l].audience THEN "complete" ELSE "enqueue")
  /\ UNCHANGED <<message, edit, dispatched, atWorker, launchHistory, launchFaults>>

\* markCampaignCompleted
Completed == draft.status = "running" /\ InStatus("queued") \cup InStatus("sending") = {}
CompleteDraft == draft' = IF Completed THEN [draft EXCEPT !.status = "completed"] ELSE draft

completeSkipped(l) ==
  /\ LaunchAt(l, "complete")
  /\ CompleteDraft
  /\ LaunchTo(l, "enqueue")
  /\ UNCHANGED <<message, edit, dispatched, atWorker, launchHistory, launchFaults>>

enqueueLaunched(l) ==
  /\ LaunchAt(l, "enqueue")
  /\ dispatched' = TRUE
  /\ launch' = [launch EXCEPT ![l] = Ended]
  /\ UNCHANGED <<draft, message, edit, atWorker, launchHistory, launchFaults>>

\* A statement fails or the process dies.
failLaunch(l) ==
  /\ launch[l].pc \in {"insert", "run", "complete", "enqueue"}
  /\ launchFaults < MaxLaunchFaults
  /\ launchFaults' = launchFaults + 1
  /\ launch' = [launch EXCEPT ![l] = Ended]
  /\ UNCHANGED <<draft, message, edit, dispatched, atWorker, launchHistory>>

(***************************************************************************)
(* updateCampaign and cancelLaunched                                       *)
(***************************************************************************)
readForUpdate(u) ==
  /\ edit[u] = "new"
  /\ draft.status \in NotLaunched
  /\ edit' = [edit EXCEPT ![u] = "write"]
  /\ UNCHANGED <<draft, message, launch, dispatched, atWorker, launchHistory, launchFaults>>

\* Once a campaign has a time it keeps one, and the status follows from that
\* alone: one that has been launched or cancelled meanwhile is a draft again.
updateCampaign(u) ==
  /\ edit[u] = "write"
  /\ \E audience \in Audiences, timed \in {draft.timed, TRUE} :
       draft' = [draft EXCEPT !.audience = audience, !.timed = timed,
                              !.status = IF timed THEN "scheduled" ELSE "draft"]
  /\ edit' = [edit EXCEPT ![u] = "ended"]
  /\ raced' = (raced \/ draft.status \notin NotLaunched \/ \E l \in Launches : UnderWay(l))
  /\ UNCHANGED <<message, launch, dispatched, atWorker, received, launchFaults>>

cancelLaunched ==
  /\ MayCancel
  /\ draft.status \in NotLaunched \cup {"running"}
  /\ draft' = [draft EXCEPT !.status = "cancelled"]
  /\ raced' = (raced \/ \E l \in Launches : UnderWay(l))
  /\ UNCHANGED <<message, launch, edit, dispatched, atWorker, received, launchFaults>>

(***************************************************************************)
(* The dispatch worker and the outbound worker, in short                   *)
(***************************************************************************)
claimMessage(m) ==
  /\ dispatched
  /\ draft.status = "running" /\ message[m] = "queued"
  /\ message' = [message EXCEPT ![m] = "sending"]
  /\ atWorker' = atWorker \cup {m}
  /\ UNCHANGED <<draft, launch, edit, dispatched, launchHistory, launchFaults>>

endDispatch ==
  /\ dispatched
  /\ draft.status # "running" \/ InStatus("queued") = {}
  /\ dispatched' = FALSE
  /\ CompleteDraft
  /\ UNCHANGED <<message, launch, edit, atWorker, launchHistory, launchFaults>>

\* A message whose row is gone is not sent.
deliverCampaignMessage(m) ==
  /\ m \in atWorker
  /\ atWorker' = atWorker \ {m}
  /\ IF message[m] = "sending"
     THEN /\ message' = [message EXCEPT ![m] = "sent"]
          /\ received' = [received EXCEPT ![m[2]] = @ + 1]
     ELSE UNCHANGED <<message, received>>
  /\ UNCHANGED <<draft, launch, edit, dispatched, raced, launchFaults>>

\* A status event completes a campaign that has nothing left.
completeIfIdle ==
  /\ Completed
  /\ CompleteDraft
  /\ UNCHANGED <<message, launch, edit, dispatched, atWorker, launchHistory, launchFaults>>

LaunchNext ==
  \/ \E l \in Launches :
       \/ getCampaign(l) \/ refuseLaunch(l) \/ deleteMessages(l) \/ insertMessage(l)
       \/ runCampaign(l) \/ completeSkipped(l) \/ enqueueLaunched(l) \/ failLaunch(l)
  \/ \E u \in Edits : readForUpdate(u) \/ updateCampaign(u)
  \/ cancelLaunched \/ endDispatch \/ completeIfIdle
  \/ \E m \in MessageIds : claimMessage(m) \/ deliverCampaignMessage(m)

LaunchSpec == LaunchInit /\ [][LaunchNext]_launchVars

(***************************************************************************)
(* Properties                                                              *)
(***************************************************************************)
\* Every variable keeps its type.
LaunchTypeOK ==
  /\ draft \in [status : NotLaunched \cup {"running", "completed", "cancelled"},
                timed : BOOLEAN, audience : Audiences, total : Nat, skipped : Nat]
  /\ message \in [MessageIds -> {"none", "queued", "skipped", "sending", "sent"}]
  /\ launch \in [Launches -> [pc : {"new", "delete", "insert", "run", "complete",
                                    "enqueue", "ended"},
                              audience : SUBSET Contacts, todo : SUBSET Contacts]]
  /\ edit \in [Edits -> {"new", "write", "ended"}]
  /\ dispatched \in BOOLEAN /\ raced \in BOOLEAN
  /\ atWorker \subseteq MessageIds
  /\ received \in [Contacts -> Nat]
  /\ launchFaults \in Nat

\* As long as no call overtakes another, a contact gets the campaign at most
\* once, however often a launch failed half way before one succeeded.
RecipientGetsOne == ~raced => \A c \in Contacts : received[c] <= 1

\* ... and the campaign that runs addresses the audience of the draft, no
\* contact twice, and its counts are those of its messages.
LaunchedAsDrafted ==
  ~raced /\ draft.status \in {"running", "completed"} =>
    /\ {m[2] : m \in LaunchRows} = draft.audience
    /\ draft.total = Cardinality(LaunchRows)
    /\ draft.skipped = Cardinality(InStatus("skipped"))

(***************************************************************************)
(* The inductive invariant behind RecipientGetsOne and LaunchedAsDrafted   *)
(***************************************************************************)
Unlaunched == draft.status \in NotLaunched

OneLaunchAtATime == \A k, l \in Launches : UnderWay(k) /\ UnderWay(l) => k = l

\* The rows are those of the last call that inserted any.
RowsOfOneLaunch == \A m, n \in LaunchRows : m[1] = n[1]

\* A call launches what it has read: nobody changes the draft meanwhile, and
\* the rows are those of the recipients it has been through.
LaunchesTheDraft ==
  \A l \in Launches :
    /\ UnderWay(l) => launch[l].audience = draft.audience
    /\ launch[l].pc \in {"delete", "insert", "run"} => Unlaunched
    /\ launch[l].pc \in {"complete", "enqueue"} => ~Unlaunched
    /\ LaunchAt(l, "insert") => /\ launch[l].todo \subseteq launch[l].audience
                               /\ LaunchRows = {l} \X (launch[l].audience \ launch[l].todo)
    /\ LaunchAt(l, "run") => LaunchRows = {l} \X launch[l].audience

NothingSentBefore ==
  Unlaunched => /\ \A m \in MessageIds : message[m] \in {"none", "queued", "skipped"}
                /\ \A c \in Contacts : received[c] = 0

ReceivedWasSent ==
  \A c \in Contacts : received[c] > 0 => \E l \in Launches : message[<<l, c>>] = "sent"

LaunchedRows ==
  draft.status \in {"running", "completed"} =>
    /\ \E l \in Launches : LaunchRows = {l} \X draft.audience
    /\ draft.total = Cardinality(draft.audience)
    /\ draft.skipped = Cardinality(InStatus("skipped"))

CallsApart ==
  ~raced => /\ OneLaunchAtATime /\ RowsOfOneLaunch /\ LaunchesTheDraft
            /\ NothingSentBefore /\ ReceivedWasSent /\ LaunchedRows
            /\ \A c \in Contacts : received[c] <= 1

LaunchInvariant == LaunchTypeOK /\ CallsApart
=============================================================================
