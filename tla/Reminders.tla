------------------------------- MODULE Reminders -------------------------------
(* Reminders of a date: a contact event asks a contact for the date, a capture *)
(* session takes the answers, and, when the day has come, the dispatch jobs    *)
(* send the reminder of each step to the contacts whose date matches and that  *)
(* the dispatch log does not name yet.  A job is added every minute, six of    *)
(* them within the window of a configuration, and by the user; three run at    *)
(* once.  One action is one statement; reads that follow one another are one.  *)
(*                                                                             *)
(* Sending means queueing an outbound message (ConversationOutbox).  Step 1 is *)
(* sent before step 2; every step is due on the same day.                      *)
EXTENDS Integers, FiniteSets

CONSTANTS
  People,          \* contacts, each with one conversation
  KnownDates,      \* those whose date is known from the start
  StepNumber,      \* steps of the configuration
  Runs,            \* dispatch jobs
  JobAttempts,     \* attempts of a job (3)
  Asks,            \* contact events that may ask for the date, <<contact, number>>
  MaxAsks,         \* retry_max_count
  Answers,         \* what a contact may answer
  Readers,         \* handlers of inbound messages
  MayFail,         \* may a send fail?
  MaxReminderFaults   \* bound

ASSUME ReminderAssumption ==
  /\ KnownDates \subseteq People
  /\ {StepNumber, JobAttempts} \subseteq Nat \ {0}
  /\ Asks \subseteq People \X Nat
  /\ {MaxAsks, MaxReminderFaults} \subseteq Nat
  /\ Answers \subseteq {"yes", "no", "date", "other"}
  /\ MayFail \in BOOLEAN

VARIABLES
  dates,      \* contacts with a value in the date field
  log,        \* reminder_dispatch_log of each step and contact
  runs,       \* the dispatch jobs and their workers
  asking,     \* the handlers of contact events
  session,    \* reminder_capture_sessions, by the event that created it
  reading,    \* the handlers of inbound messages
  reminded,   \* history: reminders queued for each step and contact,
  asked,      \* ... questions sent to each contact,
  jobsMet,    \* ... have two jobs overlapped, or has one been run again?
  asksMet,    \* ... have two events of a contact overlapped, or failed half way?
  unlogged,   \* ... has a failed query passed a step over, or left an outcome out of the log?
  reminderFaults

captureVars == <<asking, session, reading>>
reminderHistory == <<reminded, asked, jobsMet, asksMet, unlogged>>
reminderVars == <<dates, log, runs, captureVars, reminderHistory, reminderFaults>>

StepSet == 1..StepNumber
IdleRun(pc, attempts) == [pc |-> pc, attempts |-> attempts, step |-> 1, todo |-> {}]
NoSession == [state |-> "none", status |-> "none", old |-> FALSE]
IdleReader == [pc |-> "idle", of |-> "none"]

ReminderInit ==
  /\ dates = KnownDates
  /\ log = [s \in StepSet \X People |-> "none"]
  /\ runs = [j \in Runs |-> IdleRun("none", 0)]
  /\ asking = [a \in Asks |-> "new"]
  /\ session = [a \in Asks |-> NoSession]
  /\ reading = [r \in Readers |-> IdleReader]
  /\ reminded = [s \in StepSet \X People |-> 0]
  /\ asked = [p \in People |-> 0]
  /\ jobsMet = FALSE /\ asksMet = FALSE /\ unlogged = FALSE
  /\ reminderFaults = 0

(***************************************************************************)
(* processUserReminders                                                    *)
(***************************************************************************)
RunAt(j, pc) == runs[j].pc = pc
AtWork(j) == runs[j].pc \notin {"none", "waiting", "done"}
RunLeaves == UNCHANGED <<dates, captureVars, asked, asksMet>>

\* enqueueAllUserReminders, and the route that runs a dispatch by hand
addDispatchJob(j) ==
  /\ RunAt(j, "none")
  /\ runs' = [runs EXCEPT ![j].pc = "waiting"]
  /\ RunLeaves /\ UNCHANGED <<log, reminded, jobsMet, unlogged, reminderFaults>>

startDispatchJob(j) ==
  /\ RunAt(j, "waiting")
  /\ runs' = [runs EXCEPT ![j].pc = "select"]
  /\ jobsMet' = (jobsMet \/ \E i \in Runs : AtWork(i))
  /\ RunLeaves /\ UNCHANGED <<log, reminded, unlogged, reminderFaults>>

\* Faulty variant: the log is not looked at.
WithDate(k) == dates
NotLogged(k) == {p \in dates : log[<<k, p>>] = "none"}

\* Faulty variant: the last step is not noticed.
NextStepAlways(j) == [runs[j] EXCEPT !.pc = "select", !.step = @ + 1, !.todo = {}]
NextStepOf(j) == IF runs[j].step = StepNumber THEN [runs[j] EXCEPT !.pc = "expire", !.todo = {}]
                 ELSE [runs[j] EXCEPT !.pc = "select", !.step = @ + 1, !.todo = {}]

selectContacts(j) ==
  /\ RunAt(j, "select")
  /\ runs' = [runs EXCEPT ![j] =
       IF NotLogged(runs[j].step) = {} THEN NextStepOf(j)
       ELSE [@ EXCEPT !.pc = "send", !.todo = NotLogged(runs[j].step)]]
  /\ RunLeaves /\ UNCHANGED <<log, reminded, jobsMet, unlogged, reminderFaults>>

\* The contact the job is at: the first of its rows.
AtContact(j, p) == p \in runs[j].todo /\ p = CHOOSE q \in runs[j].todo : TRUE

sendReminder(j, p) ==
  /\ RunAt(j, "send") /\ AtContact(j, p)
  /\ \/ /\ reminded' = [reminded EXCEPT ![<<runs[j].step, p>>] = @ + 1]
        /\ runs' = [runs EXCEPT ![j].pc = "logSent"]
     \/ /\ MayFail
        /\ runs' = [runs EXCEPT ![j].pc = "logFailed"]
        /\ UNCHANGED reminded
  /\ RunLeaves /\ UNCHANGED <<log, jobsMet, unlogged, reminderFaults>>

AfterContact(j, p) ==
  IF runs[j].todo = {p} THEN NextStepOf(j)
  ELSE [runs[j] EXCEPT !.pc = "send", !.todo = @ \ {p}]

\* Faulty variant: a failure is not logged.
LogSentOnly(s, status) == IF log[s] = "none" /\ status = "sent" THEN [log EXCEPT ![s] = status] ELSE log

\* INSERT ... ON CONFLICT DO NOTHING
LogOnce(s, status) == IF log[s] = "none" THEN [log EXCEPT ![s] = status] ELSE log

logReminder(j, p) ==
  /\ runs[j].pc \in {"logSent", "logFailed"} /\ AtContact(j, p)
  /\ log' = LogOnce(<<runs[j].step, p>>, IF RunAt(j, "logSent") THEN "sent" ELSE "failed")
  /\ runs' = [runs EXCEPT ![j] = AfterContact(j, p)]
  /\ RunLeaves /\ UNCHANGED <<reminded, jobsMet, unlogged, reminderFaults>>

\* The insert fails: the catch clause logs a failure, or cannot do that either.
failLog(j, p) ==
  /\ runs[j].pc \in {"logSent", "logFailed"} /\ AtContact(j, p)
  /\ reminderFaults < MaxReminderFaults
  /\ reminderFaults' = reminderFaults + 1
  /\ \/ /\ RunAt(j, "logSent")
        /\ runs' = [runs EXCEPT ![j].pc = "logFailed"]
        /\ UNCHANGED unlogged
     \/ /\ runs' = [runs EXCEPT ![j] = AfterContact(j, p)]
        /\ unlogged' = TRUE
  /\ RunLeaves /\ UNCHANGED <<log, reminded, jobsMet>>

\* A session that is past its time; a job looks for them when it is done.
Stale(a) == session[a].status = "active" /\ session[a].old

expireStaleCaptureSessions(j) ==
  /\ RunAt(j, "expire")
  /\ session' = [a \in Asks |->
       IF Stale(a) THEN [session[a] EXCEPT !.state = "EXPIRED", !.status = "expired"]
       ELSE session[a]]
  /\ runs' = [runs EXCEPT ![j] = IdleRun("done", 0)]
  /\ UNCHANGED <<dates, log, asking, reading, reminderHistory, reminderFaults>>

\* The query of a step fails: the job goes on with the next step.
failSelect(j) ==
  /\ RunAt(j, "select")
  /\ reminderFaults < MaxReminderFaults
  /\ reminderFaults' = reminderFaults + 1
  /\ runs' = [runs EXCEPT ![j] = NextStepOf(j)]
  /\ unlogged' = TRUE
  /\ RunLeaves /\ UNCHANGED <<log, reminded, jobsMet>>

\* The worker dies, or a query outside of the steps fails: the job runs again.
failDispatchJob(j) ==
  /\ AtWork(j)
  /\ reminderFaults < MaxReminderFaults
  /\ reminderFaults' = reminderFaults + 1
  /\ runs' = [runs EXCEPT ![j] =
       IF @.attempts + 1 < JobAttempts THEN IdleRun("waiting", @.attempts + 1) ELSE IdleRun("done", 0)]
  /\ jobsMet' = TRUE
  /\ RunLeaves /\ UNCHANGED <<log, reminded, unlogged>>

DispatchStep(j) ==
  \/ startDispatchJob(j) \/ selectContacts(j)
  \/ \E p \in People : sendReminder(j, p) \/ logReminder(j, p)
  \/ expireStaleCaptureSessions(j)

(***************************************************************************)
(* processReminderCaptureEvent                                             *)
(***************************************************************************)
Mine(a) == {b \in Asks : b[1] = a[1]}
Active(p) == {a \in Asks : a[1] = p /\ session[a].status = "active"}
AskLeaves == UNCHANGED <<dates, log, runs, reading, reminded, jobsMet, unlogged>>

\* Faulty variant: one more than the limit.
AskedOneMore(a) == Cardinality({b \in Mine(a) : session[b].status # "none"}) <= MaxAsks

\* isInCooldown (whose end the clock decides), hasExceededRetryCount, and no
\* active session
MayAsk(a) == Cardinality({b \in Mine(a) : session[b].status # "none"}) < MaxAsks

checkCapture(a) ==
  /\ asking[a] = "new"
  /\ asking' = [asking EXCEPT ![a] = IF MayAsk(a) /\ Active(a[1]) = {} THEN "ask" ELSE "done"]
  /\ asksMet' = (asksMet \/ \E b \in Mine(a) : asking[b] \in {"ask", "insert"})
  /\ AskLeaves /\ UNCHANGED <<session, asked, reminderFaults>>

askPermission(a) ==
  /\ asking[a] = "ask"
  /\ \/ asked' = [asked EXCEPT ![a[1]] = @ + 1] /\ asking' = [asking EXCEPT ![a] = "insert"]
     \/ MayFail /\ asking' = [asking EXCEPT ![a] = "done"] /\ UNCHANGED asked
  /\ AskLeaves /\ UNCHANGED <<session, asksMet, reminderFaults>>

\* The SELECT and the unique index let one session of a conversation be active.
insertCaptureSession(a) ==
  /\ asking[a] = "insert"
  /\ session' = IF Active(a[1]) # {} THEN session
                ELSE [session EXCEPT ![a] =
                        [state |-> "ASK_PERMISSION", status |-> "active", old |-> FALSE]]
  /\ asking' = [asking EXCEPT ![a] = "done"]
  /\ AskLeaves /\ UNCHANGED <<asked, asksMet, reminderFaults>>

failCapture(a) ==
  /\ asking[a] = "insert"
  /\ reminderFaults < MaxReminderFaults
  /\ reminderFaults' = reminderFaults + 1
  /\ asking' = [asking EXCEPT ![a] = "done"]
  /\ asksMet' = TRUE
  /\ AskLeaves /\ UNCHANGED <<session, asked>>

\* expires_at passes.
ageSession(a) ==
  /\ session[a].status = "active" /\ ~session[a].old
  /\ session' = [session EXCEPT ![a].old = TRUE]
  /\ UNCHANGED <<dates, log, runs, asking, reading, reminderHistory, reminderFaults>>

(***************************************************************************)
(* The router: getActiveCaptureSession, then handleCaptureSessionReply     *)
(***************************************************************************)
ReaderAt(r, pc) == reading[r].pc = pc
ReaderDone(r) == reading' = [reading EXCEPT ![r] = IdleReader]
ReaderLeaves == UNCHANGED <<log, runs, asking, reminderHistory, reminderFaults>>

\* What the session is at decides what the answer means.
Meaning(state, answer) ==
  CASE answer = "no" -> "cancel"
    [] answer = "yes" /\ state = "ASK_PERMISSION" -> "permit"
    [] answer = "date" /\ state = "ASK_DATE" -> "save"
    [] OTHER -> "idle"

readSession(r) ==
  /\ ReaderAt(r, "idle")
  /\ \E a \in Asks, answer \in Answers :
       LET pc == Meaning(session[a].state, answer) IN
       /\ session[a].status = "active"
       /\ reading' = [reading EXCEPT ![r] = IF pc = "idle" THEN IdleReader ELSE [pc |-> pc, of |-> a]]
  /\ UNCHANGED <<dates, session>> /\ ReaderLeaves

SetSession(a, state, status) ==
  session' = [session EXCEPT ![a].state = state, ![a].status = status]

\* By id, whatever has become of the session; the status is not written.
permitCapture(r) ==
  /\ ReaderAt(r, "permit")
  /\ SetSession(reading[r].of, "ASK_DATE", session[reading[r].of].status)
  /\ ReaderDone(r)
  /\ UNCHANGED dates /\ ReaderLeaves

cancelCapture(r) ==
  /\ ReaderAt(r, "cancel")
  /\ SetSession(reading[r].of, "CANCELLED", "cancelled")
  /\ ReaderDone(r)
  /\ UNCHANGED dates /\ ReaderLeaves

saveDateToContactField(r) ==
  /\ ReaderAt(r, "save")
  /\ dates' = dates \cup {reading[r].of[1]}
  /\ reading' = [reading EXCEPT ![r].pc = "complete"]
  /\ UNCHANGED session /\ ReaderLeaves

completeCapture(r) ==
  /\ ReaderAt(r, "complete")
  /\ SetSession(reading[r].of, "COMPLETE", "complete")
  /\ ReaderDone(r)
  /\ UNCHANGED dates /\ ReaderLeaves

ReaderStep(r) ==
  permitCapture(r) \/ cancelCapture(r) \/ saveDateToContactField(r) \/ completeCapture(r)

ReminderNext ==
  \/ \E j \in Runs : \/ addDispatchJob(j) \/ DispatchStep(j) \/ failSelect(j) \/ failDispatchJob(j)
                     \/ \E p \in People : failLog(j, p)
  \/ \E a \in Asks : \/ checkCapture(a) \/ askPermission(a) \/ insertCaptureSession(a)
                     \/ failCapture(a) \/ ageSession(a)
  \/ \E r \in Readers : readSession(r) \/ ReaderStep(r)

ReminderSpec == ReminderInit /\ [][ReminderNext]_reminderVars

\* The workers run the jobs there are; handlers that have begun go on.  No
\* contact has to answer and no event has to come.
ReminderFairness ==
  /\ \A j \in Runs : WF_reminderVars(DispatchStep(j))
  /\ \A r \in Readers : WF_reminderVars(ReaderStep(r))

ReminderFairSpec == ReminderSpec /\ ReminderFairness

(***************************************************************************)
(* Properties                                                              *)
(***************************************************************************)
RunPcSet == {"none", "waiting", "select", "send", "logSent", "logFailed", "expire", "done"}
StateSet == {"none", "ASK_PERMISSION", "ASK_DATE", "COMPLETE", "CANCELLED", "EXPIRED"}
StatusSet == {"none", "active", "complete", "cancelled", "expired"}

\* Every variable keeps its type.
ReminderTypeOK ==
  /\ dates \subseteq People
  /\ log \in [StepSet \X People -> {"none", "sent", "failed"}]
  /\ runs \in [Runs -> [pc : RunPcSet, attempts : Nat, step : StepSet, todo : SUBSET People]]
  /\ asking \in [Asks -> {"new", "ask", "insert", "done"}]
  /\ session \in [Asks -> [state : StateSet, status : StatusSet, old : BOOLEAN]]
  /\ reading \in [Readers -> {IdleReader} \cup
       [pc : {"permit", "cancel", "save", "complete"}, of : Asks]]
  /\ reminded \in [StepSet \X People -> Nat]
  /\ asked \in [People -> Nat]
  /\ jobsMet \in BOOLEAN /\ asksMet \in BOOLEAN /\ unlogged \in BOOLEAN /\ reminderFaults \in Nat

\* "unique indexes in dispatch_log prevent double-sends"
\* (reminder-dispatch-worker-service.ts:133): a contact is sent the reminder
\* of a step at most once.
RemindedOnce == \A s \in StepSet \X People : reminded[s] <= 1

\* ... which holds as long as no two jobs overlap, none is run again and no
\* outcome is left out of the log, though a job follows another every minute, sends fail and
\* dates are captured meanwhile.
RemindedOnceApart == ~jobsMet /\ ~unlogged => RemindedOnce

\* Once a dispatch job has been added, a contact whose date was known in time
\* is in the log in the end, as reminded or as failed, though jobs overlap and
\* one dies, as long as the log is there.
KnownDateIsLogged ==
  \A s \in StepSet \X KnownDates :
    (\E j \in Runs : ~RunAt(j, "none")) ~> (log[s] # "none" \/ unlogged)

\* As long as no two events of a contact overlap and none fails half way, the
\* contact is asked no more often than retry_max_count allows.
AskedWithinLimit ==
  ~asksMet => \A p \in People : asked[p] <= MaxAsks

(***************************************************************************)
(* The inductive invariant behind RemindedOnceApart and AskedWithinLimit   *)
(***************************************************************************)
AtARow(j) == runs[j].pc \in {"send", "logSent", "logFailed"}

OneRunAtWork == \A i, j \in Runs : AtWork(i) /\ AtWork(j) => i = j

\* What a run has selected is still not in the log when it gets there ...
RowsAreNotLogged ==
  \A j \in Runs : AtARow(j) => \A p \in runs[j].todo : log[<<runs[j].step, p>>] = "none"

\* ... and a reminder that is not in the log is about to be.
RemindedIsLogged ==
  \A s \in StepSet \X People :
    reminded[s] > 0 /\ log[s] = "none" =>
      \E j \in Runs : /\ runs[j].pc \in {"logSent", "logFailed"}
                      /\ runs[j].step = s[1] /\ AtContact(j, s[2])

RunsApart ==
  ~jobsMet /\ ~unlogged => OneRunAtWork /\ RowsAreNotLogged /\ RemindedIsLogged /\ RemindedOnce

\* A contact event that has been let through and has not made its session yet.
Asking(a) == asking[a] \in {"ask", "insert"}
SessionsOf(p) == {a \in Asks : a[1] = p /\ session[a].status # "none"}

SessionIsMadeLast == \A a \in Asks : session[a].status # "none" => asking[a] = "done"
ReaderHasSession == \A r \in Readers : ~ReaderAt(r, "idle") => session[reading[r].of].status # "none"
SessionsAreFinite == \A p \in People : IsFiniteSet(SessionsOf(p))

OneAsksAtATime == \A a, b \in Asks : a[1] = b[1] /\ Asking(a) /\ Asking(b) => a = b

\* What the check saw still holds when the session is made.
AskerMayAsk ==
  \A a \in Asks : Asking(a) => Cardinality(SessionsOf(a[1])) < MaxAsks /\ Active(a[1]) = {}

\* A question that was asked has its session or is about to.
AskedHasSession ==
  \A p \in People :
    /\ Cardinality(SessionsOf(p)) <= MaxAsks
    /\ \/ asked[p] <= Cardinality(SessionsOf(p))
       \/ /\ asked[p] <= Cardinality(SessionsOf(p)) + 1
          /\ \E a \in Asks : a[1] = p /\ asking[a] = "insert"

AsksApart == ~asksMet => OneAsksAtATime /\ AskerMayAsk /\ AskedHasSession

ReminderInvariant ==
  /\ ReminderTypeOK
  /\ RunsApart
  /\ SessionIsMadeLast /\ ReaderHasSession /\ SessionsAreFinite
  /\ AsksApart
=============================================================================
