--------------------------- MODULE RemindersProofs ---------------------------
(* Proofs about Reminders, for every set of contacts, jobs, contact events  *)
(* and readers, every number of steps and every limit: its types, that jobs *)
(* that stay apart remind a contact once, and that events that stay apart   *)
(* ask a contact no more often than retry_max_count.                        *)
EXTENDS Reminders, FiniteSetTheorems, TLAPS

RunRecs == [pc : RunPcSet, attempts : Nat, step : StepSet, todo : SUBSET People]
SessionRecs == [state : StateSet, status : StatusSet, old : BOOLEAN]

(***************************************************************************)
(* Types                                                                   *)
(***************************************************************************)
\* What the constants contain.
LEMMA Ranges ==
  /\ StepNumber \in Nat \ {0} /\ JobAttempts \in Nat /\ MaxAsks \in Nat /\ MaxReminderFaults \in Nat
  /\ 1 \in StepSet
  /\ \A a \in Asks : a[1] \in People
  BY ReminderAssumption DEF StepSet

\* A job that goes on to its next step, or that starts over, is a job.
LEMMA RunTypes ==
  ASSUME ReminderTypeOK, NEW j \in Runs
  PROVE  /\ \A pc \in RunPcSet, n \in Nat : IdleRun(pc, n) \in RunRecs
         /\ NextStepOf(j) \in RunRecs
         /\ \A p \in People : AfterContact(j, p) \in RunRecs
  <1>1. runs[j] \in RunRecs
    BY DEF ReminderTypeOK, RunRecs
  <1>2. \A pc \in RunPcSet, n \in Nat : IdleRun(pc, n) \in RunRecs
    BY Ranges DEF IdleRun, RunRecs
  <1>3. NextStepOf(j) \in RunRecs
    <2>1. CASE runs[j].step = StepNumber
      BY <1>1, <2>1 DEF NextStepOf, RunRecs, RunPcSet
    <2>2. CASE runs[j].step # StepNumber
      <3>1. runs[j].step + 1 \in StepSet
        BY <1>1, <2>2, Ranges DEF RunRecs, StepSet
      <3> QED
        BY <1>1, <2>2, <3>1 DEF NextStepOf, RunRecs, RunPcSet
    <2> QED
      BY <2>1, <2>2
  <1>4. \A p \in People : AfterContact(j, p) \in RunRecs
    BY <1>1, <1>3 DEF AfterContact, RunRecs, RunPcSet
  <1> QED
    BY <1>2, <1>3, <1>4

\* The jobs keep their type.
LEMMA RunsType ==
  ASSUME ReminderTypeOK, ReminderNext
  PROVE  runs' \in [Runs -> RunRecs]
  <1>1. runs \in [Runs -> RunRecs]
    BY DEF ReminderTypeOK, RunRecs
  <1>2. CASE UNCHANGED runs
    BY <1>1, <1>2
  <1>3. ASSUME NEW j \in Runs, NEW r \in RunRecs, runs' = [runs EXCEPT ![j] = r]
        PROVE  runs' \in [Runs -> RunRecs]
    BY <1>1, <1>3
  <1>4. ASSUME NEW j \in Runs, NEW pc \in RunPcSet, runs' = [runs EXCEPT ![j].pc = pc]
        PROVE  runs' \in [Runs -> RunRecs]
    BY <1>1, <1>4 DEF RunRecs
  <1>5. ASSUME NEW j \in Runs, addDispatchJob(j) \/ startDispatchJob(j)
        PROVE  runs' \in [Runs -> RunRecs]
    BY <1>4, <1>5 DEF addDispatchJob, startDispatchJob, RunPcSet
  <1>6. ASSUME NEW j \in Runs, selectContacts(j)
        PROVE  runs' \in [Runs -> RunRecs]
    <2>1. [runs[j] EXCEPT !.pc = "send", !.todo = NotLogged(runs[j].step)] \in RunRecs
      <3>1. NotLogged(runs[j].step) \subseteq People /\ "send" \in RunPcSet
        BY DEF ReminderTypeOK, NotLogged, RunPcSet
      <3> QED
        BY <1>1, <3>1 DEF RunRecs
    <2> QED
      BY <1>1, <1>6, <2>1, RunTypes DEF selectContacts
  <1>7. ASSUME NEW j \in Runs, NEW p \in People, sendReminder(j, p)
        PROVE  runs' \in [Runs -> RunRecs]
    BY <1>4, <1>7 DEF sendReminder, RunPcSet
  <1>8. ASSUME NEW j \in Runs, NEW p \in People, logReminder(j, p) \/ failLog(j, p)
        PROVE  runs' \in [Runs -> RunRecs]
    BY <1>3, <1>4, <1>8, RunTypes DEF logReminder, failLog, RunPcSet
  <1>9. ASSUME NEW j \in Runs, expireStaleCaptureSessions(j) \/ failSelect(j)
        PROVE  runs' \in [Runs -> RunRecs]
    BY <1>3, <1>9, RunTypes DEF expireStaleCaptureSessions, failSelect, RunPcSet
  <1>10. ASSUME NEW j \in Runs, failDispatchJob(j)
         PROVE  runs' \in [Runs -> RunRecs]
    <2>1. runs[j].attempts + 1 \in Nat
      BY <1>1 DEF RunRecs
    <2> QED
      BY <1>1, <1>10, <2>1, RunTypes DEF failDispatchJob, RunPcSet
  <1>11. ASSUME NEW a \in Asks, checkCapture(a) \/ askPermission(a) \/ insertCaptureSession(a)
                                \/ failCapture(a) \/ ageSession(a)
         PROVE  UNCHANGED runs
    BY <1>11 DEF checkCapture, askPermission, insertCaptureSession, failCapture, ageSession, AskLeaves
  <1>12. ASSUME NEW r \in Readers, readSession(r) \/ ReaderStep(r)
         PROVE  UNCHANGED runs
    BY <1>12 DEF readSession, ReaderStep, permitCapture, cancelCapture, saveDateToContactField,
                 completeCapture, ReaderLeaves
  <1> QED
    BY <1>2, <1>5, <1>6, <1>7, <1>8, <1>9, <1>10, <1>11, <1>12 DEF ReminderNext, DispatchStep

\* The sessions, and what reads them, keep their type.
LEMMA SessionsType ==
  ASSUME ReminderTypeOK, ReminderNext
  PROVE  /\ session' \in [Asks -> SessionRecs]
         /\ reading' \in [Readers -> {IdleReader} \cup
                           [pc : {"permit", "cancel", "save", "complete"}, of : Asks]]
         /\ dates' \subseteq People
  <1> DEFINE Handling == [pc : {"permit", "cancel", "save", "complete"}, of : Asks]
             Goal == /\ session' \in [Asks -> SessionRecs]
                     /\ reading' \in [Readers -> {IdleReader} \cup Handling]
                     /\ dates' \subseteq People
  <1>1. /\ session \in [Asks -> SessionRecs] /\ dates \subseteq People
        /\ reading \in [Readers -> {IdleReader} \cup Handling]
    BY DEF ReminderTypeOK, SessionRecs
  <1>2. ASSUME UNCHANGED <<dates, session, reading>>
        PROVE  Goal
    BY <1>1, <1>2
  <1>3. ASSUME NEW j \in Runs, expireStaleCaptureSessions(j)
        PROVE  Goal
    <2>1. \A a \in Asks :
            [session[a] EXCEPT !.state = "EXPIRED", !.status = "expired"] \in SessionRecs
      <3>1. ASSUME NEW a \in Asks
            PROVE  [session[a] EXCEPT !.state = "EXPIRED", !.status = "expired"] \in SessionRecs
        <4>1. session[a] \in SessionRecs
          BY <1>1
        <4> QED
          BY <4>1 DEF SessionRecs, StateSet, StatusSet
      <3> QED
        BY <3>1
    <2> QED
      BY <1>1, <1>3, <2>1 DEF expireStaleCaptureSessions
  <1>4. ASSUME NEW a \in Asks, insertCaptureSession(a) \/ ageSession(a)
        PROVE  Goal
    <2>1. [state |-> "ASK_PERMISSION", status |-> "active", old |-> FALSE] \in SessionRecs
      BY DEF SessionRecs, StateSet, StatusSet
    <2>2. [session[a] EXCEPT !.old = TRUE] \in SessionRecs
      BY <1>1 DEF SessionRecs
    <2> QED
      BY <1>1, <1>4, <2>1, <2>2 DEF insertCaptureSession, ageSession, AskLeaves
  <1>5. ASSUME NEW r \in Readers, readSession(r)
        PROVE  Goal
    <2>1. PICK a \in Asks, answer \in Answers :
            reading' = [reading EXCEPT ![r] = IF Meaning(session[a].state, answer) = "idle"
                                              THEN IdleReader
                                              ELSE [pc |-> Meaning(session[a].state, answer), of |-> a]]
      BY <1>5 DEF readSession
    <2>2. Meaning(session[a].state, answer) \in {"idle", "permit", "cancel", "save"}
      BY DEF Meaning
    <2> QED
      BY <1>1, <1>5, <2>1, <2>2 DEF readSession
  <1>6. ASSUME NEW r \in Readers, ReaderStep(r)
        PROVE  Goal
    <2>1. reading[r] \in Handling
      BY <1>1, <1>6 DEF ReaderStep, permitCapture, cancelCapture, saveDateToContactField,
                        completeCapture, ReaderAt, IdleReader
    <2>2. reading[r].of \in Asks /\ reading[r].of[1] \in People
      BY <2>1, Ranges
    <2>3. \A state \in StateSet, status \in StatusSet :
            [session[reading[r].of] EXCEPT !.state = state, !.status = status] \in SessionRecs
      BY <1>1, <2>2 DEF SessionRecs
    <2>4. session[reading[r].of].status \in StatusSet
      BY <1>1, <2>2 DEF SessionRecs
    <2>5. CASE permitCapture(r)
      BY <1>1, <2>2, <2>3, <2>4, <2>5
         DEF permitCapture, SetSession, ReaderDone, StateSet
    <2>6. CASE cancelCapture(r)
      BY <1>1, <2>2, <2>3, <2>6 DEF cancelCapture, SetSession, ReaderDone, StateSet, StatusSet
    <2>8. CASE completeCapture(r)
      BY <1>1, <2>2, <2>3, <2>8 DEF completeCapture, SetSession, ReaderDone, StateSet, StatusSet
    <2>7. CASE saveDateToContactField(r)
      <3>1. [reading[r] EXCEPT !.pc = "complete"] \in Handling
        BY <2>1
      <3> QED
        BY <1>1, <2>2, <2>7, <3>1 DEF saveDateToContactField
    <2> QED
      BY <1>6, <2>5, <2>6, <2>7, <2>8 DEF ReaderStep
  <1>7. ASSUME NEW j \in Runs, NEW p \in People,
               \/ addDispatchJob(j) \/ startDispatchJob(j) \/ selectContacts(j)
               \/ sendReminder(j, p) \/ logReminder(j, p) \/ failLog(j, p)
               \/ failSelect(j) \/ failDispatchJob(j)
        PROVE  Goal
    BY <1>2, <1>7 DEF addDispatchJob, startDispatchJob, selectContacts, sendReminder, logReminder,
                      failLog, failSelect, failDispatchJob, RunLeaves, captureVars
  <1>8. ASSUME NEW a \in Asks, checkCapture(a) \/ askPermission(a) \/ failCapture(a)
        PROVE  Goal
    BY <1>2, <1>8 DEF checkCapture, askPermission, failCapture, AskLeaves
  <1>9. ASSUME NEW j \in Runs,
               addDispatchJob(j) \/ startDispatchJob(j) \/ selectContacts(j)
               \/ failSelect(j) \/ failDispatchJob(j)
        PROVE  Goal
    BY <1>2, <1>9 DEF addDispatchJob, startDispatchJob, selectContacts, failSelect, failDispatchJob,
                      RunLeaves, captureVars
  <1> HIDE DEF Goal
  <1>10. Goal
    BY <1>3, <1>4, <1>5, <1>6, <1>7, <1>8, <1>9 DEF ReminderNext, DispatchStep
  <1> QED
    BY <1>10 DEF Goal

\* The flags of the history keep their type, and the faults are counted.
LEMMA FlagsType ==
  ASSUME ReminderTypeOK, ReminderNext
  PROVE  /\ jobsMet' \in BOOLEAN /\ asksMet' \in BOOLEAN /\ unlogged' \in BOOLEAN
         /\ reminderFaults' \in {reminderFaults, reminderFaults + 1}
  <1> DEFINE Goal == /\ jobsMet' \in BOOLEAN /\ asksMet' \in BOOLEAN /\ unlogged' \in BOOLEAN
                     /\ reminderFaults' \in {reminderFaults, reminderFaults + 1}
  <1>1. jobsMet \in BOOLEAN /\ asksMet \in BOOLEAN /\ unlogged \in BOOLEAN
    BY DEF ReminderTypeOK
  <1>2. ASSUME NEW j \in Runs, startDispatchJob(j)
        PROVE  Goal
    BY <1>1, <1>2, Zenon DEF startDispatchJob, RunLeaves
  <1>3. ASSUME NEW j \in Runs,
               \/ addDispatchJob(j) \/ selectContacts(j) \/ expireStaleCaptureSessions(j)
               \/ failSelect(j) \/ failDispatchJob(j)
        PROVE  Goal
    BY <1>1, <1>3, Zenon DEF addDispatchJob, selectContacts, expireStaleCaptureSessions,
                      failSelect, failDispatchJob, RunLeaves, reminderHistory
  <1>4. ASSUME NEW j \in Runs, NEW p \in People,
               sendReminder(j, p) \/ logReminder(j, p) \/ failLog(j, p)
        PROVE  Goal
    BY <1>1, <1>4, Zenon DEF sendReminder, logReminder, failLog, RunLeaves
  <1>5. ASSUME NEW a \in Asks,
               checkCapture(a) \/ askPermission(a) \/ insertCaptureSession(a) \/ failCapture(a)
               \/ ageSession(a)
        PROVE  Goal
    BY <1>1, <1>5, Zenon DEF checkCapture, askPermission, insertCaptureSession, failCapture,
                             ageSession, AskLeaves, reminderHistory
  <1>6. ASSUME NEW r \in Readers, readSession(r) \/ ReaderStep(r)
        PROVE  Goal
    BY <1>1, <1>6, Zenon DEF readSession, ReaderStep, permitCapture, cancelCapture,
                             saveDateToContactField, completeCapture, ReaderLeaves, reminderHistory
  <1> HIDE DEF Goal
  <1>7. Goal
    BY <1>2, <1>3, <1>4, <1>5, <1>6 DEF ReminderNext, DispatchStep
  <1> QED
    BY <1>7 DEF Goal

\* What the log, the reminders sent and the questions asked hold keeps its type.
LEMMA LogType ==
  ASSUME ReminderTypeOK, ReminderNext
  PROVE  /\ log' \in [StepSet \X People -> {"none", "sent", "failed"}]
         /\ asking' \in [Asks -> {"new", "ask", "insert", "done"}]
         /\ reminded' \in [StepSet \X People -> Nat]
         /\ asked' \in [People -> Nat]
  <1>1. /\ log \in [StepSet \X People -> {"none", "sent", "failed"}]
        /\ asking \in [Asks -> {"new", "ask", "insert", "done"}]
        /\ reminded \in [StepSet \X People -> Nat]
        /\ asked \in [People -> Nat]
    BY DEF ReminderTypeOK
  <1> DEFINE Goal == /\ log' \in [StepSet \X People -> {"none", "sent", "failed"}]
                     /\ asking' \in [Asks -> {"new", "ask", "insert", "done"}]
                     /\ reminded' \in [StepSet \X People -> Nat]
                     /\ asked' \in [People -> Nat]
  <1>2. ASSUME UNCHANGED <<log, asking, reminded, asked>>
        PROVE  Goal
    BY <1>1, <1>2
  <1>3. ASSUME NEW j \in Runs,
               \/ addDispatchJob(j) \/ startDispatchJob(j) \/ selectContacts(j)
               \/ expireStaleCaptureSessions(j) \/ failSelect(j) \/ failDispatchJob(j)
        PROVE  Goal
    BY <1>2, <1>3 DEF addDispatchJob, startDispatchJob, selectContacts, expireStaleCaptureSessions,
                      failSelect, failDispatchJob, RunLeaves, captureVars, reminderHistory
  <1>4. ASSUME NEW j \in Runs, NEW p \in People,
               sendReminder(j, p) \/ logReminder(j, p) \/ failLog(j, p)
        PROVE  Goal
    <2>1. <<runs[j].step, p>> \in StepSet \X People
      BY DEF ReminderTypeOK
    <2>2. CASE sendReminder(j, p)
      BY <1>1, <2>1, <2>2 DEF sendReminder, RunLeaves, captureVars
    <2>3. CASE logReminder(j, p)
      BY <1>1, <2>1, <2>3 DEF logReminder, LogOnce, RunLeaves, captureVars
    <2>4. CASE failLog(j, p)
      BY <1>2, <2>4 DEF failLog, RunLeaves, captureVars
    <2> QED
      BY <1>4, <2>2, <2>3, <2>4
  <1>5. ASSUME NEW a \in Asks, checkCapture(a) \/ insertCaptureSession(a) \/ failCapture(a)
        PROVE  Goal
    BY <1>1, <1>5 DEF checkCapture, insertCaptureSession, failCapture, AskLeaves
  <1>6. ASSUME NEW a \in Asks, askPermission(a)
        PROVE  Goal
    <2>1. a[1] \in People
      BY Ranges
    <2> QED
      BY <1>1, <1>6, <2>1 DEF askPermission, AskLeaves
  <1>7. ASSUME NEW a \in Asks, ageSession(a)
        PROVE  Goal
    BY <1>2, <1>7 DEF ageSession, reminderHistory
  <1>8. ASSUME NEW r \in Readers, readSession(r) \/ ReaderStep(r)
        PROVE  Goal
    BY <1>2, <1>8 DEF readSession, ReaderStep, permitCapture, cancelCapture, saveDateToContactField,
                      completeCapture, ReaderLeaves, reminderHistory
  <1> HIDE DEF Goal
  <1>9. Goal
    BY <1>3, <1>4, <1>5, <1>6, <1>7, <1>8 DEF ReminderNext, DispatchStep
  <1> QED
    BY <1>9 DEF Goal

\* Every variable keeps its type, initially ...
LEMMA InitTypes == ReminderInit => ReminderTypeOK
  <1> SUFFICES ASSUME ReminderInit
               PROVE  ReminderTypeOK
    OBVIOUS
  <1>1. runs \in [Runs -> RunRecs]
    <2>1. IdleRun("none", 0) \in RunRecs
      BY Ranges DEF IdleRun, RunRecs, RunPcSet
    <2> QED
      BY <2>1 DEF ReminderInit
  <1>2. session \in [Asks -> SessionRecs]
    <2>1. NoSession \in SessionRecs
      BY DEF NoSession, SessionRecs, StateSet, StatusSet
    <2> QED
      BY <2>1 DEF ReminderInit
  <1>3. /\ dates \subseteq People
        /\ log \in [StepSet \X People -> {"none", "sent", "failed"}]
        /\ asking \in [Asks -> {"new", "ask", "insert", "done"}]
        /\ reminded \in [StepSet \X People -> Nat]
        /\ asked \in [People -> Nat]
        /\ reminderFaults \in Nat
    BY ReminderAssumption DEF ReminderInit
  <1>4. jobsMet \in BOOLEAN /\ asksMet \in BOOLEAN /\ unlogged \in BOOLEAN
    BY DEF ReminderInit
  <1>5. reading \in [Readers -> {IdleReader}]
    BY DEF ReminderInit
  <1> QED
    BY <1>1, <1>2, <1>3, <1>4, <1>5 DEF ReminderTypeOK, RunRecs, SessionRecs

\* ... and in every step.
LEMMA NextTypes == ReminderTypeOK /\ [ReminderNext]_reminderVars => ReminderTypeOK'
  <1>1. CASE UNCHANGED reminderVars
    BY <1>1 DEF reminderVars, captureVars, reminderHistory, ReminderTypeOK
  <1>2. ASSUME ReminderTypeOK, ReminderNext
        PROVE  ReminderTypeOK'
    <2>1. reminderFaults \in Nat
      BY <1>2 DEF ReminderTypeOK
    <2>2. reminderFaults' \in Nat
      BY <1>2, <2>1, FlagsType
    <2> QED
      BY <1>2, <2>2, RunsType, SessionsType, LogType, FlagsType, Zenon
         DEF ReminderTypeOK, RunRecs, SessionRecs
  <1> QED
    BY <1>1, <1>2

\* Every variable of Reminders keeps its type.
THEOREM ReminderTypes == ReminderSpec => []ReminderTypeOK
  BY InitTypes, NextTypes, PTL DEF ReminderSpec

(***************************************************************************)
(* Jobs that stay apart                                                    *)
(***************************************************************************)
\* Nothing that happened is forgotten.
LEMMA FlagsStay ==
  ASSUME ReminderTypeOK, ReminderNext
  PROVE  (jobsMet => jobsMet') /\ (unlogged => unlogged') /\ (asksMet => asksMet')
  <1> DEFINE Goal == /\ jobsMet = TRUE => jobsMet' = TRUE
                     /\ unlogged = TRUE => unlogged' = TRUE
                     /\ asksMet = TRUE => asksMet' = TRUE
  <1>1. ASSUME NEW j \in Runs, NEW p \in People,
               sendReminder(j, p) \/ logReminder(j, p) \/ failLog(j, p)
        PROVE  Goal
    BY <1>1 DEF sendReminder, logReminder, failLog, RunLeaves
  <1>2. ASSUME NEW j \in Runs,
               \/ addDispatchJob(j) \/ startDispatchJob(j) \/ selectContacts(j)
               \/ expireStaleCaptureSessions(j) \/ failSelect(j) \/ failDispatchJob(j)
        PROVE  Goal
    BY <1>2 DEF addDispatchJob, startDispatchJob, selectContacts, expireStaleCaptureSessions,
                       failSelect, failDispatchJob, RunLeaves, reminderHistory
  <1>3. ASSUME NEW a \in Asks,
               checkCapture(a) \/ askPermission(a) \/ insertCaptureSession(a) \/ failCapture(a)
               \/ ageSession(a)
        PROVE  Goal
    BY <1>3 DEF checkCapture, askPermission, insertCaptureSession, failCapture,
                       ageSession, AskLeaves, reminderHistory
  <1>4. ASSUME NEW r \in Readers, readSession(r) \/ ReaderStep(r)
        PROVE  Goal
    BY <1>4 DEF readSession, ReaderStep, permitCapture, cancelCapture,
                       saveDateToContactField, completeCapture, ReaderLeaves, reminderHistory
  <1> HIDE DEF Goal
  <1>5. Goal
    BY <1>1, <1>2, <1>3, <1>4 DEF ReminderNext, DispatchStep
  <1> QED
    BY <1>5, FlagsType DEF Goal, ReminderTypeOK

\* A job is at one contact at a time, and stays there while its rows stay.
LEMMA OneContact ==
  ASSUME NEW j \in Runs
  PROVE  /\ \A p, q \in People : AtContact(j, p) /\ AtContact(j, q) => p = q
         /\ runs'[j].todo = runs[j].todo => \A p \in People : AtContact(j, p) => AtContact(j, p)'
  BY DEF AtContact

\* When the one run at work moves, it is the only one that may be at a row.
LEMMA WorkingRun ==
  ASSUME ReminderTypeOK, OneRunAtWork, NEW j \in Runs, AtWork(j), NEW r \in RunRecs,
         runs' = [runs EXCEPT ![j] = r]
  PROVE  /\ OneRunAtWork' /\ runs'[j] = r
         /\ \A i \in Runs : AtARow(i) \/ AtARow(i)' => i = j
  <1>1. runs \in [Runs -> RunRecs]
    BY DEF ReminderTypeOK, RunRecs
  <1>2. runs'[j] = r /\ \A i \in Runs : i # j => runs'[i] = runs[i] /\ ~AtWork(i)
    BY <1>1 DEF OneRunAtWork
  <1>3. \A i \in Runs : AtWork(i)' => i = j
    BY <1>2 DEF AtWork
  <1>4. \A i \in Runs : (AtARow(i) => AtWork(i)) /\ (AtARow(i)' => AtWork(i)')
    BY DEF AtARow, AtWork
  <1> QED
    BY <1>2, <1>3, <1>4 DEF OneRunAtWork

\* A job that is not at a row has logged all it has sent.
LEMMA AllLogged ==
  ASSUME OneRunAtWork, RemindedIsLogged, NEW j \in Runs, AtWork(j),
         ~(runs[j].pc \in {"logSent", "logFailed"}), NEW s \in StepSet \X People
  PROVE  ~(reminded[s] > 0 /\ log[s] = "none")
  BY DEF OneRunAtWork, RemindedIsLogged, AtWork

Apart == OneRunAtWork /\ RowsAreNotLogged /\ RemindedIsLogged /\ RemindedOnce

\* A step that sends and logs nothing keeps the jobs apart, if the job ends
\* up at rows that are not in the log, and had none to log.
LEMMA QuietStep ==
  ASSUME ReminderTypeOK, Apart, NEW j \in Runs, AtWork(j), NEW r \in RunRecs,
         runs' = [runs EXCEPT ![j] = r], log' = log, reminded' = reminded,
         \A p \in r.todo : log[<<r.step, p>>] = "none",
         \/ ~(runs[j].pc \in {"logSent", "logFailed"})
         \/ r = [runs[j] EXCEPT !.pc = "logFailed"]
  PROVE  Apart'
  <1>0. OneRunAtWork' /\ runs'[j] = r /\ \A i \in Runs : AtARow(i)' => i = j
    BY WorkingRun DEF Apart
  <1>1. OneRunAtWork' /\ RowsAreNotLogged' /\ RemindedOnce'
    <2>1. RowsAreNotLogged'
      BY <1>0 DEF RowsAreNotLogged
    <2>2. RemindedOnce'
      BY DEF Apart, RemindedOnce
    <2> QED
      BY <1>0, <2>1, <2>2
  <1>2. ASSUME NEW s \in StepSet \X People, reminded'[s] > 0 /\ log'[s] = "none"
        PROVE  \E i \in Runs : /\ runs'[i].pc \in {"logSent", "logFailed"}
                               /\ runs'[i].step = s[1] /\ AtContact(i, s[2])'
    <2>1. PICK i \in Runs : /\ runs[i].pc \in {"logSent", "logFailed"}
                            /\ runs[i].step = s[1] /\ AtContact(i, s[2])
      BY <1>2 DEF Apart, RemindedIsLogged
    <2>2. i = j
      BY <2>1, WorkingRun DEF Apart, AtARow
    <2>3. r = [runs[j] EXCEPT !.pc = "logFailed"] /\ runs[j] \in RunRecs /\ runs'[j] = r
      BY <2>1, <2>2, WorkingRun DEF Apart, ReminderTypeOK, RunRecs
    <2>4. runs'[j].pc = "logFailed" /\ runs'[j].step = runs[j].step /\ runs'[j].todo = runs[j].todo
      BY <2>3 DEF RunRecs
    <2>5. s[2] \in People
      OBVIOUS
    <2> QED
      BY <2>1, <2>2, <2>4, <2>5, OneContact
  <1> QED
    BY <1>1, <1>2 DEF Apart, RemindedIsLogged

\* What a job does next is at no row.
LEMMA NextStepRows ==
  ASSUME ReminderTypeOK, NEW j \in Runs
  PROVE  NextStepOf(j).todo = {} /\ NextStepOf(j).pc \in {"select", "expire"}
  <1>1. runs[j] \in RunRecs
    BY DEF ReminderTypeOK, RunRecs
  <1> QED
    BY <1>1 DEF NextStepOf, RunRecs

\* A reminder goes to a contact whose row the job has selected.
LEMMA SendStep ==
  ASSUME ReminderTypeOK, Apart, NEW j \in Runs, NEW p \in People, sendReminder(j, p)
  PROVE  Apart'
  <1> DEFINE k == <<runs[j].step, p>>
  <1>1. /\ runs[j] \in RunRecs /\ runs[j].pc = "send" /\ AtContact(j, p) /\ p \in runs[j].todo
        /\ AtWork(j) /\ AtARow(j) /\ log' = log /\ k \in StepSet \X People
    BY DEF ReminderTypeOK, RunRecs, sendReminder, RunAt, AtContact, AtWork, AtARow, RunLeaves
  <1>2. \A q \in runs[j].todo : log[<<runs[j].step, q>>] = "none"
    BY <1>1 DEF Apart, RowsAreNotLogged
  <1>3. CASE runs' = [runs EXCEPT ![j].pc = "logFailed"] /\ reminded' = reminded
    <2>1. [runs[j] EXCEPT !.pc = "logFailed"] \in RunRecs
      BY <1>1 DEF RunRecs, RunPcSet
    <2> QED
      BY <1>1, <1>2, <1>3, <2>1, QuietStep DEF RunRecs
  <1>4. CASE /\ runs' = [runs EXCEPT ![j].pc = "logSent"]
             /\ reminded' = [reminded EXCEPT ![k] = @ + 1]
    <2> DEFINE r == [runs[j] EXCEPT !.pc = "logSent"]
    <2>1. /\ r \in RunRecs /\ r.pc = "logSent" /\ r.step = runs[j].step /\ r.todo = runs[j].todo
          /\ runs' = [runs EXCEPT ![j] = r]
      BY <1>1, <1>4 DEF RunRecs, RunPcSet
    <2> HIDE DEF r
    <2>2. OneRunAtWork' /\ runs'[j] = r /\ \A i \in Runs : AtARow(i)' => i = j
      BY <1>1, <2>1, WorkingRun DEF Apart
    <2>3. \A s \in StepSet \X People : ~(reminded[s] > 0 /\ log[s] = "none")
      BY <1>1, AllLogged DEF Apart
    <2>4. reminded \in [StepSet \X People -> Nat]
      BY DEF ReminderTypeOK
    <2>5. log[k] = "none" /\ reminded[k] = 0
      BY <1>1, <1>2, <2>3, <2>4
    <2>6. RowsAreNotLogged'
      BY <1>1, <1>2, <2>1, <2>2 DEF RowsAreNotLogged
    <2>7. RemindedOnce'
      BY <1>1, <1>4, <2>4, <2>5 DEF Apart, RemindedOnce
    <2>8. RemindedIsLogged'
      <3> SUFFICES ASSUME NEW s \in StepSet \X People, reminded'[s] > 0, log'[s] = "none"
                   PROVE  \E i \in Runs : /\ runs'[i].pc \in {"logSent", "logFailed"}
                                          /\ runs'[i].step = s[1] /\ AtContact(i, s[2])'
        BY DEF RemindedIsLogged
      <3>1. s = k
        BY <1>1, <1>4, <2>3, <2>4
      <3>2. AtContact(j, p)'
        BY <1>1, <2>1, <2>2, OneContact
      <3> QED
        BY <2>1, <2>2, <3>1, <3>2
    <2> QED
      BY <2>2, <2>6, <2>7, <2>8 DEF Apart
  <1> QED
    BY <1>3, <1>4 DEF sendReminder

\* The row a job logs is the one it has sent, or failed to send.
LEMMA LogStep ==
  ASSUME ReminderTypeOK, Apart, NEW j \in Runs, NEW p \in People, logReminder(j, p)
  PROVE  Apart'
  <1> DEFINE k == <<runs[j].step, p>>
             r == AfterContact(j, p)
  <1>1. /\ runs[j] \in RunRecs /\ runs[j].pc \in {"logSent", "logFailed"} /\ AtContact(j, p)
        /\ AtWork(j) /\ AtARow(j) /\ k \in StepSet \X People /\ p \in runs[j].todo
        /\ r \in RunRecs /\ runs' = [runs EXCEPT ![j] = r] /\ reminded' = reminded
    BY RunTypes DEF ReminderTypeOK, RunRecs, logReminder, AtContact, AtWork, AtARow, RunLeaves
  <1>2. log \in [StepSet \X People -> {"none", "sent", "failed"}]
    BY DEF ReminderTypeOK
  <1>3. log'[k] # "none" /\ \A s \in StepSet \X People : s # k => log'[s] = log[s]
    BY <1>1, <1>2 DEF logReminder, LogOnce
  <1>4. OneRunAtWork' /\ runs'[j] = r /\ \A i \in Runs : AtARow(i) \/ AtARow(i)' => i = j
    BY <1>1, WorkingRun DEF Apart
  <1>5. RowsAreNotLogged'
    <2>1. r.todo = {} \/ (r.todo = runs[j].todo \ {p} /\ r.step = runs[j].step)
      BY <1>1, NextStepRows DEF AfterContact, RunRecs
    <2>2. ASSUME NEW q \in r.todo
          PROVE  log'[<<r.step, q>>] = "none"
      <3>1. q \in runs[j].todo /\ q # p /\ r.step = runs[j].step /\ q \in People
        BY <1>1, <2>1, <2>2 DEF RunRecs
      <3>2. log[<<runs[j].step, q>>] = "none"
        BY <1>1, <3>1 DEF Apart, RowsAreNotLogged
      <3>3. <<r.step, q>> \in StepSet \X People /\ <<r.step, q>> # k
        BY <1>1, <3>1 DEF RunRecs
      <3> QED
        BY <1>3, <3>1, <3>2, <3>3
    <2> QED
      BY <1>4, <2>2 DEF RowsAreNotLogged
  <1>6. RemindedIsLogged'
    <2> SUFFICES ASSUME NEW s \in StepSet \X People, reminded'[s] > 0, log'[s] = "none"
                 PROVE  FALSE
      BY DEF RemindedIsLogged
    <2>1. s # k /\ log[s] = "none" /\ reminded[s] > 0
      BY <1>1, <1>3
    <2>2. PICK i \in Runs : /\ runs[i].pc \in {"logSent", "logFailed"}
                            /\ runs[i].step = s[1] /\ AtContact(i, s[2])
      BY <2>1 DEF Apart, RemindedIsLogged
    <2>3. i = j
      BY <1>4, <2>2 DEF AtARow
    <2>4. s[2] = p /\ s[1] = runs[j].step
      BY <1>1, <2>2, <2>3, OneContact
    <2> QED
      BY <2>1, <2>4
  <1>7. RemindedOnce'
    BY <1>1 DEF Apart, RemindedOnce
  <1> QED
    BY <1>4, <1>5, <1>6, <1>7 DEF Apart

\* A job that is added, or that starts while none is at work, is at no row.
LEMMA StartStep ==
  ASSUME ReminderTypeOK, Apart, NEW j \in Runs, ~jobsMet',
         addDispatchJob(j) \/ startDispatchJob(j)
  PROVE  Apart'
  <1>1. /\ runs \in [Runs -> RunRecs] /\ log' = log /\ reminded' = reminded
        /\ runs[j].pc \in {"none", "waiting"}
    BY DEF ReminderTypeOK, RunRecs, addDispatchJob, startDispatchJob, RunLeaves, RunAt
  <1>2. /\ \A i \in Runs \ {j} : runs'[i] = runs[i]
        /\ runs'[j].pc \in {"waiting", "select"}
    BY <1>1 DEF addDispatchJob, startDispatchJob, RunRecs
  <1>3. runs'[j].pc = "waiting" \/ \A i \in Runs : ~AtWork(i)
    <2>1. CASE addDispatchJob(j)
      BY <1>1, <2>1 DEF addDispatchJob, RunRecs
    <2>2. CASE startDispatchJob(j)
      BY <2>2, Zenon DEF startDispatchJob
    <2> QED
      BY <2>1, <2>2
  <1>4. \A i \in Runs : AtWork(i)' => AtWork(i) \/ (i = j /\ \A h \in Runs : ~AtWork(h))
    BY <1>1, <1>2, <1>3 DEF AtWork
  <1>5. OneRunAtWork'
    BY <1>4 DEF Apart, OneRunAtWork
  <1>6. RowsAreNotLogged'
    BY <1>1, <1>2 DEF Apart, RowsAreNotLogged, AtARow
  <1>7. RemindedIsLogged'
    <2> SUFFICES ASSUME NEW s \in StepSet \X People, reminded'[s] > 0, log'[s] = "none"
                 PROVE  \E i \in Runs : /\ runs'[i].pc \in {"logSent", "logFailed"}
                                        /\ runs'[i].step = s[1] /\ AtContact(i, s[2])'
      BY DEF RemindedIsLogged
    <2>1. PICK i \in Runs : /\ runs[i].pc \in {"logSent", "logFailed"}
                            /\ runs[i].step = s[1] /\ AtContact(i, s[2])
      BY <1>1 DEF Apart, RemindedIsLogged
    <2>2. runs'[i] = runs[i] /\ s[2] \in People
      BY <1>1, <1>2, <2>1
    <2> QED
      BY <2>1, <2>2, OneContact
  <1>8. RemindedOnce'
    BY <1>1 DEF Apart, RemindedOnce
  <1> QED
    BY <1>5, <1>6, <1>7, <1>8 DEF Apart

\* The events of contacts and their answers leave the jobs alone.
LEMMA CaptureLeavesRuns ==
  ASSUME UNCHANGED <<runs, log, reminded>>, Apart
  PROVE  Apart'
  BY DEF Apart, OneRunAtWork, RowsAreNotLogged, RemindedIsLogged, RemindedOnce, AtWork, AtARow,
         AtContact

\* Jobs that stay apart keep what they rely on.
LEMMA RunsApartNext ==
  ASSUME ReminderTypeOK, RunsApart, ReminderNext
  PROVE  RunsApart'
  <1> SUFFICES ASSUME ~jobsMet', ~unlogged'
               PROVE  Apart'
    BY DEF RunsApart, Apart
  <1>1. Apart
    BY FlagsStay DEF RunsApart, Apart
  <1>2. \A j \in Runs : runs[j] \in RunRecs
    BY DEF ReminderTypeOK, RunRecs
  <1>3. ASSUME NEW j \in Runs, addDispatchJob(j) \/ startDispatchJob(j)
        PROVE  Apart'
    BY <1>1, <1>3, StartStep
  <1>4. ASSUME NEW j \in Runs, selectContacts(j)
        PROVE  Apart'
    <2> DEFINE r == IF NotLogged(runs[j].step) = {} THEN NextStepOf(j)
                    ELSE [runs[j] EXCEPT !.pc = "send", !.todo = NotLogged(runs[j].step)]
    <2>1. /\ runs' = [runs EXCEPT ![j] = r] /\ log' = log /\ reminded' = reminded
          /\ AtWork(j) /\ ~(runs[j].pc \in {"logSent", "logFailed"})
      BY <1>4 DEF selectContacts, RunAt, AtWork, RunLeaves
    <2>2. r \in RunRecs
      <3>1. NotLogged(runs[j].step) \subseteq People
        BY DEF NotLogged, ReminderTypeOK
      <3> QED
        BY <1>2, <3>1, RunTypes DEF RunRecs, RunPcSet
    <2>3. \A p \in r.todo : log[<<r.step, p>>] = "none"
      BY <1>2, NextStepRows DEF NotLogged, RunRecs
    <2> HIDE DEF r
    <2> QED
      BY <1>1, <2>1, <2>2, <2>3, QuietStep
  <1>5. ASSUME NEW j \in Runs, NEW p \in People, sendReminder(j, p) \/ logReminder(j, p)
        PROVE  Apart'
    BY <1>1, <1>5, SendStep, LogStep
  <1>6. ASSUME NEW j \in Runs, NEW p \in People, failLog(j, p)
        PROVE  Apart'
    <2>1. /\ runs' = [runs EXCEPT ![j].pc = "logFailed"] /\ log' = log /\ reminded' = reminded
          /\ runs[j].pc = "logSent"
      BY <1>6 DEF failLog, RunLeaves, RunAt
    <2> DEFINE r == [runs[j] EXCEPT !.pc = "logFailed"]
    <2>2. /\ r \in RunRecs /\ runs' = [runs EXCEPT ![j] = r] /\ r.todo = runs[j].todo
          /\ r.step = runs[j].step
      BY <1>2, <2>1 DEF RunRecs, RunPcSet
    <2>3. \A q \in runs[j].todo : log[<<runs[j].step, q>>] = "none"
      BY <1>1, <2>1 DEF Apart, RowsAreNotLogged, AtARow
    <2>4. AtWork(j)
      BY <2>1 DEF AtWork
    <2>5. \A q \in r.todo : log[<<r.step, q>>] = "none"
      BY <2>2, <2>3
    <2>6. r = [runs[j] EXCEPT !.pc = "logFailed"]
      OBVIOUS
    <2> HIDE DEF r
    <2> QED
      BY <1>1, <2>1, <2>2, <2>4, <2>5, <2>6, QuietStep
  <1>7. ASSUME NEW j \in Runs, expireStaleCaptureSessions(j)
        PROVE  Apart'
    <2>1. /\ runs' = [runs EXCEPT ![j] = IdleRun("done", 0)] /\ log' = log /\ reminded' = reminded
          /\ AtWork(j) /\ ~(runs[j].pc \in {"logSent", "logFailed"})
      BY <1>7 DEF expireStaleCaptureSessions, RunAt, AtWork, reminderHistory
    <2>2. IdleRun("done", 0) \in RunRecs /\ IdleRun("done", 0).todo = {}
      BY Ranges DEF IdleRun, RunRecs, RunPcSet
    <2> QED
      BY <1>1, <2>1, <2>2, QuietStep
  <1>8. ASSUME NEW j \in Runs, failSelect(j) \/ failDispatchJob(j)
        PROVE  FALSE
    BY <1>8 DEF failSelect, failDispatchJob
  <1>9. ASSUME NEW a \in Asks, checkCapture(a) \/ askPermission(a) \/ insertCaptureSession(a)
                                \/ failCapture(a) \/ ageSession(a)
        PROVE  Apart'
    BY <1>1, <1>9, CaptureLeavesRuns DEF checkCapture, askPermission, insertCaptureSession,
       failCapture, ageSession, AskLeaves, reminderHistory
  <1>10. ASSUME NEW r \in Readers, readSession(r) \/ ReaderStep(r)
         PROVE  Apart'
    BY <1>1, <1>10, CaptureLeavesRuns DEF readSession, ReaderStep, permitCapture, cancelCapture,
       saveDateToContactField, completeCapture, ReaderLeaves, reminderHistory
  <1> QED
    BY <1>3, <1>4, <1>5, <1>6, <1>7, <1>8, <1>9, <1>10 DEF ReminderNext, DispatchStep

(***************************************************************************)
(* Events that stay apart                                                  *)
(***************************************************************************)
\* A session is made once, by the event it belongs to, and only ends after.
LEMMA SessionMoves ==
  ASSUME ReminderTypeOK, ReaderHasSession, ReminderNext, NEW a \in Asks
  PROVE  \/ session'[a].status = session[a].status
         \/ session[a].status # "none" /\ session'[a].status \in {"complete", "cancelled", "expired"}
         \/ insertCaptureSession(a) /\ Active(a[1]) = {} /\ session'[a].status = "active"
  <1> DEFINE Goal ==
         \/ session'[a].status = session[a].status
         \/ session[a].status # "none" /\ session'[a].status \in {"complete", "cancelled", "expired"}
         \/ insertCaptureSession(a) /\ Active(a[1]) = {} /\ session'[a].status = "active"
  <1>1. session \in [Asks -> SessionRecs]
    BY DEF ReminderTypeOK, SessionRecs
  <1>2. CASE UNCHANGED session
    BY <1>2
  <1>3. ASSUME NEW j \in Runs, NEW p \in People,
               \/ addDispatchJob(j) \/ startDispatchJob(j) \/ selectContacts(j)
               \/ sendReminder(j, p) \/ logReminder(j, p) \/ failLog(j, p)
        PROVE  Goal
    BY <1>2, <1>3 DEF addDispatchJob, startDispatchJob, selectContacts, sendReminder, logReminder,
                      failLog, RunLeaves, captureVars
  <1>4. ASSUME NEW j \in Runs,
               \/ addDispatchJob(j) \/ startDispatchJob(j) \/ selectContacts(j)
               \/ failSelect(j) \/ failDispatchJob(j)
        PROVE  Goal
    BY <1>2, <1>4 DEF addDispatchJob, startDispatchJob, selectContacts, failSelect, failDispatchJob,
                      RunLeaves, captureVars
  <1>5. ASSUME NEW j \in Runs, expireStaleCaptureSessions(j)
        PROVE  Goal
    <2>1. session[a] \in SessionRecs
      BY <1>1
    <2> QED
      BY <1>5, <2>1 DEF expireStaleCaptureSessions, Stale, SessionRecs
  <1>6. ASSUME NEW b \in Asks, checkCapture(b) \/ askPermission(b) \/ failCapture(b)
        PROVE  Goal
    BY <1>2, <1>6 DEF checkCapture, askPermission, failCapture, AskLeaves
  <1>7. ASSUME NEW b \in Asks, insertCaptureSession(b)
        PROVE  Goal
    BY <1>1, <1>7 DEF insertCaptureSession
  <1>8. ASSUME NEW b \in Asks, ageSession(b)
        PROVE  Goal
    <2>1. session[a] \in SessionRecs /\ session[b] \in SessionRecs
      BY <1>1
    <2> QED
      BY <1>1, <1>8, <2>1 DEF ageSession, SessionRecs
  <1>9. ASSUME NEW r \in Readers, readSession(r) \/ saveDateToContactField(r)
        PROVE  Goal
    BY <1>2, <1>9 DEF readSession, saveDateToContactField
  <1>10. ASSUME NEW r \in Readers, permitCapture(r) \/ cancelCapture(r) \/ completeCapture(r)
         PROVE  Goal
    <2>1. reading[r].of \in Asks /\ session[reading[r].of].status # "none"
      <3>1. reading[r].pc # "idle"
        BY <1>10 DEF permitCapture, cancelCapture, completeCapture, ReaderAt
      <3> QED
        BY <3>1 DEF ReminderTypeOK, IdleReader, ReaderHasSession, ReaderAt
    <2>2. session[a] \in SessionRecs /\ session[reading[r].of] \in SessionRecs
      BY <1>1, <2>1
    <2> QED
      BY <1>1, <1>10, <2>1, <2>2
         DEF permitCapture, cancelCapture, completeCapture, SetSession, SessionRecs
  <1> HIDE DEF Goal
  <1>11. Goal
    BY <1>3, <1>4, <1>5, <1>6, <1>7, <1>8, <1>9, <1>10 DEF ReminderNext, DispatchStep, ReaderStep
  <1> QED
    BY <1>11 DEF Goal

\* An event moves by its own handler only, and a question is one handler's.
LEMMA AskingMoves ==
  ASSUME ReminderTypeOK, ReminderNext
  PROVE  \/ UNCHANGED <<asking, asked>>
         \/ \E a \in Asks :
              /\ checkCapture(a) \/ askPermission(a) \/ insertCaptureSession(a) \/ failCapture(a)
              /\ \A b \in Asks \ {a} : asking'[b] = asking[b]
              /\ \A p \in People \ {a[1]} : asked'[p] = asked[p]
  <1> DEFINE Goal ==
         \/ UNCHANGED <<asking, asked>>
         \/ \E a \in Asks :
              /\ checkCapture(a) \/ askPermission(a) \/ insertCaptureSession(a) \/ failCapture(a)
              /\ \A b \in Asks \ {a} : asking'[b] = asking[b]
              /\ \A p \in People \ {a[1]} : asked'[p] = asked[p]
  <1>1. /\ asking \in [Asks -> {"new", "ask", "insert", "done"}]
        /\ asked \in [People -> Nat]
    BY DEF ReminderTypeOK
  <1>2. ASSUME NEW j \in Runs, NEW p \in People,
               sendReminder(j, p) \/ logReminder(j, p) \/ failLog(j, p)
        PROVE  Goal
    BY <1>2 DEF sendReminder, logReminder, failLog, RunLeaves, captureVars
  <1>3. ASSUME NEW j \in Runs,
               \/ addDispatchJob(j) \/ startDispatchJob(j) \/ selectContacts(j)
               \/ expireStaleCaptureSessions(j) \/ failSelect(j) \/ failDispatchJob(j)
        PROVE  Goal
    BY <1>3 DEF addDispatchJob, startDispatchJob, selectContacts, expireStaleCaptureSessions,
                failSelect, failDispatchJob, RunLeaves, captureVars, reminderHistory
  <1>4. ASSUME NEW a \in Asks, checkCapture(a) \/ insertCaptureSession(a) \/ failCapture(a)
        PROVE  Goal
    <2>1. asked' = asked /\ \A b \in Asks \ {a} : asking'[b] = asking[b]
      BY <1>1, <1>4 DEF checkCapture, insertCaptureSession, failCapture, AskLeaves
    <2> QED
      BY <1>4, <2>1
  <1>5. ASSUME NEW a \in Asks, askPermission(a)
        PROVE  Goal
    <2>1. /\ \A p \in People \ {a[1]} : asked'[p] = asked[p]
          /\ \A b \in Asks \ {a} : asking'[b] = asking[b]
      BY <1>1, <1>5 DEF askPermission
    <2> QED
      BY <1>5, <2>1
  <1>6. ASSUME NEW a \in Asks, ageSession(a)
        PROVE  Goal
    BY <1>6 DEF ageSession, reminderHistory
  <1>7. ASSUME NEW r \in Readers, readSession(r) \/ ReaderStep(r)
        PROVE  Goal
    BY <1>7 DEF readSession, ReaderStep, permitCapture, cancelCapture, saveDateToContactField,
                completeCapture, ReaderLeaves, reminderHistory
  <1> HIDE DEF Goal
  <1>8. Goal
    BY <1>2, <1>3, <1>4, <1>5, <1>6, <1>7 DEF ReminderNext, DispatchStep
  <1> QED
    BY <1>8 DEF Goal

\* Sessions are made by events that are done with asking, readers hold ones
\* that were made, and a contact has finitely many.
MadeSessions == SessionIsMadeLast /\ ReaderHasSession /\ SessionsAreFinite

\* A contact's sessions only grow, by the one of the event that inserts it.
LEMMA SessionsGrow ==
  ASSUME ReminderTypeOK, MadeSessions, ReminderNext, NEW p \in People
  PROVE  /\ Active(p)' \subseteq Active(p) \/ \E a \in Asks : a[1] = p /\ insertCaptureSession(a)
         /\ \/ SessionsOf(p)' = SessionsOf(p)
            \/ \E a \in Asks : /\ a[1] = p /\ insertCaptureSession(a) /\ a \notin SessionsOf(p)
                              /\ Active(p) = {} /\ SessionsOf(p)' = SessionsOf(p) \cup {a}
  <1>1. \A a \in Asks :
          \/ session'[a].status = session[a].status
          \/ session[a].status # "none" /\ session'[a].status \in {"complete", "cancelled", "expired"}
          \/ insertCaptureSession(a) /\ Active(a[1]) = {} /\ session'[a].status = "active"
    BY SessionMoves DEF MadeSessions
  <1>2. CASE \E a \in Asks : insertCaptureSession(a) /\ session'[a].status # session[a].status
    <2>1. PICK a \in Asks : insertCaptureSession(a) /\ session'[a].status # session[a].status
      BY <1>2
    <2>2. /\ Active(a[1]) = {} /\ session' = [session EXCEPT ![a] =
                [state |-> "ASK_PERMISSION", status |-> "active", old |-> FALSE]]
          /\ asking[a] = "insert"
      BY <2>1 DEF insertCaptureSession
    <2>3. session[a].status = "none"
      BY <2>2 DEF MadeSessions, SessionIsMadeLast
    <2>4. /\ session'[a].status = "active"
          /\ \A b \in Asks \ {a} : session'[b].status = session[b].status
      BY <2>2 DEF ReminderTypeOK
    <2>5. CASE a[1] = p
      BY <2>1, <2>2, <2>3, <2>4, <2>5 DEF SessionsOf
    <2>6. CASE a[1] # p
      BY <2>4, <2>6 DEF SessionsOf, Active
    <2> QED
      BY <2>5, <2>6
  <1>3. CASE ~\E a \in Asks : insertCaptureSession(a) /\ session'[a].status # session[a].status
    BY <1>1, <1>3 DEF SessionsOf, Active
  <1> QED
    BY <1>2, <1>3

\* How many sessions a contact has.
LEMMA SessionsCount ==
  ASSUME ReminderTypeOK, MadeSessions, ReminderNext, NEW p \in People
  PROVE  /\ Cardinality(SessionsOf(p)) \in Nat /\ IsFiniteSet(SessionsOf(p)')
         /\ \/ SessionsOf(p)' = SessionsOf(p)
            \/ \E a \in Asks : /\ a[1] = p /\ insertCaptureSession(a) /\ Active(p) = {}
                              /\ Cardinality(SessionsOf(p)') = Cardinality(SessionsOf(p)) + 1
  <1>1. IsFiniteSet(SessionsOf(p))
    BY DEF MadeSessions, SessionsAreFinite
  <1>2. Cardinality(SessionsOf(p)) \in Nat
    BY <1>1, FS_CardinalityType
  <1>3. CASE SessionsOf(p)' = SessionsOf(p)
    BY <1>1, <1>2, <1>3
  <1>4. ASSUME NEW a \in Asks, a \notin SessionsOf(p), SessionsOf(p)' = SessionsOf(p) \cup {a}
        PROVE  /\ IsFiniteSet(SessionsOf(p)')
               /\ Cardinality(SessionsOf(p)') = Cardinality(SessionsOf(p)) + 1
    BY <1>1, <1>4, FS_AddElement
  <1> QED
    BY <1>2, <1>3, <1>4, SessionsGrow

\* Sessions stay those of events that are done with asking.
LEMMA MadeSessionsNext ==
  ASSUME ReminderTypeOK, MadeSessions, ReminderNext
  PROVE  MadeSessions'
  <1>1. \A a \in Asks :
          \/ session'[a].status = session[a].status
          \/ session[a].status # "none" /\ session'[a].status # "none"
          \/ insertCaptureSession(a) /\ session'[a].status = "active"
    BY SessionMoves DEF MadeSessions
  <1>2. SessionIsMadeLast'
    <2> SUFFICES ASSUME NEW a \in Asks, session'[a].status # "none"
                 PROVE  asking'[a] = "done"
      BY DEF SessionIsMadeLast
    <2>1. CASE insertCaptureSession(a)
      BY <2>1 DEF insertCaptureSession, ReminderTypeOK
    <2>2. CASE session[a].status # "none"
      <3>1. asking[a] = "done"
        BY <2>2 DEF MadeSessions, SessionIsMadeLast
      <3>2. ~checkCapture(a) /\ ~askPermission(a) /\ ~failCapture(a)
        BY <3>1 DEF checkCapture, askPermission, failCapture
      <3> QED
        BY <2>1, <3>1, <3>2, AskingMoves
    <2> QED
      BY <1>1, <2>1, <2>2
  <1>3. ReaderHasSession'
    <2> SUFFICES ASSUME NEW r \in Readers, reading'[r].pc # "idle"
                 PROVE  session'[reading'[r].of].status # "none"
      BY DEF ReaderHasSession, ReaderAt
    <2>1. \A a \in Asks : session[a].status # "none" => session'[a].status # "none"
      BY <1>1
    <2>2. CASE reading[r].pc # "idle" /\ reading'[r].of = reading[r].of
      <3>1. session[reading[r].of].status # "none" /\ reading[r].of \in Asks
        BY <2>2 DEF MadeSessions, ReaderHasSession, ReaderAt, ReminderTypeOK, IdleReader
      <3> QED
        BY <2>1, <2>2, <3>1
    <2>3. CASE \E a \in Asks : reading'[r].of = a /\ session[a].status = "active"
      BY <2>1, <2>3
    <2> DEFINE Kept == \/ reading[r].pc # "idle" /\ reading'[r].of = reading[r].of
                       \/ \E a \in Asks : reading'[r].of = a /\ session[a].status = "active"
    <2>4. ASSUME UNCHANGED reading
          PROVE  Kept
      BY <2>4
    <2>5. ASSUME NEW q \in Readers, readSession(q)
          PROVE  Kept
      <3>1. PICK a \in Asks, answer \in Answers :
              /\ session[a].status = "active"
              /\ reading' = [reading EXCEPT ![q] = IF Meaning(session[a].state, answer) = "idle"
                      THEN IdleReader ELSE [pc |-> Meaning(session[a].state, answer), of |-> a]]
        BY <2>5 DEF readSession
      <3> QED
        BY <3>1 DEF IdleReader, ReminderTypeOK
    <2>6. ASSUME NEW q \in Readers, ReaderStep(q)
          PROVE  Kept
      BY <2>6 DEF ReaderStep, permitCapture, cancelCapture, saveDateToContactField, completeCapture,
                  ReaderDone, ReaderAt, IdleReader, ReminderTypeOK
    <2>7. ASSUME NEW j \in Runs, NEW p \in People,
                 sendReminder(j, p) \/ logReminder(j, p) \/ failLog(j, p)
          PROVE  Kept
      BY <2>4, <2>7 DEF sendReminder, logReminder, failLog, RunLeaves, captureVars
    <2>8. ASSUME NEW j \in Runs,
                 \/ addDispatchJob(j) \/ startDispatchJob(j) \/ selectContacts(j)
                 \/ expireStaleCaptureSessions(j) \/ failSelect(j) \/ failDispatchJob(j)
          PROVE  Kept
      BY <2>4, <2>8 DEF addDispatchJob, startDispatchJob, selectContacts,
         expireStaleCaptureSessions, failSelect, failDispatchJob, RunLeaves, captureVars
    <2>9. ASSUME NEW a \in Asks, checkCapture(a) \/ askPermission(a) \/ insertCaptureSession(a)
                                  \/ failCapture(a) \/ ageSession(a)
          PROVE  Kept
      BY <2>4, <2>9 DEF checkCapture, askPermission, insertCaptureSession, failCapture, ageSession,
                        AskLeaves
    <2> HIDE DEF Kept
    <2>10. Kept
      BY <2>5, <2>6, <2>7, <2>8, <2>9 DEF ReminderNext, DispatchStep
    <2> QED
      BY <2>2, <2>3, <2>10 DEF Kept
  <1>4. SessionsAreFinite'
    BY SessionsCount DEF SessionsAreFinite
  <1> QED
    BY <1>2, <1>3, <1>4 DEF MadeSessions

(***************************************************************************)
(* The limit                                                               *)
(***************************************************************************)
AskApart == OneAsksAtATime /\ AskerMayAsk /\ AskedHasSession

\* The check of an event passes on the limit only while it is not reached.
LEMMA CheckStep ==
  ASSUME ReminderTypeOK, MadeSessions, AskApart, NEW a \in Asks, checkCapture(a), ~asksMet'
  PROVE  AskApart'
  <1>1. /\ asking \in [Asks -> {"new", "ask", "insert", "done"}] /\ a[1] \in People
        /\ session' = session /\ asked' = asked
    BY Ranges DEF ReminderTypeOK, checkCapture
  <1>2. \A b \in Asks : b[1] = a[1] => ~Asking(b)
    BY <1>1 DEF checkCapture, Mine, Asking
  <1>3. /\ asking[a] = "new" /\ \A b \in Asks \ {a} : asking'[b] = asking[b]
        /\ asking'[a] \in {"ask", "done"}
        /\ asking'[a] = "ask" => MayAsk(a) /\ Active(a[1]) = {}
    BY <1>1 DEF checkCapture
  <1>4. OneAsksAtATime'
    BY <1>2, <1>3 DEF AskApart, OneAsksAtATime, Asking
  <1>5. \A p \in People : SessionsOf(p)' = SessionsOf(p) /\ Active(p)' = Active(p)
    BY <1>1 DEF SessionsOf, Active
  <1>6. MayAsk(a) => Cardinality(SessionsOf(a[1])) < MaxAsks
    <2>1. {b \in Mine(a) : session[b].status # "none"} = SessionsOf(a[1])
      BY DEF Mine, SessionsOf
    <2> QED
      BY <2>1 DEF MayAsk
  <1>7. AskerMayAsk'
    <2> SUFFICES ASSUME NEW b \in Asks, Asking(b)'
                 PROVE  Cardinality(SessionsOf(b[1])') < MaxAsks /\ Active(b[1])' = {}
      BY DEF AskerMayAsk
    <2>1. b[1] \in People
      BY Ranges
    <2>2. CASE b = a
      BY <1>3, <1>5, <1>6, <2>1, <2>2 DEF Asking
    <2>3. CASE b # a
      <3>1. Asking(b)
        BY <1>3, <2>3 DEF Asking
      <3> QED
        BY <1>5, <2>1, <3>1 DEF AskApart, AskerMayAsk
    <2> QED
      BY <2>2, <2>3
  <1>8. AskedHasSession'
    <2> SUFFICES ASSUME NEW p \in People
                 PROVE  /\ Cardinality(SessionsOf(p)') <= MaxAsks
                        /\ \/ asked'[p] <= Cardinality(SessionsOf(p)')
                           \/ /\ asked'[p] <= Cardinality(SessionsOf(p)') + 1
                              /\ \E b \in Asks : b[1] = p /\ asking'[b] = "insert"
      BY DEF AskedHasSession
    <2>1. \A b \in Asks : asking[b] = "insert" => asking'[b] = "insert"
      BY <1>3
    <2>2. SessionsOf(p)' = SessionsOf(p) /\ asked'[p] = asked[p]
      BY <1>1, <1>5
    <2> QED
      BY <2>1, <2>2 DEF AskApart, AskedHasSession
  <1> QED
    BY <1>4, <1>7, <1>8 DEF AskApart

\* The one event that asks a contact adds a question and then its session.
LEMMA AskStep ==
  ASSUME ReminderTypeOK, MadeSessions, AskApart, NEW a \in Asks, ReminderNext,
         askPermission(a) \/ insertCaptureSession(a)
  PROVE  AskApart'
  <1>1. /\ asking \in [Asks -> {"new", "ask", "insert", "done"}] /\ a[1] \in People /\ Asking(a)
        /\ asked \in [People -> Nat]
    BY Ranges DEF ReminderTypeOK, askPermission, insertCaptureSession, Asking
  <1>2. /\ \A b \in Asks \ {a} : asking'[b] = asking[b]
        /\ asking'[a] \in {"insert", "done"}
    BY <1>1 DEF askPermission, insertCaptureSession
  <1>3. \A b \in Asks : b[1] = a[1] /\ Asking(b) => b = a
    BY <1>1 DEF AskApart, OneAsksAtATime
  <1>4. Cardinality(SessionsOf(a[1])) < MaxAsks /\ Active(a[1]) = {}
    BY <1>1 DEF AskApart, AskerMayAsk
  <1>5. OneAsksAtATime'
    BY <1>1, <1>2 DEF AskApart, OneAsksAtATime, Asking
  <1>6. \A b \in Asks \ {a} : ~insertCaptureSession(b)
    <2> SUFFICES ASSUME NEW b \in Asks, b # a, insertCaptureSession(b)
                 PROVE  FALSE
      OBVIOUS
    <2>1. asking[b] = "insert" /\ asking'[b] = "done"
      BY <1>1 DEF insertCaptureSession
    <2> QED
      BY <1>2, <2>1
  <1>7. \A p \in People \ {a[1]} : SessionsOf(p)' = SessionsOf(p) /\ Active(p)' \subseteq Active(p)
    BY <1>6, SessionsGrow
  <1>8. \A p \in People : Cardinality(SessionsOf(p)) \in Nat
    BY SessionsCount
  <1>9. AskerMayAsk'
    <2> SUFFICES ASSUME NEW b \in Asks, Asking(b)'
                 PROVE  Cardinality(SessionsOf(b[1])') < MaxAsks /\ Active(b[1])' = {}
      BY DEF AskerMayAsk
    <2>1. b[1] \in People
      BY Ranges
    <2>2. CASE b = a
      <3>1. asking'[a] = "insert" /\ session' = session
        BY <1>1, <1>2, <2>2 DEF Asking, askPermission, insertCaptureSession
      <3> QED
        BY <1>4, <2>2, <3>1 DEF SessionsOf, Active
    <2>3. CASE b # a
      <3>1. Asking(b) /\ b[1] # a[1]
        BY <1>2, <1>3, <2>3 DEF Asking
      <3> QED
        BY <1>7, <2>1, <3>1 DEF AskApart, AskerMayAsk
    <2> QED
      BY <2>2, <2>3
  <1>10. AskedHasSession'
    <2> SUFFICES ASSUME NEW p \in People
                 PROVE  /\ Cardinality(SessionsOf(p)') <= MaxAsks
                        /\ \/ asked'[p] <= Cardinality(SessionsOf(p)')
                           \/ /\ asked'[p] <= Cardinality(SessionsOf(p)') + 1
                              /\ \E b \in Asks : b[1] = p /\ asking'[b] = "insert"
      BY DEF AskedHasSession
    <2>1. CASE p # a[1]
      <3>1. SessionsOf(p)' = SessionsOf(p) /\ asked'[p] = asked[p]
        BY <1>1, <1>7, <2>1 DEF askPermission, insertCaptureSession, AskLeaves
      <3>2. \A b \in Asks : b[1] = p /\ asking[b] = "insert" => asking'[b] = "insert"
        BY <1>2, <2>1
      <3> QED
        BY <3>1, <3>2 DEF AskApart, AskedHasSession
    <2>2. CASE p = a[1] /\ askPermission(a)
      <3>1. asking[a] = "ask" /\ session' = session /\ SessionsOf(p)' = SessionsOf(p)
        BY <2>2 DEF askPermission, SessionsOf
      <3>2. asked[p] <= Cardinality(SessionsOf(p))
        BY <1>3, <2>2, <3>1 DEF AskApart, AskedHasSession, Asking
      <3>3. asked'[p] = asked[p] \/ (asked'[p] = asked[p] + 1 /\ asking'[a] = "insert")
        BY <1>1, <2>2 DEF askPermission
      <3>4. Cardinality(SessionsOf(p)) \in Nat /\ asked[p] \in Nat /\ MaxAsks \in Nat
        BY <1>1, <1>8, Ranges
      <3> QED
        BY <1>4, <2>2, <3>1, <3>2, <3>3, <3>4
    <2>3. CASE p = a[1] /\ insertCaptureSession(a)
      <3>1. Cardinality(SessionsOf(p)') = Cardinality(SessionsOf(p)) + 1
        <4>1. asking[a] = "insert" /\ session' = [session EXCEPT ![a] =
                [state |-> "ASK_PERMISSION", status |-> "active", old |-> FALSE]]
          BY <1>4, <2>3 DEF insertCaptureSession
        <4>2. session[a].status = "none" /\ session'[a].status = "active"
          BY <4>1 DEF MadeSessions, SessionIsMadeLast, ReminderTypeOK
        <4>3. a \notin SessionsOf(p) /\ a \in SessionsOf(p)'
          BY <2>3, <4>2 DEF SessionsOf
        <4> QED
          BY <4>3, SessionsCount
      <3>2. asked[p] <= Cardinality(SessionsOf(p)) + 1 /\ asked' = asked
        <4>1. asked'= asked
          BY <2>3 DEF insertCaptureSession
        <4> QED
          BY <1>1, <1>8, <4>1 DEF AskApart, AskedHasSession
      <3>3. Cardinality(SessionsOf(p)) \in Nat /\ asked[p] \in Nat /\ MaxAsks \in Nat
        BY <1>1, <1>8, Ranges
      <3> QED
        BY <1>4, <2>3, <3>1, <3>2, <3>3
    <2> QED
      BY <2>1, <2>2, <2>3
  <1> QED
    BY <1>5, <1>9, <1>10 DEF AskApart

\* Whatever else happens asks nobody and makes no session.
LEMMA OtherStep ==
  ASSUME ReminderTypeOK, MadeSessions, AskApart, ReminderNext, UNCHANGED <<asking, asked>>
  PROVE  AskApart'
  <1>1. \A a \in Asks : ~insertCaptureSession(a)
    BY DEF insertCaptureSession, ReminderTypeOK
  <1>2. \A p \in People : SessionsOf(p)' = SessionsOf(p) /\ Active(p)' \subseteq Active(p)
    BY <1>1, SessionsGrow
  <1>3. OneAsksAtATime'
    BY DEF AskApart, OneAsksAtATime, Asking
  <1>4. AskerMayAsk'
    BY <1>2, Ranges DEF AskApart, AskerMayAsk, Asking
  <1>5. AskedHasSession'
    BY <1>2 DEF AskApart, AskedHasSession
  <1> QED
    BY <1>3, <1>4, <1>5 DEF AskApart

\* Events that stay apart keep what they rely on.
LEMMA AsksApartNext ==
  ASSUME ReminderTypeOK, MadeSessions, AsksApart, ReminderNext
  PROVE  AsksApart'
  <1> SUFFICES ASSUME ~asksMet'
               PROVE  AskApart'
    BY DEF AsksApart, AskApart
  <1>1. AskApart
    BY FlagsStay DEF AsksApart, AskApart
  <1>2. \A a \in Asks : ~failCapture(a)
    BY DEF failCapture
  <1> QED
    BY <1>1, <1>2, AskingMoves, CheckStep, AskStep, OtherStep

\* What jobs and handlers rely on always holds.
THEOREM ReminderInvariantHolds == ReminderSpec => []ReminderInvariant
  <1>1. ReminderInit => ReminderInvariant
    <2> SUFFICES ASSUME ReminderInit
                 PROVE  ReminderInvariant
      OBVIOUS
    <2>1. \A p \in People : SessionsOf(p) = {} /\ Active(p) = {}
      BY DEF ReminderInit, SessionsOf, Active, NoSession
    <2>2. IsFiniteSet({}) /\ Cardinality({}) = 0
      BY FS_EmptySet
    <2>3. MadeSessions
      BY <2>1, <2>2 DEF ReminderInit, MadeSessions, SessionIsMadeLast, ReaderHasSession,
         SessionsAreFinite, NoSession, ReaderAt, IdleReader
    <2>4. AskApart
      <3>1. \A a \in Asks : ~Asking(a)
        BY DEF ReminderInit, Asking
      <3>2. \A p \in People : asked[p] = 0 /\ Cardinality(SessionsOf(p)) = 0
        BY <2>1, <2>2 DEF ReminderInit
      <3> QED
        BY <3>1, <3>2, Ranges DEF AskApart, OneAsksAtATime, AskerMayAsk, AskedHasSession
    <2>5. RunsApart
      BY DEF ReminderInit, RunsApart, OneRunAtWork, RowsAreNotLogged, RemindedIsLogged, RemindedOnce,
             AtWork, AtARow, IdleRun
    <2> QED
      BY <2>3, <2>4, <2>5, InitTypes DEF ReminderInvariant, MadeSessions, AsksApart, AskApart
  <1>2. ReminderInvariant /\ [ReminderNext]_reminderVars => ReminderInvariant'
    <2>1. ASSUME ReminderInvariant, UNCHANGED reminderVars
          PROVE  ReminderInvariant'
      <3>1. ReminderTypeOK'
        BY <2>1, NextTypes DEF ReminderInvariant
      <3>2. RunsApart'
        BY <2>1 DEF ReminderInvariant, reminderVars, reminderHistory, RunsApart, OneRunAtWork,
           RowsAreNotLogged, RemindedIsLogged, RemindedOnce, AtWork, AtARow, AtContact
      <3>3. SessionIsMadeLast' /\ ReaderHasSession' /\ SessionsAreFinite'
        BY <2>1 DEF ReminderInvariant, reminderVars, captureVars, SessionIsMadeLast,
           ReaderHasSession, SessionsAreFinite, SessionsOf, ReaderAt
      <3>4. AsksApart'
        BY <2>1 DEF ReminderInvariant, reminderVars, captureVars, reminderHistory, AsksApart,
           OneAsksAtATime, AskerMayAsk, AskedHasSession, Asking, SessionsOf, Active
      <3> QED
        BY <3>1, <3>2, <3>3, <3>4 DEF ReminderInvariant
    <2>2. ASSUME ReminderInvariant, ReminderNext
          PROVE  ReminderInvariant'
      <3>1. ReminderTypeOK /\ RunsApart /\ MadeSessions /\ AsksApart
        BY <2>2 DEF ReminderInvariant, MadeSessions
      <3>2. ReminderTypeOK' /\ RunsApart' /\ MadeSessions' /\ AsksApart'
        BY <2>2, <3>1, NextTypes, RunsApartNext, MadeSessionsNext, AsksApartNext
      <3> QED
        BY <3>2 DEF ReminderInvariant, MadeSessions
    <2> QED
      BY <2>1, <2>2
  <1> QED
    BY <1>1, <1>2, PTL DEF ReminderSpec

\* As long as no two jobs overlap, none is run again and no outcome is left out
\* of the log, a contact is sent the reminder of a step at most once.
THEOREM RemindedApart == ReminderSpec => []RemindedOnceApart
  <1>1. ReminderInvariant => RemindedOnceApart
    BY DEF ReminderInvariant, RunsApart, RemindedOnceApart
  <1> QED
    BY <1>1, ReminderInvariantHolds, PTL

\* As long as no two events of a contact overlap and none fails half way, the
\* contact is asked no more often than retry_max_count allows, though sessions
\* are answered, cancelled and expired meanwhile.
THEOREM AskedApart == ReminderSpec => []AskedWithinLimit
  <1>1. ReminderInvariant => AskedWithinLimit
    <2> SUFFICES ASSUME ReminderInvariant, ~asksMet, NEW p \in People
                 PROVE  asked[p] <= MaxAsks
      BY DEF AskedWithinLimit
    <2>1. AskedHasSession /\ AskerMayAsk
      BY DEF ReminderInvariant, AsksApart
    <2>2. Cardinality(SessionsOf(p)) \in Nat /\ asked[p] \in Nat /\ MaxAsks \in Nat
      BY Ranges, FS_CardinalityType DEF ReminderInvariant, SessionsAreFinite, ReminderTypeOK
    <2>3. \A a \in Asks : a[1] = p /\ asking[a] = "insert" => Cardinality(SessionsOf(p)) < MaxAsks
      BY <2>1 DEF AskerMayAsk, Asking
    <2> QED
      BY <2>1, <2>2, <2>3 DEF AskedHasSession
  <1> QED
    BY <1>1, ReminderInvariantHolds, PTL
=============================================================================
