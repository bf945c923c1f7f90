---------------------- MODULE SequenceEnrollmentsProofs ----------------------
(* Proofs about SequenceEnrollments, for every set of enrollments, number of *)
(* steps, retry limit and setting of the sequence, and for every bound: what *)
(* the invariants say does not depend on how much fails or how often.        *)
EXTENDS SequenceEnrollments, TLAPS

RowRecords ==
  [status : {"none", "active", "sending"} \cup Finished, step : 0..StepCount,
   runAt : TimeIds, retries : Nat,
   delivery : {"none", "sent", "delivered", "read", "failed"},
   message : {NoMessage} \cup (StepIds \X Nat), ran : BOOLEAN]
RunRecords == [pc : RunPcs, step : 0..StepCount, at : TimeIds]
SendRecords == [pc : SendPcs, retries : Nat, at : TimeIds, end : {"failed", "sent", "noop"}]

(***************************************************************************)
(* Types                                                                   *)
(***************************************************************************)
\* What the constants and the index sets contain.
LEMMA Indices ==
  /\ StepCount \in Nat \ {0} /\ Times \in Nat \ {0}
  /\ MaxStepRetries \in Nat /\ MaxReports \in Nat /\ MaxStepFaults \in Nat
  /\ Reports \subseteq {"sent", "delivered", "read", "failed"}
  /\ \A s \in SendIds : s[1] \in Enrollments /\ s[2] \in StepIds /\ s = <<s[1], s[2]>>
  /\ \A j \in JobIds : j[1] \in Enrollments /\ j[2] \in {"run", "retry"} /\ j[3] \in TimeIds
  /\ \A e \in Enrollments, k \in {"run", "retry"}, t \in TimeIds : <<e, k, t>> \in JobIds
  /\ \A e \in Enrollments, k \in StepIds : <<e, k>> \in SendIds
  /\ 0 \in TimeIds
  BY SequenceAssumption DEF SendIds, JobIds, TimeIds

\* The next time of an enrollment is a time again.
LEMMA NextTimeType ==
  ASSUME SequenceTypeOK, NEW e \in Enrollments
  PROVE  NextTime(e) \in TimeIds
  BY Indices DEF SequenceTypeOK, NextTime, TimeIds

\* A row written back has the type of a row.
LEMMA UpdateType ==
  ASSUME SequenceTypeOK, NEW e \in Enrollments, NEW row \in RowRecords,
         Update(e, row) \/ Reschedule(e, row)
  PROVE  enrollment' \in [Enrollments -> RowRecords] /\ due' \subseteq Enrollments
  <1>1. [row EXCEPT !.runAt = NextTime(e)] \in RowRecords
    BY NextTimeType DEF RowRecords
  <1>2. enrollment \in [Enrollments -> RowRecords] /\ due \subseteq Enrollments
    BY DEF SequenceTypeOK, RowRecords
  <1>3. CASE Update(e, row)
    BY <1>2, <1>3 DEF Update
  <1>4. CASE Reschedule(e, row)
    BY <1>1, <1>2, <1>4 DEF Reschedule
  <1> QED
    BY <1>3, <1>4

\* Forgetting the jobs of a time, and adding one, keep the jobs' type.
LEMMA RunJobsType ==
  ASSUME SequenceTypeOK
  PROVE  /\ \A e \in Enrollments : ForgetTime(e) \in [JobIds -> RunRecords]
         /\ \A pc \in RunPcs : Idle(pc) \in RunRecords
         /\ \A jobs \in [JobIds -> RunRecords], j \in JobIds :
              AddRunJob(jobs, j) \in [JobIds -> RunRecords]
  <1>1. \A pc \in RunPcs : Idle(pc) \in RunRecords
    BY Indices DEF Idle, RunRecords
  <1>2. "none" \in RunPcs /\ "waiting" \in RunPcs
    BY DEF RunPcs
  <1> QED
    BY <1>1, <1>2 DEF SequenceTypeOK, ForgetTime, AddRunJob, RunRecords

\* Moving a job or a worker on keeps the type of all of them.
LEMMA PcTypes ==
  ASSUME SequenceTypeOK
  PROVE  /\ \A jobs \in [JobIds -> RunRecords], j \in JobIds, pc \in RunPcs :
              [jobs EXCEPT ![j].pc = pc] \in [JobIds -> RunRecords]
         /\ \A s \in SendIds, pc \in SendPcs :
              [send EXCEPT ![s].pc = pc] \in [SendIds -> SendRecords]
         /\ \A s : AddSendJob(s) \in [SendIds -> SendRecords]
  <1>1. ASSUME NEW jobs \in [JobIds -> RunRecords], NEW j \in JobIds, NEW pc \in RunPcs
        PROVE  [jobs EXCEPT ![j].pc = pc] \in [JobIds -> RunRecords]
    <2>1. [jobs[j] EXCEPT !.pc = pc] \in RunRecords
      BY DEF RunRecords
    <2> QED
      BY <2>1
  <1>2. send \in [SendIds -> SendRecords]
    BY DEF SequenceTypeOK, SendRecords
  <1>3. ASSUME NEW s \in SendIds, NEW pc \in SendPcs
        PROVE  [send[s] EXCEPT !.pc = pc] \in SendRecords
    BY <1>2 DEF SendRecords
  <1>4. \A s \in SendIds, pc \in SendPcs :
          [send EXCEPT ![s].pc = pc] \in [SendIds -> SendRecords]
    BY <1>2, <1>3
  <1>5. ASSUME NEW s PROVE AddSendJob(s) \in [SendIds -> SendRecords]
    <2>1. CASE s \notin SendIds
      BY <1>2, <2>1 DEF AddSendJob
    <2>2. CASE s \in SendIds
      <3>1. "waiting" \in SendPcs /\ send[s].pc \in SendPcs
        BY <1>2, <2>2 DEF SendPcs, SendRecords
      <3>2. AddSendJob(s) = [send EXCEPT ![s].pc = IF InFlight(send[s].pc) THEN send[s].pc ELSE "waiting"]
        BY <1>2, <2>2 DEF AddSendJob
      <3> QED
        BY <1>4, <2>2, <3>1, <3>2
    <2> QED
      BY <2>1, <2>2
  <1> QED
    BY <1>1, <1>4, <1>5

\* The initial state is well typed.
LEMMA InitTypeOK == SequenceInit => SequenceTypeOK
  <1> SUFFICES ASSUME SequenceInit PROVE SequenceTypeOK
    OBVIOUS
  <1>1. enrollment \in [Enrollments -> RowRecords]
    BY Indices DEF SequenceInit, RowRecords
  <1>2. run \in [JobIds -> RunRecords]
    BY Indices DEF SequenceInit, RunRecords, RunPcs
  <1>3. send \in [SendIds -> SendRecords]
    BY Indices DEF SequenceInit, SendRecords, SendPcs
  <1> QED
    BY <1>1, <1>2, <1>3 DEF SequenceInit, SequenceTypeOK, RowRecords, RunRecords, SendRecords

\* Enrolling, coming due and the audit keep every variable's type.
LEMMA EnrollTypeOK ==
  ASSUME SequenceTypeOK, NEW e \in Enrollments,
         \/ checkAllowOnce(e) \/ createSequenceEnrollment(e) \/ enqueueSequenceEnrollmentRun(e)
         \/ becomeDue(e) \/ auditDue(e) \/ selectDue(e)
  PROVE  SequenceTypeOK'
  <1> USE Indices DEF SequenceTypeOK, sendVars, rowVars, boundVars
  <1>1. CASE checkAllowOnce(e)
    BY <1>1 DEF checkAllowOnce
  <1>2. CASE createSequenceEnrollment(e)
    <2>1. enrollment[e] \in RowRecords
      BY DEF RowRecords
    <2>2. [enrollment[e] EXCEPT !.status = "active"] \in RowRecords
      BY <2>1 DEF RowRecords
    <2>3. enrollment' = [enrollment EXCEPT ![e] = [enrollment[e] EXCEPT !.status = "active"]]
      BY <1>2 DEF createSequenceEnrollment
    <2>4. enrollment' \in [Enrollments -> RowRecords]
      BY <2>2, <2>3 DEF RowRecords
    <2> QED
      BY <1>2, <2>4 DEF createSequenceEnrollment, RowRecords
  <1>3. DueJob(e) \in JobIds
    BY DEF DueJob, QueueKind
  <1>4. CASE enqueueSequenceEnrollmentRun(e)
    BY <1>4, RunJobsType DEF enqueueSequenceEnrollmentRun, RunRecords
  <1>5. CASE becomeDue(e)
    <2>1. stepFaults' \in {stepFaults, stepFaults + 1}
      BY <1>5, Zenon DEF becomeDue
    <2> QED
      BY <1>5, <2>1 DEF becomeDue
  <1>6. CASE auditDue(e)
    BY <1>3, <1>6, RunJobsType DEF auditDue, RunRecords
  <1>7. CASE selectDue(e)
    BY <1>3, <1>7 DEF selectDue
  <1> QED
    BY <1>1, <1>2, <1>4, <1>5, <1>6, <1>7

\* The audit's pass over the due enrollments keeps the types.
LEMMA HandleDueTypeOK == SequenceTypeOK /\ handleDue => SequenceTypeOK'
  <1> SUFFICES ASSUME SequenceTypeOK, handleDue PROVE SequenceTypeOK'
    OBVIOUS
  <1>1. run \in [JobIds -> RunRecords] /\ audit \in JobIds
    BY DEF SequenceTypeOK, handleDue, RunRecords
  <1>2. AddRunJob(run, audit) \in [JobIds -> RunRecords]
    BY <1>1, RunJobsType
  <1> QED
    BY <1>2 DEF SequenceTypeOK, handleDue, sendVars, rowVars, boundVars, RunRecords

\* So do the run and retry workers.
LEMMA RunTypeOK ==
  ASSUME SequenceTypeOK, NEW j \in JobIds, RunStep(j) \/ failRun(j) \/ evictRun(j)
  PROVE  SequenceTypeOK'
  <1> DEFINE e == j[1]
             row == enrollment[e]
  <1> USE Indices DEF SequenceTypeOK, sendVars, rowVars, boundVars
  <1>a. e \in Enrollments /\ row \in RowRecords
    BY DEF RowRecords
  <1>b. run \in [JobIds -> RunRecords]
    BY DEF RunRecords
  <1>c. ASSUME NEW pc \in RunPcs, GoTo(j, pc) \/ run' = [run EXCEPT ![j] = Idle(pc)]
        PROVE  run' \in [JobIds -> RunRecords]
    <2>1. CASE GoTo(j, pc)
      BY <1>b, <2>1, PcTypes DEF GoTo
    <2>2. CASE run' = [run EXCEPT ![j] = Idle(pc)]
      BY <1>a, <1>b, <2>2, RunJobsType
    <2> QED
      BY <1>c, <2>1, <2>2
  <1>d. ASSUME EndRun(j) PROVE run' \in [JobIds -> RunRecords]
    BY <1>c, <1>d DEF EndRun, RunPcs
  <1>1. CASE startRun(j)
    <2>1. PICK pc \in Branches(row) :
            run' = [run EXCEPT ![j] = IF pc = "leave" THEN Idle("done")
                                      ELSE [pc |-> pc, step |-> row.step, at |-> 0]]
      BY <1>1 DEF startRun
    <2>2. pc = "leave" \/ pc \in RunPcs
      BY DEF Branches, RunPcs
    <2>3. Idle("done") \in RunRecords
      BY <1>a, RunJobsType DEF RunPcs
    <2>4. pc # "leave" => [pc |-> pc, step |-> row.step, at |-> 0] \in RunRecords
      BY <2>2, <1>a DEF RunRecords, RowRecords
    <2>5. run' \in [JobIds -> RunRecords]
      BY <2>1, <2>3, <2>4, <1>b
    <2> QED
      BY <1>1, <2>5 DEF startRun, RunRecords
  <1>2. CASE stopEnrollment(j)
    <2>1. [row EXCEPT !.status = "stopped", !.ran = TRUE] \in RowRecords
      BY <1>a DEF RowRecords, Finished
    <2> QED
      BY <1>2, <1>a, <1>d, <2>1, UpdateType DEF stopEnrollment, RowRecords, RunRecords
  <1>3. CASE completeEnrollment(j)
    <2>1. [row EXCEPT !.status = "completed", !.ran = TRUE] \in RowRecords
      BY <1>a DEF RowRecords, Finished
    <2> QED
      BY <1>3, <1>a, <1>d, <2>1, UpdateType DEF completeEnrollment, RowRecords, RunRecords
  <1>4. CASE postponeEnrollment(j)
    <2>1. ForgetTime(e) \in [JobIds -> RunRecords] /\ "reload" \in RunPcs
      BY <1>a, RunJobsType DEF RunPcs
    <2>2. run' \in [JobIds -> RunRecords]
      BY <1>4, <2>1, PcTypes DEF postponeEnrollment
    <2> QED
      BY <1>4, <1>a, <2>2, UpdateType DEF postponeEnrollment, RowRecords, RunRecords
  <1>5. CASE reloadEnrollment(j)
    BY <1>5, <1>a, <1>b, RunJobsType DEF reloadEnrollment, RunRecords, RunPcs, RowRecords
  <1>6. CASE scheduleRun(j)
    <2>1. AddRunJob(run, <<j[1], "run", run[j].at>>) \in [JobIds -> RunRecords]
      BY <1>a, <1>b, RunJobsType
    <2>2. run' \in [JobIds -> RunRecords]
      BY <1>6, <1>a, <2>1, RunJobsType DEF scheduleRun, RunPcs
    <2> QED
      BY <1>6, <2>2 DEF scheduleRun, RunRecords
  <1>7. CASE claimEnrollment(j)
    <2>1. [row EXCEPT !.status = "sending", !.ran = TRUE] \in RowRecords
      BY <1>a DEF RowRecords
    <2>2. run' \in [JobIds -> RunRecords]
      BY <1>7, <1>c DEF claimEnrollment, RunPcs
    <2> QED
      BY <1>7, <1>a, <2>1, <2>2, UpdateType DEF claimEnrollment, RowRecords, RunRecords
  <1>8. CASE insertStepMessage(j)
    <2>1. run' \in [JobIds -> RunRecords]
      BY <1>8, <1>c DEF insertStepMessage, RunPcs
    <2> QED
      BY <1>8, <2>1 DEF insertStepMessage, RunRecords
  <1>9. CASE enqueueStepMessage(j)
    <2>1. send' \in [SendIds -> SendRecords]
      BY <1>9, PcTypes DEF enqueueStepMessage
    <2> QED
      BY <1>9, <1>d, <2>1 DEF enqueueStepMessage, RunRecords, SendRecords
  <1>10. CASE failRun(j)
    BY <1>10, <1>c DEF failRun, RunRecords, RunPcs
  <1>11. CASE evictRun(j)
    BY <1>11, <1>c DEF evictRun, RunRecords, RunPcs
  <1> QED
    BY <1>1, <1>2, <1>3, <1>4, <1>5, <1>6, <1>7, <1>8, <1>9, <1>10, <1>11 DEF RunStep

\* Putting a step off and giving it up, from a worker, keep the types too.
LEMMA PutOffType ==
  ASSUME SequenceTypeOK, NEW s \in SendIds, NEW n \in Nat,
         PutOff(s, "run", n) \/ PutOff(s, "retry", n) \/ GiveUp(s)
  PROVE  /\ enrollment' \in [Enrollments -> RowRecords] /\ due' \subseteq Enrollments
         /\ run' \in [JobIds -> RunRecords]
         /\ send' \in [SendIds -> SendRecords]
  <1> DEFINE e == s[1]
             off == [enrollment[e] EXCEPT !.status = "active", !.delivery = "failed",
                                          !.ran = TRUE, !.retries = n]
             given == [enrollment[e] EXCEPT !.status = "failed", !.delivery = "failed",
                                            !.ran = TRUE]
  <1>1. e \in Enrollments /\ enrollment[e] \in RowRecords /\ NextTime(e) \in TimeIds
    BY Indices, NextTimeType DEF SequenceTypeOK, RowRecords
  <1>2. off \in RowRecords /\ given \in RowRecords
    BY <1>1 DEF RowRecords, Finished
  <1>3. run \in [JobIds -> RunRecords] /\ send \in [SendIds -> SendRecords]
    BY DEF SequenceTypeOK, RunRecords, SendRecords
  <1>4. ASSUME NEW q \in {"run", "retry"}, PutOff(s, q, n)
        PROVE  /\ enrollment' \in [Enrollments -> RowRecords] /\ due' \subseteq Enrollments
               /\ run' \in [JobIds -> RunRecords]
               /\ send' \in [SendIds -> SendRecords]
    <2>1. Reschedule(e, off) /\ run' = ForgetTime(e)
      BY <1>4 DEF PutOff
    <2>2. [send[s] EXCEPT !.pc = q, !.at = NextTime(e), !.end = "failed"] \in SendRecords
      BY <1>1, <1>3 DEF SendRecords, SendPcs
    <2>3. send' = [send EXCEPT ![s] = [send[s] EXCEPT !.pc = q, !.at = NextTime(e),
                                                      !.end = "failed"]]
      BY <1>3, <1>4 DEF PutOff
    <2> QED
      BY <1>1, <1>2, <1>3, <2>1, <2>2, <2>3, RunJobsType, UpdateType
  <1>5. CASE GiveUp(s)
    <2>1. [send[s] EXCEPT !.pc = "unlock", !.end = "failed"] \in SendRecords
      BY <1>3 DEF SendRecords, SendPcs
    <2>2. send' = [send EXCEPT ![s] = [send[s] EXCEPT !.pc = "unlock", !.end = "failed"]]
      BY <1>3, <1>5 DEF GiveUp
    <2> QED
      BY <1>1, <1>2, <1>3, <1>5, <2>1, <2>2, UpdateType DEF GiveUp
  <1> QED
    BY <1>4, <1>5

\* What a worker writes to its job keeps the type of the jobs.
LEMMA SendUpdateTypes ==
  ASSUME SequenceTypeOK, NEW s \in SendIds,
         loadStep(s) \/ advanceEnrollment(s) \/ enqueueNextRun(s)
  PROVE  send' \in [SendIds -> SendRecords]
  <1> DEFINE n == enrollment[s[1]].retries
             t == NextTime(s[1])
  <1>1. send \in [SendIds -> SendRecords] /\ send[s] \in SendRecords
    BY DEF SequenceTypeOK, SendRecords
  <1>2. n \in Nat /\ t \in TimeIds /\ 0 \in TimeIds
    BY Indices, NextTimeType DEF SequenceTypeOK
  <1> HIDE DEF n, t
  <1>3. [send[s] EXCEPT !.pc = "loaded", !.retries = n] \in SendRecords
    BY <1>1, <1>2 DEF SendRecords, SendPcs
  <1>4. ASSUME NEW end \in {"noop", "sent"}
        PROVE  [send[s] EXCEPT !.pc = "complete", !.end = end] \in SendRecords
    BY <1>1 DEF SendRecords, SendPcs
  <1>5. [send[s] EXCEPT !.pc = "run", !.at = t, !.end = "sent"] \in SendRecords
    BY <1>1, <1>2 DEF SendRecords, SendPcs
  <1>6. ASSUME NEW pc \in {"complete", "unlock"}
        PROVE  [send[s] EXCEPT !.pc = pc, !.at = 0] \in SendRecords
    BY <1>1, <1>2 DEF SendRecords, SendPcs
  <1>7. CASE loadStep(s)
    <2>1. CASE send' = [send EXCEPT ![s].pc = "loaded", ![s].retries = n]
      BY <1>1, <1>3, <2>1
    <2>2. CASE send' = [send EXCEPT ![s].pc = "complete", ![s].end = "noop"]
      BY <1>1, <1>4, <2>2
    <2> QED
      BY <1>7, <2>1, <2>2 DEF loadStep, n
  <1>8. CASE advanceEnrollment(s)
    <2>1. CASE send' = [send EXCEPT ![s].pc = "run", ![s].at = t, ![s].end = "sent"]
      BY <1>1, <1>5, <2>1
    <2>2. CASE send' = [send EXCEPT ![s].pc = "complete", ![s].end = "sent"]
      BY <1>1, <1>4, <2>2
    <2> QED
      BY <1>8, <2>1, <2>2 DEF advanceEnrollment, t
  <1>9. CASE enqueueNextRun(s)
    <2>1. CASE send' = [send EXCEPT ![s].pc = "complete", ![s].at = 0]
      BY <1>1, <1>6, <2>1
    <2>2. CASE send' = [send EXCEPT ![s].pc = "unlock", ![s].at = 0]
      BY <1>1, <1>6, <2>2
    <2>3. \/ send' = [send EXCEPT ![s].pc = "complete", ![s].at = 0]
          \/ send' = [send EXCEPT ![s].pc = "unlock", ![s].at = 0]
      BY <1>9 DEF enqueueNextRun
    <2> QED
      BY <2>1, <2>2, <2>3
  <1> QED
    BY <1>7, <1>8, <1>9

\* So do the workers of the outbound queue, the lock and the reconciler ...
LEMMA SendTypeOK ==
  ASSUME SequenceTypeOK, NEW s \in SendIds,
         \/ SendStep(s) \/ failAfterAccept(s) \/ crashStepJob(s)
         \/ requeueStaleStep(s) \/ readdStepJob(s)
  PROVE  SequenceTypeOK'
  <1> DEFINE e == s[1]
  <1> USE Indices DEF SequenceTypeOK, sendVars, rowVars, boundVars
  <1>a. send \in [SendIds -> SendRecords]
    BY DEF SendRecords
  <1>b. ASSUME NEW pc \in SendPcs, SendGoTo(s, pc) PROVE send' \in [SendIds -> SendRecords]
    BY <1>b, PcTypes DEF SendGoTo
  <1>c. e \in Enrollments /\ enrollment[e] \in RowRecords
    BY DEF RowRecords
  <1>d. run \in [JobIds -> RunRecords]
    BY DEF RunRecords
  <1>1. CASE startStepJob(s)
    BY <1>1, <1>b DEF startStepJob, SendRecords, SendPcs
  <1>2. CASE takeLock(s)
    <2>1. SendGoTo(s, "load") \/ SendGoTo(s, "settle")
      BY <1>2, Zenon DEF takeLock, SendGoTo
    <2>2. lock' \in {Unlocked, Orphaned} \cup SendIds
      BY <1>2 DEF takeLock
    <2>3. send' \in [SendIds -> SendRecords]
      BY <2>1, <1>b DEF SendPcs
    <2> QED
      BY <1>2, <2>2, <2>3 DEF takeLock, SendRecords
  <1>3. CASE loadStep(s)
    <2>4. send' \in [SendIds -> SendRecords]
      BY <1>3, SendUpdateTypes
    <2> QED
      BY <1>3, <2>4 DEF loadStep, SendRecords
  <1>4. CASE blockStep(s) \/ deferStep(s) \/ deferToNextHour(s) \/ failStep(s)
    <2>1. enrollment[e].retries \in Nat /\ send[s].retries + 1 \in Nat
      BY <1>a, <1>c DEF RowRecords, SendRecords
    <2>2. \E n \in Nat : PutOff(s, "run", n) \/ PutOff(s, "retry", n) \/ GiveUp(s)
      BY <1>4, <2>1 DEF blockStep, deferStep, deferToNextHour, failStep, Retry
    <2>3. SendLeaves /\ UNCHANGED <<accepted, boundVars>>
      BY <1>4 DEF blockStep, deferStep, deferToNextHour, failStep
    <2> QED
      BY <2>2, <2>3, PutOffType DEF SendLeaves, RowRecords, RunRecords, SendRecords
  <1>5. CASE failAfterAccept(s)
    <2>1. send[s].retries + 1 \in Nat
      BY <1>a DEF SendRecords
    <2>2. \E n \in Nat : PutOff(s, "retry", n) \/ GiveUp(s)
      BY <1>5, <2>1 DEF failAfterAccept, Retry
    <2>3. SendLeaves /\ UNCHANGED <<accepted, lockLost, readded, reports>> /\ stepFaults' = stepFaults + 1
      BY <1>5 DEF failAfterAccept
    <2> QED
      BY <2>2, <2>3, PutOffType DEF SendLeaves, RowRecords, RunRecords, SendRecords
  <1>6. CASE dispatchStep(s)
    <2>1. UpToLimit(accepted[s] + 1) \in Nat
      BY DEF UpToLimit
    <2>2. accepted' \in [SendIds -> Nat]
      BY <1>6, <2>1 DEF dispatchStep
    <2>3. send' \in [SendIds -> SendRecords]
      BY <1>6, <1>b DEF dispatchStep, SendPcs
    <2> QED
      BY <1>6, <2>2, <2>3 DEF dispatchStep, SendRecords
  <1>7. CASE advanceEnrollment(s)
    <2> DEFINE row == [enrollment[e] EXCEPT
                         !.step = NextStep(s[2]), !.message = <<s[2], accepted[s]>>,
                         !.delivery = "sent", !.retries = 0, !.ran = TRUE,
                         !.status = AfterStep(s[2])]
    <2>1. NextStep(s[2]) \in 0..StepCount /\ AfterStep(s[2]) \in {"active", "completed"}
      BY DEF NextStep, AfterStep, StepIds
    <2>2. row \in RowRecords
      BY <1>c, <2>1 DEF RowRecords, Finished
    <2>3. enrollment' \in [Enrollments -> RowRecords] /\ due' \subseteq Enrollments
      BY <1>7, <1>c, <2>2, UpdateType DEF advanceEnrollment
    <2>4. run' \in [JobIds -> RunRecords]
      BY <1>7, <1>c, RunJobsType DEF advanceEnrollment
    <2>8. send' \in [SendIds -> SendRecords]
      BY <1>7, SendUpdateTypes
    <2> QED
      BY <1>7, <2>3, <2>4, <2>8 DEF advanceEnrollment, RowRecords, RunRecords, SendRecords
  <1>8. CASE enqueueNextRun(s)
    <2>1. AddRunJob(run, <<e, send[s].pc, send[s].at>>) \in [JobIds -> RunRecords]
      BY <1>8, <1>a, <1>c, <1>d, RunJobsType DEF enqueueNextRun, SendRecords
    <2>4. send' \in [SendIds -> SendRecords]
      BY <1>8, SendUpdateTypes
    <2> QED
      BY <1>8, <2>1, <2>4 DEF enqueueNextRun, RunRecords, SendRecords
  <1>9. CASE completeStepRow(s) \/ readLock(s) \/ deleteLock(s)
    <2>1. {"unlock", "delete", "settle"} \subseteq SendPcs
      BY DEF SendPcs
    <2>2. send' \in [SendIds -> SendRecords]
      BY <1>9, <1>b, <2>1 DEF completeStepRow, readLock, deleteLock
    <2> QED
      BY <1>9, <2>2 DEF completeStepRow, readLock, deleteLock, SendRecords
  <1>10. CASE settleStepJob(s)
    <2>1. [pc |-> "done", retries |-> 0, at |-> 0, end |-> "failed"] \in SendRecords
      BY DEF SendRecords, SendPcs
    <2>2. send' \in [SendIds -> SendRecords]
      BY <1>10, <1>a, <2>1 DEF settleStepJob
    <2> QED
      BY <1>10, <2>2 DEF settleStepJob, SendRecords
  <1>11. CASE crashStepJob(s)
    <2>1. [pc |-> "waiting", retries |-> 0, at |-> 0, end |-> "failed"] \in SendRecords
      BY DEF SendRecords, SendPcs
    <2>2. send' \in [SendIds -> SendRecords]
      BY <1>11, <1>a, <2>1 DEF crashStepJob
    <2> QED
      BY <1>11, <2>2 DEF crashStepJob, SendRecords
  <1>12. CASE requeueStaleStep(s)
    <2>1. stepFaults' \in {stepFaults, stepFaults + 1}
      BY <1>12, Zenon DEF requeueStaleStep
    <2> QED
      BY <1>12, <2>1 DEF requeueStaleStep
  <1>14. CASE readdStepJob(s)
    <2>1. readded' \in {readded, readded + 1}
      BY <1>14, Zenon DEF readdStepJob
    <2>2. send' \in [SendIds -> SendRecords]
      BY <1>14, PcTypes DEF readdStepJob
    <2> QED
      BY <1>14, <2>1, <2>2 DEF readdStepJob, SendRecords
  <1> QED
    BY <1>1, <1>2, <1>3, <1>4, <1>5, <1>6, <1>7, <1>8, <1>9, <1>10, <1>11, <1>12, <1>14
       DEF SendStep

\* The lock that runs out keeps the types.
LEMMA ExpireLockTypeOK == SequenceTypeOK /\ expireLock => SequenceTypeOK'
  <1> SUFFICES ASSUME SequenceTypeOK, expireLock PROVE SequenceTypeOK'
    OBVIOUS
  <1>1. lockLost' \in BOOLEAN /\ stepFaults' \in {stepFaults, stepFaults + 1}
    BY Zenon DEF expireLock, SequenceTypeOK
  <1> QED
    BY <1>1 DEF expireLock, SequenceTypeOK, rowVars

\* ... and the status events.
LEMMA StatusTypeOK ==
  ASSUME SequenceTypeOK,
         (\E e \in Enrollments : selectByMessage(e)) \/ (\E h \in hooks : applyStatus(h))
  PROVE  SequenceTypeOK'
  <1> USE Indices DEF SequenceTypeOK, sendVars, rowVars, boundVars
  <1>1. CASE \E e \in Enrollments : selectByMessage(e)
    BY <1>1 DEF selectByMessage
  <1>2. ASSUME NEW h \in hooks, applyStatus(h) PROVE SequenceTypeOK'
    <2> DEFINE row == [enrollment[h[1]] EXCEPT !.delivery = h[2]]
    <2>1. h[1] \in Enrollments /\ h[2] \in Reports
      OBVIOUS
    <2>2. row \in RowRecords
      <3>1. enrollment[h[1]] \in RowRecords
        BY <2>1 DEF RowRecords
      <3> QED
        BY <2>1, <3>1 DEF RowRecords
    <2> QED
      BY <1>2, <2>1, <2>2, UpdateType DEF applyStatus, RowRecords
  <1> QED
    BY <1>1, <1>2

\* Every step does.
LEMMA NextTypeOK == SequenceTypeOK /\ [SequenceNext]_sequenceVars => SequenceTypeOK'
  <1> SUFFICES ASSUME SequenceTypeOK, [SequenceNext]_sequenceVars PROVE SequenceTypeOK'
    OBVIOUS
  <1>1. CASE SequenceNext
    <2>1. ASSUME NEW e \in Enrollments,
                 \/ checkAllowOnce(e) \/ createSequenceEnrollment(e)
                 \/ enqueueSequenceEnrollmentRun(e) \/ becomeDue(e) \/ auditDue(e) \/ selectDue(e)
          PROVE  SequenceTypeOK'
      BY <2>1, EnrollTypeOK
    <2>2. CASE handleDue
      BY <2>2, HandleDueTypeOK
    <2>3. CASE expireLock
      BY <2>3, ExpireLockTypeOK
    <2>4. ASSUME NEW j \in JobIds, RunStep(j) \/ failRun(j) \/ evictRun(j)
          PROVE  SequenceTypeOK'
      BY <2>4, RunTypeOK
    <2>5. ASSUME NEW s \in SendIds,
                 \/ SendStep(s) \/ failAfterAccept(s) \/ crashStepJob(s)
                 \/ requeueStaleStep(s) \/ readdStepJob(s)
          PROVE  SequenceTypeOK'
      BY <2>5, SendTypeOK
    <2> QED
      BY <1>1, <2>1, <2>2, <2>3, <2>4, <2>5, StatusTypeOK DEF SequenceNext
  <1>2. CASE UNCHANGED sequenceVars
    BY <1>2 DEF SequenceTypeOK, sequenceVars
  <1> QED
    BY <1>1, <1>2

\* The enrollment rows, the jobs of both queues, the lock and the workers
\* always hold values of the kinds the code can write to them.
THEOREM TypeCorrectness == SequenceSpec => []SequenceTypeOK
  BY InitTypeOK, NextTypeOK, PTL DEF SequenceSpec

(***************************************************************************)
(* Footprints: which actions can move what.  The proofs of the invariants  *)
(* cite these and look only into the actions named here.                   *)
(***************************************************************************)
\* Writing a row back with its step leaves every enrollment at its step.
LEMMA RowKeepsStep ==
  ASSUME SequenceTypeOK, NEW e \in Enrollments, NEW row \in RowRecords,
         Update(e, row) \/ Reschedule(e, row), NEW f \in Enrollments
  PROVE  /\ row.step = enrollment[e].step => enrollment'[f].step = enrollment[f].step
         /\ \/ enrollment'[f].status = enrollment[f].status
            \/ f = e /\ enrollment'[f].status = row.status
  <1>1. enrollment \in [Enrollments -> RowRecords]
    BY DEF SequenceTypeOK, RowRecords
  <1>2. /\ [row EXCEPT !.runAt = NextTime(e)].step = row.step
        /\ [row EXCEPT !.runAt = NextTime(e)].status = row.status
    BY DEF RowRecords
  <1>3. CASE Update(e, row)
    BY <1>1, <1>3 DEF Update
  <1>4. CASE Reschedule(e, row)
    BY <1>1, <1>2, <1>4 DEF Reschedule
  <1> QED
    BY <1>3, <1>4

\* The actions that write no enrollment row.
LEMMA RowFrame ==
  ASSUME SequenceNext
  PROVE  \/ UNCHANGED enrollment
         \/ \E e \in Enrollments : createSequenceEnrollment(e)
         \/ \E j \in JobIds :
              \/ stopEnrollment(j) \/ postponeEnrollment(j) \/ claimEnrollment(j)
              \/ completeEnrollment(j)
         \/ \E s \in SendIds :
              \/ blockStep(s) \/ deferStep(s) \/ deferToNextHour(s) \/ failStep(s)
              \/ failAfterAccept(s) \/ advanceEnrollment(s)
         \/ \E h \in hooks : applyStatus(h)
  <1> USE DEF rowVars
  <1>1. ASSUME NEW e \in Enrollments,
               \/ checkAllowOnce(e) \/ enqueueSequenceEnrollmentRun(e) \/ becomeDue(e)
               \/ auditDue(e) \/ selectDue(e) \/ selectByMessage(e)
        PROVE  UNCHANGED enrollment
    BY <1>1, Zenon DEF checkAllowOnce, enqueueSequenceEnrollmentRun, becomeDue, auditDue, selectDue,
                selectByMessage
  <1>2. CASE handleDue \/ expireLock
    BY <1>2 DEF handleDue, expireLock
  <1>3. ASSUME NEW j \in JobIds,
               \/ startRun(j) \/ reloadEnrollment(j) \/ scheduleRun(j) \/ insertStepMessage(j)
               \/ enqueueStepMessage(j) \/ failRun(j) \/ evictRun(j)
        PROVE  UNCHANGED enrollment
    BY <1>3, Zenon DEF startRun, reloadEnrollment, scheduleRun, insertStepMessage, enqueueStepMessage,
                failRun, evictRun
  <1>4. ASSUME NEW s \in SendIds,
               \/ startStepJob(s) \/ takeLock(s) \/ loadStep(s) \/ dispatchStep(s)
               \/ enqueueNextRun(s) \/ completeStepRow(s) \/ readLock(s) \/ deleteLock(s)
               \/ settleStepJob(s) \/ crashStepJob(s) \/ requeueStaleStep(s) \/ readdStepJob(s)
        PROVE  UNCHANGED enrollment
    BY <1>4, Zenon DEF startStepJob, takeLock, loadStep, dispatchStep, enqueueNextRun, completeStepRow,
                readLock, deleteLock, settleStepJob, crashStepJob, requeueStaleStep, readdStepJob
  <1> QED
    BY <1>1, <1>2, <1>3, <1>4 DEF SequenceNext, RunStep, SendStep

\* Only a worker whose send was accepted moves an enrollment on, and only it
\* or a run that found no step left completes one.
LEMMA RowMoves ==
  ASSUME SequenceTypeOK, SequenceNext, NEW f \in Enrollments
  PROVE  /\ \/ enrollment'[f].step = enrollment[f].step
            \/ \E s \in SendIds : advanceEnrollment(s)
         /\ \/ enrollment'[f].status = "completed" => enrollment[f].status = "completed"
            \/ \E s \in SendIds : advanceEnrollment(s)
            \/ \E j \in JobIds : completeEnrollment(j) /\ j[1] = f
  <1> DEFINE Kept ==
        /\ enrollment'[f].step = enrollment[f].step
        /\ \/ enrollment'[f].status = "completed" => enrollment[f].status = "completed"
           \/ \E j \in JobIds : completeEnrollment(j) /\ j[1] = f
  <1>a. ASSUME NEW e \in Enrollments, NEW row \in RowRecords, row.step = enrollment[e].step,
               Update(e, row) \/ Reschedule(e, row),
               row.status # "completed" \/ row.status = enrollment[e].status
        PROVE  Kept
    BY <1>a, RowKeepsStep
  <1>b. enrollment \in [Enrollments -> RowRecords]
    BY DEF SequenceTypeOK, RowRecords
  <1>1. CASE UNCHANGED enrollment
    BY <1>1
  <1>2. ASSUME NEW e \in Enrollments, createSequenceEnrollment(e) PROVE Kept
    BY <1>2, <1>b DEF createSequenceEnrollment, RowRecords
  <1>3. ASSUME NEW j \in JobIds,
               \/ stopEnrollment(j) \/ postponeEnrollment(j) \/ claimEnrollment(j)
               \/ completeEnrollment(j)
        PROVE  Kept
    <2> DEFINE e == j[1]
               row == enrollment[e]
    <2>1. e \in Enrollments /\ row \in RowRecords
      BY <1>b, Indices
    <2> HIDE DEF row
    <2>2. ASSUME NEW st \in {"stopped", "sending", "completed"}
          PROVE  /\ [row EXCEPT !.status = st, !.ran = TRUE] \in RowRecords
                 /\ [row EXCEPT !.status = st, !.ran = TRUE].step = row.step
                 /\ [row EXCEPT !.status = st, !.ran = TRUE].status = st
      BY <2>1, <2>2 DEF RowRecords, Finished
    <2>3. CASE stopEnrollment(j)
      <3>1. Update(e, [row EXCEPT !.status = "stopped", !.ran = TRUE])
        BY <2>3 DEF stopEnrollment, row
      <3> QED
        BY <2>1, <2>2, <3>1, <1>a DEF row
    <2>4. CASE postponeEnrollment(j)
      <3>1. Reschedule(e, row)
        BY <2>4 DEF postponeEnrollment, row
      <3> QED
        BY <2>1, <3>1, <1>a DEF row
    <2>5. CASE claimEnrollment(j)
      <3>1. Update(e, [row EXCEPT !.status = "sending", !.ran = TRUE])
        BY <2>5 DEF claimEnrollment, row
      <3> QED
        BY <2>1, <2>2, <3>1, <1>a DEF row
    <2>6. CASE completeEnrollment(j)
      <3> DEFINE done == [row EXCEPT !.status = "completed", !.ran = TRUE]
      <3>1. Update(e, done)
        BY <2>6 DEF completeEnrollment, row
      <3>2. done \in RowRecords /\ done.step = enrollment[e].step
        BY <2>1, <2>2 DEF row
      <3> HIDE DEF done
      <3>3. /\ enrollment'[f].step = enrollment[f].step
            /\ enrollment'[f].status = enrollment[f].status \/ f = e
        BY <2>1, <3>1, <3>2, RowKeepsStep
      <3> QED
        BY <2>6, <3>3
    <2> QED
      BY <1>3, <2>3, <2>4, <2>5, <2>6
  <1>4. ASSUME NEW s \in SendIds, NEW n \in Nat,
               PutOff(s, "run", n) \/ PutOff(s, "retry", n) \/ GiveUp(s)
        PROVE  Kept
    <2> DEFINE e == s[1]
               row == enrollment[e]
               off == [row EXCEPT !.status = "active", !.delivery = "failed",
                                  !.ran = TRUE, !.retries = n]
               given == [row EXCEPT !.status = "failed", !.delivery = "failed", !.ran = TRUE]
    <2>1. e \in Enrollments /\ row \in RowRecords
      BY <1>b, Indices
    <2>2. off \in RowRecords /\ off.step = row.step /\ off.status = "active"
      BY <2>1 DEF RowRecords
    <2>3. given \in RowRecords /\ given.step = row.step /\ given.status = "failed"
      BY <2>1 DEF RowRecords, Finished
    <2>4. Reschedule(e, off) \/ Update(e, given)
      BY <1>4 DEF PutOff, GiveUp
    <2> HIDE DEF off, given
    <2> QED
      BY <2>1, <2>2, <2>3, <2>4, <1>a
  <1>5. ASSUME NEW s \in SendIds,
               \/ blockStep(s) \/ deferStep(s) \/ deferToNextHour(s) \/ failStep(s)
               \/ failAfterAccept(s)
        PROVE  Kept
    <2>1. enrollment[s[1]].retries \in Nat /\ send[s].retries + 1 \in Nat
      BY Indices DEF SequenceTypeOK
    <2>2. \E n \in Nat : PutOff(s, "run", n) \/ PutOff(s, "retry", n) \/ GiveUp(s)
      BY <1>5, <2>1
         DEF blockStep, deferStep, deferToNextHour, failStep, failAfterAccept, Retry
    <2> QED
      BY <1>4, <2>2
  <1>6. ASSUME NEW h \in hooks, applyStatus(h) PROVE Kept
    <2> DEFINE e == h[1]
               row == [enrollment[e] EXCEPT !.delivery = h[2]]
    <2>1. e \in Enrollments /\ enrollment[e] \in RowRecords /\ h[2] \in Reports
      BY <1>b DEF SequenceTypeOK
    <2>2. /\ row \in RowRecords /\ row.step = enrollment[e].step
          /\ row.status = enrollment[e].status
      BY <2>1, Indices DEF RowRecords
    <2>3. Update(e, row)
      BY <1>6 DEF applyStatus
    <2> HIDE DEF row
    <2> QED
      BY <2>1, <2>2, <2>3, <1>a
  <1>7. \/ UNCHANGED enrollment
        \/ \E e \in Enrollments : createSequenceEnrollment(e)
        \/ \E j \in JobIds :
             \/ stopEnrollment(j) \/ postponeEnrollment(j) \/ claimEnrollment(j)
             \/ completeEnrollment(j)
        \/ \E s \in SendIds :
             \/ blockStep(s) \/ deferStep(s) \/ deferToNextHour(s) \/ failStep(s)
             \/ failAfterAccept(s) \/ advanceEnrollment(s)
        \/ \E h \in hooks : applyStatus(h)
    BY RowFrame
  <1> QED
    BY <1>1, <1>2, <1>3, <1>5, <1>6, <1>7

\* Only the provider's answer counts as accepted, and nothing is forgotten.
LEMMA HistoryMoves ==
  ASSUME SequenceTypeOK, SequenceNext
  PROVE  /\ UNCHANGED accepted \/ \E s \in SendIds : dispatchStep(s)
         /\ stepFaults' >= stepFaults
         /\ lockLost => lockLost'
  <1>1. UNCHANGED accepted \/ \E s \in SendIds : dispatchStep(s)
    <2>1. ASSUME NEW e \in Enrollments,
                 \/ checkAllowOnce(e) \/ createSequenceEnrollment(e)
                 \/ enqueueSequenceEnrollmentRun(e) \/ becomeDue(e) \/ auditDue(e)
                 \/ selectDue(e) \/ selectByMessage(e)
          PROVE  UNCHANGED accepted
      BY <2>1, Zenon DEF checkAllowOnce, createSequenceEnrollment, enqueueSequenceEnrollmentRun,
                         becomeDue, auditDue, selectDue, selectByMessage
    <2>2. ASSUME handleDue \/ expireLock \/ (\E h \in hooks : applyStatus(h))
          PROVE  UNCHANGED accepted
      BY <2>2 DEF handleDue, expireLock, applyStatus
    <2>3. ASSUME NEW j \in JobIds, RunStep(j) \/ failRun(j) \/ evictRun(j)
          PROVE  UNCHANGED accepted
      BY <2>3, Zenon DEF RunStep, startRun, stopEnrollment, completeEnrollment, postponeEnrollment,
                         reloadEnrollment, scheduleRun, claimEnrollment, insertStepMessage,
                         enqueueStepMessage, failRun, evictRun
    <2>4. ASSUME NEW s \in SendIds,
                 \/ startStepJob(s) \/ takeLock(s) \/ loadStep(s)
                 \/ blockStep(s) \/ deferStep(s) \/ deferToNextHour(s) \/ failStep(s)
                 \/ advanceEnrollment(s) \/ enqueueNextRun(s) \/ completeStepRow(s)
                 \/ readLock(s) \/ deleteLock(s) \/ settleStepJob(s) \/ failAfterAccept(s)
                 \/ crashStepJob(s) \/ requeueStaleStep(s) \/ readdStepJob(s)
          PROVE  UNCHANGED accepted
      BY <2>4, Zenon DEF startStepJob, takeLock, loadStep, blockStep, deferStep, deferToNextHour,
                         failStep, advanceEnrollment, enqueueNextRun, completeStepRow, readLock,
                         deleteLock, settleStepJob, failAfterAccept, crashStepJob,
                         requeueStaleStep, readdStepJob
    <2> QED
      BY <2>1, <2>2, <2>3, <2>4 DEF SequenceNext, SendStep
  <1>2. /\ stepFaults' = stepFaults \/ stepFaults' = stepFaults + 1
        /\ lockLost' \in {lockLost, TRUE}
    <2> DEFINE Counted == /\ stepFaults' = stepFaults \/ stepFaults' = stepFaults + 1
                         /\ lockLost' \in {lockLost, TRUE}
    <2> USE DEF boundVars
    <2>1. ASSUME NEW e \in Enrollments,
                 \/ checkAllowOnce(e) \/ createSequenceEnrollment(e)
                 \/ enqueueSequenceEnrollmentRun(e) \/ becomeDue(e) \/ auditDue(e)
                 \/ selectDue(e) \/ selectByMessage(e)
          PROVE  Counted
      BY <2>1, Zenon DEF checkAllowOnce, createSequenceEnrollment, enqueueSequenceEnrollmentRun,
                         becomeDue, auditDue, selectDue, selectByMessage
    <2>2. CASE handleDue
      BY <2>2, Zenon DEF handleDue
    <2>3. CASE expireLock
      BY <2>3, Zenon DEF expireLock
    <2>4. ASSUME NEW h \in hooks, applyStatus(h) PROVE Counted
      BY <2>4, Zenon DEF applyStatus
    <2>5. ASSUME NEW j \in JobIds, RunStep(j) \/ failRun(j) \/ evictRun(j)
          PROVE  Counted
      BY <2>5, Zenon DEF RunStep, startRun, stopEnrollment, completeEnrollment, postponeEnrollment,
                         reloadEnrollment, scheduleRun, claimEnrollment, insertStepMessage,
                         enqueueStepMessage, failRun, evictRun
    <2>6. ASSUME NEW s \in SendIds,
                 \/ SendStep(s) \/ failAfterAccept(s) \/ crashStepJob(s)
                 \/ requeueStaleStep(s) \/ readdStepJob(s)
          PROVE  Counted
      BY <2>6, Zenon DEF SendStep, startStepJob, takeLock, loadStep, blockStep, deferStep,
                         deferToNextHour, failStep, dispatchStep, advanceEnrollment, enqueueNextRun,
                         completeStepRow, readLock, deleteLock, settleStepJob, failAfterAccept,
                         crashStepJob, requeueStaleStep, readdStepJob
    <2> QED
      BY <2>1, <2>2, <2>3, <2>4, <2>5, <2>6 DEF SequenceNext
  <1>3. stepFaults' >= stepFaults
    BY <1>2 DEF SequenceTypeOK
  <1>4. lockLost => lockLost'
    BY <1>2, Zenon
  <1> QED
    BY <1>1, <1>3, <1>4, Zenon

\* Adding a job for a step that has none.
LEMMA AddSendMoves ==
  ASSUME SequenceTypeOK, NEW t, send' = AddSendJob(t), NEW s \in SendIds
  PROVE  /\ send'[s].end = send[s].end
         /\ \/ send'[s].pc = send[s].pc
            \/ t = s /\ ~InFlight(send[s].pc) /\ send'[s].pc = "waiting"
  <1>1. send \in [SendIds -> SendRecords]
    BY DEF SequenceTypeOK, SendRecords
  <1>2. CASE t = s
    BY <1>1, <1>2 DEF AddSendJob, SendRecords
  <1>3. CASE t # s
    BY <1>1, <1>3 DEF AddSendJob
  <1> QED
    BY <1>2, <1>3

\* The job of a step is moved by its own worker, which may die, or added
\* again once it has ended, for a row that is there.
LEMMA SendMoves ==
  ASSUME SequenceTypeOK, SequenceNext, NEW s \in SendIds
  PROVE  \/ send'[s].pc = send[s].pc /\ send'[s].end = send[s].end
         \/ SendStep(s) \/ failAfterAccept(s) \/ crashStepJob(s)
         \/ /\ ~InFlight(send[s].pc) /\ send'[s].pc = "waiting" /\ send'[s].end = send[s].end
            /\ \/ outbound[s] # "none"
               \/ \E j \in JobIds : run[j].pc = "enqueue" /\ s = <<j[1], run[j].step>>
  <1> DEFINE Goal == \/ send'[s].pc = send[s].pc /\ send'[s].end = send[s].end
                     \/ SendStep(s) \/ failAfterAccept(s) \/ crashStepJob(s)
                     \/ /\ ~InFlight(send[s].pc) /\ send'[s].pc = "waiting" /\ send'[s].end = send[s].end
                        /\ \/ outbound[s] # "none"
                           \/ \E j \in JobIds : run[j].pc = "enqueue" /\ s = <<j[1], run[j].step>>
  <1>a. send \in [SendIds -> SendRecords]
    BY DEF SequenceTypeOK, SendRecords
  <1> USE DEF sendVars
  <1>1. ASSUME NEW e \in Enrollments,
               \/ checkAllowOnce(e) \/ createSequenceEnrollment(e)
               \/ enqueueSequenceEnrollmentRun(e) \/ becomeDue(e) \/ auditDue(e)
               \/ selectDue(e) \/ selectByMessage(e)
        PROVE  UNCHANGED send
    BY <1>1, Zenon DEF checkAllowOnce, createSequenceEnrollment, enqueueSequenceEnrollmentRun,
                       becomeDue, auditDue, selectDue, selectByMessage
  <1>2. ASSUME handleDue \/ expireLock \/ (\E h \in hooks : applyStatus(h))
        PROVE  UNCHANGED send
    BY <1>2 DEF handleDue, expireLock, applyStatus
  <1>3. ASSUME NEW j \in JobIds,
               \/ startRun(j) \/ stopEnrollment(j) \/ completeEnrollment(j) \/ postponeEnrollment(j)
               \/ reloadEnrollment(j) \/ scheduleRun(j) \/ claimEnrollment(j)
               \/ insertStepMessage(j) \/ failRun(j) \/ evictRun(j)
        PROVE  UNCHANGED send
    BY <1>3, Zenon DEF startRun, stopEnrollment, completeEnrollment, postponeEnrollment,
                       reloadEnrollment, scheduleRun, claimEnrollment, insertStepMessage,
                       failRun, evictRun
  <1>4. ASSUME NEW j \in JobIds, enqueueStepMessage(j) PROVE Goal
    <2>1. send' = AddSendJob(<<j[1], run[j].step>>) /\ run[j].pc = "enqueue"
      BY <1>4 DEF enqueueStepMessage, At
    <2> QED
      BY <2>1, AddSendMoves
  <1>5. ASSUME NEW t \in SendIds, readdStepJob(t) PROVE Goal
    <2>1. send' = AddSendJob(t) /\ outbound[t] # "none"
      BY <1>5 DEF readdStepJob
    <2> QED
      BY <2>1, AddSendMoves
  <1>6. ASSUME NEW t \in SendIds, requeueStaleStep(t) PROVE UNCHANGED send
    BY <1>6 DEF requeueStaleStep
  <1>7. ASSUME NEW t \in SendIds, t # s, SendStep(t) \/ failAfterAccept(t) \/ crashStepJob(t)
        PROVE  send'[s] = send[s]
    <2>1. CASE startStepJob(t) \/ takeLock(t) \/ loadStep(t)
      BY <1>7, <1>a, <2>1 DEF startStepJob, takeLock, loadStep, SendGoTo
    <2>2. CASE blockStep(t) \/ deferStep(t) \/ deferToNextHour(t) \/ failStep(t) \/ failAfterAccept(t)
      <3>1. GiveUp(t) \/ \E q, n : PutOff(t, q, n)
        BY <2>2 DEF blockStep, deferStep, deferToNextHour, failStep, failAfterAccept, Retry
      <3> QED
        BY <1>7, <1>a, <3>1 DEF GiveUp, PutOff, SendGoTo
    <2>3. CASE dispatchStep(t) \/ advanceEnrollment(t) \/ enqueueNextRun(t)
      BY <1>7, <1>a, <2>3 DEF dispatchStep, advanceEnrollment, enqueueNextRun, SendGoTo
    <2>4. CASE completeStepRow(t) \/ readLock(t) \/ deleteLock(t) \/ settleStepJob(t) \/ crashStepJob(t)
      BY <1>7, <1>a, <2>4 DEF completeStepRow, readLock, deleteLock, settleStepJob, crashStepJob, SendGoTo
    <2> QED
      BY <1>7, <2>1, <2>2, <2>3, <2>4 DEF SendStep
  <1> QED
    BY <1>1, <1>2, <1>3, <1>4, <1>5, <1>6, <1>7 DEF SequenceNext, RunStep

\* How a worker moves the job of its step.
LEMMA SendTable ==
  ASSUME SequenceTypeOK, NEW s \in SendIds,
         SendStep(s) \/ failAfterAccept(s) \/ crashStepJob(s)
  PROVE  /\ send[s].pc # "none"
         /\ send'[s].pc = "loaded" => loadStep(s) /\ StillCurrent(s)
         /\ send'[s].pc = "accepted" => dispatchStep(s)
         /\ send'[s].pc = "complete" =>
              (loadStep(s) /\ ~StillCurrent(s)) \/ advanceEnrollment(s) \/ send[s].end = "sent"
         /\ send'[s].end = "sent" => send[s].end = "sent" \/ advanceEnrollment(s)
         /\ send[s].pc = "accepted" => advanceEnrollment(s) \/ stepFaults' > 0
         /\ send'[s].pc \in UnderLock =>
              lock' = s \/ (send[s].pc \in UnderLock /\ lock' = lock)
  <1> DEFINE pc == send[s].pc
             Goal == /\ pc # "none"
                     /\ send'[s].pc = "loaded" => loadStep(s) /\ StillCurrent(s)
                     /\ send'[s].pc = "accepted" => dispatchStep(s)
                     /\ send'[s].pc = "complete" =>
                          (loadStep(s) /\ ~StillCurrent(s)) \/ advanceEnrollment(s) \/ send[s].end = "sent"
                     /\ send'[s].end = "sent" => send[s].end = "sent" \/ advanceEnrollment(s)
                     /\ pc = "accepted" => advanceEnrollment(s) \/ stepFaults' > 0
                     /\ send'[s].pc \in UnderLock =>
                          lock' = s \/ (pc \in UnderLock /\ lock' = lock)
  <1>a. send \in [SendIds -> SendRecords] /\ send[s] \in SendRecords
    BY DEF SequenceTypeOK, SendRecords
  <1>b. ASSUME NEW q, SendGoTo(s, q) PROVE send'[s].pc = q /\ send'[s].end = send[s].end
    BY <1>a, <1>b DEF SendGoTo, SendRecords
  <1>1. CASE startStepJob(s)
    BY <1>1, <1>b DEF startStepJob, SendAt, UnderLock
  <1>2. CASE takeLock(s)
    <2>1. pc = "lock" /\ ((lock' = s /\ SendGoTo(s, "load")) \/ SendGoTo(s, "settle"))
      BY <1>2, Zenon DEF takeLock, SendAt, SendGoTo
    <2> QED
      BY <2>1, <1>b DEF UnderLock
  <1>3. CASE loadStep(s)
    <2>1. pc = "load" /\ UNCHANGED lock
      BY <1>3 DEF loadStep, SendAt
    <2>2. CASE StillCurrent(s)
      <3>1. send' = [send EXCEPT ![s].pc = "loaded", ![s].retries = enrollment[s[1]].retries]
        BY <1>3, <2>2 DEF loadStep
      <3>2. send'[s].pc = "loaded" /\ send'[s].end = send[s].end
        BY <1>a, <3>1 DEF SendRecords
      <3> QED
        BY <1>3, <2>1, <2>2, <3>2 DEF UnderLock
    <2>3. CASE ~StillCurrent(s)
      <3>1. send' = [send EXCEPT ![s].pc = "complete", ![s].end = "noop"]
        BY <1>3, <2>3 DEF loadStep
      <3>2. send'[s].pc = "complete" /\ send'[s].end = "noop"
        BY <1>a, <3>1 DEF SendRecords
      <3> QED
        BY <1>3, <2>1, <2>3, <3>2 DEF UnderLock
    <2> QED
      BY <2>2, <2>3
  <1>4. CASE blockStep(s) \/ deferStep(s) \/ deferToNextHour(s) \/ failStep(s) \/ failAfterAccept(s)
    <2>1. pc = "loaded" \/ (pc \in {"accepted", "run", "complete"} /\ stepFaults' = stepFaults + 1)
      BY <1>4 DEF blockStep, deferStep, deferToNextHour, failStep, failAfterAccept, AfterAccept,
         SendAt
    <2>2. lock' = lock
      BY <1>4 DEF blockStep, deferStep, deferToNextHour, failStep, failAfterAccept, SendLeaves
    <2>3. GiveUp(s) \/ \E q \in {"run", "retry"} : \E n : PutOff(s, q, n)
      BY <1>4 DEF blockStep, deferStep, deferToNextHour, failStep, failAfterAccept, Retry
    <2>4. send'[s].pc \in {"unlock", "run", "retry"} /\ send'[s].end = "failed"
      <3>1. CASE GiveUp(s)
        BY <1>a, <3>1 DEF GiveUp, SendRecords
      <3>2. ASSUME NEW q \in {"run", "retry"}, NEW n, PutOff(s, q, n)
            PROVE  send'[s].pc = q /\ send'[s].end = "failed"
        BY <1>a, <3>2 DEF PutOff, SendRecords
      <3> QED
        BY <2>3, <3>1, <3>2
    <2>5. stepFaults \in Nat
      BY DEF SequenceTypeOK
    <2> QED
      BY <2>1, <2>2, <2>4, <2>5 DEF UnderLock
  <1>5. CASE dispatchStep(s)
    BY <1>5, <1>b DEF dispatchStep, SendAt, UnderLock
  <1>6. CASE advanceEnrollment(s)
    <2>1. pc = "accepted" /\ UNCHANGED lock
      BY <1>6 DEF advanceEnrollment, SendAt
    <2>2. send'[s].pc \in {"run", "complete"}
      BY <1>6, <1>a DEF advanceEnrollment, SendRecords
    <2> QED
      BY <1>6, <2>1, <2>2 DEF UnderLock
  <1>7. CASE enqueueNextRun(s)
    <2>1. pc \in {"run", "retry"} /\ UNCHANGED lock
      BY <1>7 DEF enqueueNextRun, sendVars
    <2>2. /\ send'[s].end = send[s].end
          /\ send'[s].pc = IF send[s].end = "sent" THEN "complete" ELSE "unlock"
      BY <1>7, <1>a DEF enqueueNextRun, SendRecords
    <2> QED
      BY <2>1, <2>2 DEF UnderLock
  <1>8. CASE completeStepRow(s)
    BY <1>8, <1>b DEF completeStepRow, SendAt, UnderLock
  <1>9. CASE readLock(s)
    BY <1>9, <1>b DEF readLock, SendAt, UnderLock
  <1>10. CASE deleteLock(s)
    BY <1>10, <1>b DEF deleteLock, SendAt, UnderLock
  <1>11. CASE settleStepJob(s)
    <2>1. send'[s] = [pc |-> "done", retries |-> 0, at |-> 0, end |-> "failed"]
      BY <1>11, <1>a DEF settleStepJob
    <2> QED
      BY <1>11, <2>1 DEF settleStepJob, SendAt, UnderLock
  <1>12. CASE crashStepJob(s)
    <2>1. send'[s] = [pc |-> "waiting", retries |-> 0, at |-> 0, end |-> "failed"]
      BY <1>12, <1>a DEF crashStepJob
    <2>2. stepFaults' > 0 /\ pc # "none"
      BY <1>12 DEF crashStepJob, SequenceTypeOK, Working, InFlight
    <2> QED
      BY <2>1, <2>2 DEF UnderLock
  <1> QED
    BY <1>1, <1>2, <1>3, <1>4, <1>5, <1>6, <1>7, <1>8, <1>9, <1>10, <1>11, <1>12 DEF SendStep

\* Adding and forgetting jobs: none of them is at work afterwards that was not.
LEMMA JobMoves ==
  ASSUME SequenceTypeOK, NEW j \in JobIds
  PROVE  /\ \A i : AddRunJob(run, i)[j] = run[j] \/ AddRunJob(run, i)[j].pc = "waiting"
         /\ \A e : ForgetTime(e)[j] = run[j] \/ ForgetTime(e)[j].pc = "none"
  <1>1. run \in [JobIds -> RunRecords]
    BY DEF SequenceTypeOK, RunRecords
  <1>2. Idle("waiting").pc = "waiting" /\ Idle("none").pc = "none"
    BY DEF Idle
  <1>3. ASSUME NEW i PROVE AddRunJob(run, i)[j] = run[j] \/ AddRunJob(run, i)[j].pc = "waiting"
    BY <1>1, <1>2 DEF AddRunJob
  <1>4. ASSUME NEW e PROVE ForgetTime(e)[j] = run[j] \/ ForgetTime(e)[j].pc = "none"
    BY <1>1, <1>2 DEF ForgetTime
  <1> QED
    BY <1>3, <1>4

\* A run works on the step it read when it started.
LEMMA RunMoves ==
  ASSUME SequenceTypeOK, SequenceNext, NEW j \in JobIds
  PROVE  /\ run'[j].pc \in {"claim", "insert", "enqueue"} =>
              \/ run[j].pc \in {"claim", "insert", "enqueue"} /\ run'[j].step = run[j].step
              \/ run'[j].step = enrollment[j[1]].step
         /\ run'[j].pc = "complete" =>
              run[j].pc = "complete" \/ enrollment[j[1]].step >= StepCount
  <1> DEFINE Goal ==
        /\ run'[j].pc \in {"claim", "insert", "enqueue"} =>
             \/ run[j].pc \in {"claim", "insert", "enqueue"} /\ run'[j].step = run[j].step
             \/ run'[j].step = enrollment[j[1]].step
        /\ run'[j].pc = "complete" =>
             run[j].pc = "complete" \/ enrollment[j[1]].step >= StepCount
  <1>a. run \in [JobIds -> RunRecords]
    BY DEF SequenceTypeOK, RunRecords
  <1>b. ASSUME run'[j] = run[j] \/ run'[j].pc \notin {"claim", "insert", "enqueue", "complete"}
        PROVE  Goal
    BY <1>b
  <1>1. ASSUME NEW e \in Enrollments,
               \/ checkAllowOnce(e) \/ createSequenceEnrollment(e)
               \/ becomeDue(e) \/ selectDue(e) \/ selectByMessage(e)
        PROVE  UNCHANGED run
    BY <1>1, Zenon DEF checkAllowOnce, createSequenceEnrollment, becomeDue, selectDue,
                       selectByMessage
  <1>2. ASSUME expireLock \/ (\E h \in hooks : applyStatus(h)) PROVE UNCHANGED run
    BY <1>2 DEF expireLock, applyStatus
  <1>3. ASSUME NEW i, run' = AddRunJob(run, i) PROVE Goal
    BY <1>3, <1>b, JobMoves
  <1>4. ASSUME NEW e, run' = ForgetTime(e) PROVE Goal
    BY <1>4, <1>b, JobMoves
  <1>5. ASSUME NEW e \in Enrollments, enqueueSequenceEnrollmentRun(e) \/ auditDue(e) PROVE Goal
    BY <1>5, <1>3 DEF enqueueSequenceEnrollmentRun, auditDue
  <1>6. ASSUME handleDue PROVE Goal
    BY <1>6, <1>3 DEF handleDue
  <1>7. ASSUME NEW i \in JobIds, RunStep(i) \/ failRun(i) \/ evictRun(i) PROVE Goal
    <2>1. CASE startRun(i)
      <3>1. PICK pc \in Branches(enrollment[i[1]]) :
              run' = [run EXCEPT ![i] = IF pc = "leave" THEN Idle("done")
                                        ELSE [pc |-> pc, step |-> enrollment[i[1]].step, at |-> 0]]
        BY <2>1 DEF startRun
      <3>2. CASE i # j
        BY <1>a, <1>b, <3>1, <3>2
      <3>3. CASE i = j /\ pc = "leave"
        BY <1>a, <1>b, <3>1, <3>3 DEF Idle
      <3>4. CASE i = j /\ pc # "leave"
        <4>1. /\ run'[j].pc = pc
              /\ run'[j].step = enrollment[j[1]].step
          BY <1>a, <3>1, <3>4
        <4>2. pc = "complete" => StepMissing(enrollment[j[1]].step)
          BY <3>4 DEF Branches
        <4> QED
          BY <4>1, <4>2 DEF StepMissing
      <3> QED
        BY <3>2, <3>3, <3>4
    <2>2. CASE stopEnrollment(i) \/ completeEnrollment(i) \/ enqueueStepMessage(i)
      BY <1>a, <1>b, <2>2 DEF stopEnrollment, completeEnrollment, enqueueStepMessage, EndRun, Idle
    <2>3. CASE postponeEnrollment(i)
      <3>1. run' = [ForgetTime(i[1]) EXCEPT ![i].pc = "reload"]
        BY <2>3 DEF postponeEnrollment
      <3>2. ForgetTime(i[1]) \in [JobIds -> RunRecords]
        BY Indices, RunJobsType
      <3>3. CASE i = j
        BY <1>b, <3>1, <3>2, <3>3 DEF RunRecords
      <3>4. CASE i # j
        <4>1. run'[j] = ForgetTime(i[1])[j]
          BY <3>1, <3>2, <3>4
        <4> QED
          BY <1>b, <4>1, JobMoves
      <3> QED
        BY <3>3, <3>4
    <2>4. CASE reloadEnrollment(i)
      BY <1>a, <1>b, <2>4 DEF reloadEnrollment, Idle
    <2>5. CASE scheduleRun(i)
      <3> DEFINE jobs == AddRunJob(run, <<i[1], "run", run[i].at>>)
      <3>1. run' = [jobs EXCEPT ![i] = Idle("done")]
        BY <2>5 DEF scheduleRun
      <3>2. DOMAIN jobs = JobIds
        BY <1>a DEF AddRunJob
      <3>3. jobs[j] = run[j] \/ jobs[j].pc = "waiting"
        BY JobMoves
      <3> HIDE DEF jobs
      <3>4. CASE i = j
        BY <1>b, <3>1, <3>2, <3>4 DEF Idle
      <3>5. CASE i # j
        <4>1. run'[j] = jobs[j]
          BY <3>1, <3>2, <3>5
        <4> QED
          BY <1>b, <3>3, <4>1
      <3> QED
        BY <3>4, <3>5
    <2>6. CASE claimEnrollment(i) \/ insertStepMessage(i)
      <3>1. /\ run[i].pc \in {"claim", "insert"}
            /\ GoTo(i, "insert") \/ GoTo(i, "enqueue")
        BY <2>6 DEF claimEnrollment, insertStepMessage, At
      <3>2. CASE i = j
        <4>1. run'[j].step = run[j].step /\ run'[j].pc \in {"insert", "enqueue"}
          BY <1>a, <3>1, <3>2 DEF GoTo, RunRecords
        <4> QED
          BY <3>1, <3>2, <4>1
      <3>3. CASE i # j
        BY <1>a, <1>b, <3>1, <3>3 DEF GoTo
      <3> QED
        BY <3>2, <3>3
    <2>7. CASE failRun(i) \/ evictRun(i)
      BY <1>a, <1>b, <2>7 DEF failRun, evictRun, Idle
    <2> QED
      BY <1>7, <2>1, <2>2, <2>3, <2>4, <2>5, <2>6, <2>7 DEF RunStep
  <1>8. ASSUME NEW s \in SendIds,
               \/ startStepJob(s) \/ takeLock(s) \/ loadStep(s) \/ dispatchStep(s)
               \/ completeStepRow(s) \/ readLock(s) \/ deleteLock(s) \/ settleStepJob(s)
               \/ crashStepJob(s) \/ requeueStaleStep(s) \/ readdStepJob(s)
        PROVE  UNCHANGED run
    BY <1>8, Zenon DEF startStepJob, takeLock, loadStep, dispatchStep, completeStepRow, readLock,
                       deleteLock, settleStepJob, crashStepJob, requeueStaleStep, readdStepJob
  <1>9. ASSUME NEW s \in SendIds,
               \/ blockStep(s) \/ deferStep(s) \/ deferToNextHour(s) \/ failStep(s)
               \/ failAfterAccept(s) \/ advanceEnrollment(s) \/ enqueueNextRun(s)
        PROVE  Goal
    <2>1. CASE blockStep(s) \/ deferStep(s) \/ deferToNextHour(s) \/ failStep(s) \/ failAfterAccept(s)
      <3>1. UNCHANGED run \/ run' = ForgetTime(s[1])
        BY <2>1 DEF blockStep, deferStep, deferToNextHour, failStep, failAfterAccept, Retry,
                    GiveUp, PutOff
      <3> QED
        BY <3>1, <1>4, <1>b
    <2>2. CASE advanceEnrollment(s)
      BY <2>2, <1>4 DEF advanceEnrollment
    <2>3. CASE enqueueNextRun(s)
      BY <2>3, <1>3 DEF enqueueNextRun
    <2> QED
      BY <1>9, <2>1, <2>2, <2>3
  <1>10. ASSUME UNCHANGED run PROVE Goal
    BY <1>10, <1>b
  <1> HIDE DEF Goal
  <1>11. ASSUME NEW s \in SendIds,
                \/ SendStep(s) \/ failAfterAccept(s) \/ crashStepJob(s)
                \/ requeueStaleStep(s) \/ readdStepJob(s)
         PROVE  Goal
    BY <1>8, <1>9, <1>10, <1>11 DEF SendStep
  <1>12. Goal
    BY <1>1, <1>2, <1>5, <1>6, <1>7, <1>10, <1>11 DEF SequenceNext
  <1> QED
    BY <1>12 DEF Goal

\* A row is inserted by a run, belongs to a job from then on, and is
\* completed by its worker.
LEMMA OutboundMoves ==
  ASSUME SequenceTypeOK, SequenceNext, NEW s \in SendIds
  PROVE  /\ outbound'[s] # "none" =>
              \/ outbound[s] # "none" \/ send[s].pc # "none"
              \/ \E j \in JobIds : run[j].pc = "insert" /\ s = <<j[1], run[j].step>>
         /\ outbound'[s] = "completed" => outbound[s] = "completed" \/ send[s].pc = "complete"
  <1> DEFINE Goal ==
        /\ outbound'[s] # "none" =>
             \/ outbound[s] # "none" \/ send[s].pc # "none"
             \/ \E j \in JobIds : run[j].pc = "insert" /\ s = <<j[1], run[j].step>>
        /\ outbound'[s] = "completed" => outbound[s] = "completed" \/ send[s].pc = "complete"
  <1>a. outbound \in [SendIds -> {"none", "queued", "processing", "completed", "failed"}]
    BY DEF SequenceTypeOK
  <1> USE DEF sendVars
  <1>1. ASSUME NEW e \in Enrollments,
               \/ checkAllowOnce(e) \/ createSequenceEnrollment(e)
               \/ enqueueSequenceEnrollmentRun(e) \/ becomeDue(e) \/ auditDue(e)
               \/ selectDue(e) \/ selectByMessage(e)
        PROVE  UNCHANGED outbound
    BY <1>1, Zenon DEF checkAllowOnce, createSequenceEnrollment, enqueueSequenceEnrollmentRun,
                       becomeDue, auditDue, selectDue, selectByMessage
  <1>2. ASSUME handleDue \/ expireLock \/ (\E h \in hooks : applyStatus(h))
        PROVE  UNCHANGED outbound
    BY <1>2 DEF handleDue, expireLock, applyStatus
  <1>3. ASSUME NEW j \in JobIds,
               \/ startRun(j) \/ stopEnrollment(j) \/ completeEnrollment(j) \/ postponeEnrollment(j)
               \/ reloadEnrollment(j) \/ scheduleRun(j) \/ claimEnrollment(j)
               \/ enqueueStepMessage(j) \/ failRun(j) \/ evictRun(j)
        PROVE  UNCHANGED outbound
    BY <1>3, Zenon DEF startRun, stopEnrollment, completeEnrollment, postponeEnrollment,
                       reloadEnrollment, scheduleRun, claimEnrollment, enqueueStepMessage,
                       failRun, evictRun
  <1>4. ASSUME NEW j \in JobIds, insertStepMessage(j) PROVE Goal
    <2> DEFINE t == <<j[1], run[j].step>>
    <2>1. /\ run[j].pc = "insert"
          /\ outbound' = [outbound EXCEPT ![t] = IF @ = "none" THEN "queued" ELSE @]
      BY <1>4 DEF insertStepMessage, At
    <2>2. CASE s = t
      BY <1>a, <2>1, <2>2
    <2>3. CASE s # t
      <3>1. outbound'[s] = outbound[s]
        BY <1>a, <2>1, <2>3
      <3> QED
        BY <3>1
    <2> QED
      BY <2>2, <2>3
  <1>5. ASSUME NEW t \in SendIds,
               \/ takeLock(t) \/ loadStep(t) \/ blockStep(t) \/ deferStep(t)
               \/ deferToNextHour(t) \/ failStep(t) \/ failAfterAccept(t) \/ dispatchStep(t)
               \/ advanceEnrollment(t) \/ enqueueNextRun(t) \/ readLock(t) \/ deleteLock(t)
               \/ crashStepJob(t) \/ readdStepJob(t)
        PROVE  UNCHANGED outbound
    BY <1>5, Zenon DEF takeLock, loadStep, blockStep, deferStep, deferToNextHour, failStep,
                       failAfterAccept, dispatchStep, advanceEnrollment, enqueueNextRun, readLock,
                       deleteLock, crashStepJob, readdStepJob, SendLeaves
  <1>6. ASSUME NEW t \in SendIds,
               \/ startStepJob(t) \/ completeStepRow(t) \/ settleStepJob(t) \/ requeueStaleStep(t)
        PROVE  Goal
    BY <1>a, <1>6 DEF startStepJob, completeStepRow, settleStepJob, requeueStaleStep, SendAt
  <1>7. ASSUME UNCHANGED outbound PROVE Goal
    BY <1>7
  <1> HIDE DEF Goal
  <1>8. Goal
    BY <1>1, <1>2, <1>3, <1>4, <1>5, <1>6, <1>7 DEF SequenceNext, RunStep, SendStep
  <1> QED
    BY <1>8 DEF Goal

\* The lock values that stand for no worker.
LEMMA LockValues == \A s \in SendIds : s # Unlocked /\ s # Orphaned /\ Unlocked # Orphaned
  <1>1. DOMAIN <<>> = {} /\ \A x : DOMAIN <<x>> = {1}
    OBVIOUS
  <1>2. \A s \in SendIds : DOMAIN s = {1, 2}
    BY DEF SendIds
  <1>3. {} # {1} /\ {1} # {1, 2} /\ {} # {1, 2}
    OBVIOUS
  <1> QED
    BY <1>1, <1>2, <1>3 DEF Unlocked, Orphaned

\* The lock is taken from nobody, released by the worker about to delete it,
\* and otherwise lost with its worker or run out.
LEMMA LockMoves ==
  ASSUME SequenceTypeOK, SequenceNext
  PROVE  \/ lock' = lock
         \/ lock = Unlocked \/ lock = Orphaned \/ lockLost'
         \/ \E s \in SendIds : deleteLock(s) /\ send[s].pc = "delete"
         \/ \E s \in SendIds : crashStepJob(s) /\ lock = s
  <1> USE DEF sendVars
  <1>1. ASSUME NEW e \in Enrollments,
               \/ checkAllowOnce(e) \/ createSequenceEnrollment(e)
               \/ enqueueSequenceEnrollmentRun(e) \/ becomeDue(e) \/ auditDue(e)
               \/ selectDue(e) \/ selectByMessage(e)
        PROVE  UNCHANGED lock
    BY <1>1, Zenon DEF checkAllowOnce, createSequenceEnrollment, enqueueSequenceEnrollmentRun,
                       becomeDue, auditDue, selectDue, selectByMessage
  <1>2. ASSUME handleDue \/ (\E h \in hooks : applyStatus(h)) PROVE UNCHANGED lock
    BY <1>2 DEF handleDue, applyStatus
  <1>3. ASSUME NEW j \in JobIds, RunStep(j) \/ failRun(j) \/ evictRun(j) PROVE UNCHANGED lock
    BY <1>3, Zenon DEF RunStep, startRun, stopEnrollment, completeEnrollment, postponeEnrollment,
                       reloadEnrollment, scheduleRun, claimEnrollment, insertStepMessage,
                       enqueueStepMessage, failRun, evictRun
  <1>4. ASSUME NEW s \in SendIds,
               \/ startStepJob(s) \/ loadStep(s) \/ blockStep(s) \/ deferStep(s)
               \/ deferToNextHour(s) \/ failStep(s) \/ failAfterAccept(s) \/ dispatchStep(s)
               \/ advanceEnrollment(s) \/ enqueueNextRun(s) \/ completeStepRow(s) \/ readLock(s)
               \/ settleStepJob(s) \/ requeueStaleStep(s) \/ readdStepJob(s)
        PROVE  UNCHANGED lock
    BY <1>4, Zenon DEF startStepJob, loadStep, blockStep, deferStep, deferToNextHour, failStep,
                       failAfterAccept, dispatchStep, advanceEnrollment, enqueueNextRun,
                       completeStepRow, readLock, settleStepJob, requeueStaleStep, readdStepJob,
                       SendLeaves
  <1>5. ASSUME NEW s \in SendIds, takeLock(s) PROVE UNCHANGED lock \/ lock = Unlocked
    BY <1>5, Zenon DEF takeLock, LockFree
  <1>6. ASSUME NEW s \in SendIds, deleteLock(s) PROVE send[s].pc = "delete"
    BY <1>6 DEF deleteLock, SendAt
  <1>7. ASSUME NEW s \in SendIds, crashStepJob(s) PROVE UNCHANGED lock \/ lock = s
    BY <1>7, Zenon DEF crashStepJob
  <1>8. CASE expireLock
    BY <1>8, Zenon DEF expireLock
  <1> QED
    BY <1>1, <1>2, <1>3, <1>4, <1>5, <1>6, <1>7, <1>8, Zenon DEF SequenceNext, SendStep

(***************************************************************************)
(* The invariant                                                           *)
(***************************************************************************)
\* A worker moves the enrollment on from the step it has sent to the next.
LEMMA AdvanceStep ==
  ASSUME SequenceTypeOK, NEW s \in SendIds, advanceEnrollment(s)
  PROVE  /\ send[s].pc = "accepted" /\ UNCHANGED <<accepted, lock, outbound>>
         /\ enrollment'[s[1]].step = s[2] + 1
         /\ \A f \in Enrollments : f # s[1] => enrollment'[f] = enrollment[f]
         /\ enrollment'[s[1]].status = "completed" => s[2] + 1 >= StepCount
         /\ send'[s].pc \in {"run", "complete"}
  <1> DEFINE e == s[1]
             row == [enrollment[e] EXCEPT
                       !.step = NextStep(s[2]), !.message = <<s[2], accepted[s]>>,
                       !.delivery = "sent", !.retries = 0, !.ran = TRUE,
                       !.status = AfterStep(s[2])]
  <1>1. /\ enrollment \in [Enrollments -> RowRecords] /\ e \in Enrollments /\ s[2] \in StepIds
        /\ send \in [SendIds -> SendRecords]
    BY Indices DEF SequenceTypeOK, RowRecords, SendRecords
  <1>2. Reschedule(e, row) /\ send[s].pc = "accepted" /\ UNCHANGED <<accepted, lock, outbound>>
    BY DEF advanceEnrollment, SendAt
  <1>3. /\ [row EXCEPT !.runAt = NextTime(e)].step = s[2] + 1
        /\ [row EXCEPT !.runAt = NextTime(e)].status = AfterStep(s[2])
    BY <1>1 DEF RowRecords, NextStep
  <1>4. enrollment' = [enrollment EXCEPT ![e] = [row EXCEPT !.runAt = NextTime(e)]]
    BY <1>2 DEF Reschedule
  <1> HIDE DEF row
  <1>5. /\ enrollment'[e].step = s[2] + 1 /\ enrollment'[e].status = AfterStep(s[2])
        /\ \A f \in Enrollments : f # e => enrollment'[f] = enrollment[f]
    BY <1>1, <1>3, <1>4
  <1>6. AfterStep(s[2]) = "completed" => s[2] + 1 >= StepCount
    BY <1>1, Indices DEF AfterStep, StepIds
  <1>7. send'[s].pc \in {"run", "complete"}
    BY <1>1 DEF advanceEnrollment, SendRecords
  <1> QED
    BY <1>2, <1>5, <1>6, <1>7

\* An enrollment never goes back, and moves from the step of the worker that
\* moves it.
LEMMA StepsGoForward ==
  ASSUME SequenceTypeOK, LoadedStepIsCurrent, SequenceNext
  PROVE  /\ \A e \in Enrollments : enrollment'[e].step >= enrollment[e].step
         /\ \A s \in SendIds : advanceEnrollment(s) => enrollment[s[1]].step = s[2]
         /\ \A e \in Enrollments :
              \/ enrollment'[e].step = enrollment[e].step
              \/ \E s \in SendIds : advanceEnrollment(s) /\ s[1] = e
  <1>1. \A e \in Enrollments : enrollment[e].step \in 0..StepCount
    BY DEF SequenceTypeOK
  <1>2. \A s \in SendIds : advanceEnrollment(s) => enrollment[s[1]].step = s[2]
    BY AdvanceStep DEF LoadedStepIsCurrent
  <1>3. ASSUME NEW e \in Enrollments, NEW s \in SendIds, advanceEnrollment(s)
        PROVE  \/ enrollment'[e].step = enrollment[e].step
               \/ s[1] = e /\ enrollment'[e].step = enrollment[e].step + 1
    BY <1>2, <1>3, AdvanceStep
  <1>4. ASSUME NEW e \in Enrollments
        PROVE  /\ enrollment'[e].step >= enrollment[e].step
               /\ \/ enrollment'[e].step = enrollment[e].step
                  \/ \E s \in SendIds : advanceEnrollment(s) /\ s[1] = e
    BY <1>1, <1>3, RowMoves, Indices
  <1> QED
    BY <1>2, <1>4

\* The provider accepts a step once more.
LEMMA DispatchAccepts ==
  ASSUME SequenceTypeOK, NEW s \in SendIds, dispatchStep(s)
  PROVE  /\ send[s].pc = "loaded"
         /\ accepted'[s] > 0 /\ (accepted[s] = 0 => accepted'[s] = 1)
         /\ \A t \in SendIds : t # s => accepted'[t] = accepted[t]
         /\ send'[s].pc = "accepted" /\ UNCHANGED <<enrollment, outbound>>
  <1>1. /\ accepted \in [SendIds -> Nat] /\ send \in [SendIds -> SendRecords]
        /\ MaxStepRetries \in Nat
    BY Indices DEF SequenceTypeOK, SendRecords
  <1>2. UpToLimit(accepted[s] + 1) > 0 /\ (accepted[s] = 0 => UpToLimit(accepted[s] + 1) = 1)
    BY <1>1 DEF UpToLimit
  <1>3. /\ accepted'[s] = UpToLimit(accepted[s] + 1)
        /\ \A t \in SendIds : t # s => accepted'[t] = accepted[t]
    BY <1>1 DEF dispatchStep
  <1>4. send[s].pc = "loaded" /\ send'[s].pc = "accepted" /\ UNCHANGED <<enrollment, outbound>>
    BY <1>1 DEF dispatchStep, SendAt, SendGoTo, rowVars, SendRecords
  <1> QED
    BY <1>2, <1>3, <1>4

\* What was accepted stays accepted.
LEMMA AcceptedStays ==
  ASSUME SequenceTypeOK, SequenceNext, NEW s \in SendIds
  PROVE  accepted[s] > 0 => accepted'[s] > 0
  BY HistoryMoves, DispatchAccepts

\* What an enrollment leaves behind was accepted: it leaves the step of a
\* worker whose send was.
LEMMA StepsBehindNext ==
  ASSUME SequenceInvariant, SequenceNext
  PROVE  StepsBehindWereSent'
  <1> SUFFICES ASSUME NEW e \in Enrollments, NEW k \in StepIds, k < enrollment'[e].step
               PROVE  accepted'[<<e, k>>] > 0
    BY DEF StepsBehindWereSent
  <1>1. SequenceTypeOK /\ LoadedStepIsCurrent /\ <<e, k>> \in SendIds
    BY Indices DEF SequenceInvariant
  <1>2. CASE k < enrollment[e].step
    BY <1>1, <1>2, AcceptedStays DEF SequenceInvariant, StepsBehindWereSent
  <1>3. ASSUME NEW s \in SendIds, advanceEnrollment(s), s[1] = e, ~(k < enrollment[e].step)
        PROVE  accepted'[<<e, k>>] > 0
    <2>1. enrollment'[e].step = s[2] + 1 /\ enrollment[e].step = s[2]
      BY <1>1, <1>3, AdvanceStep, StepsGoForward
    <2>2. k = s[2]
      BY <1>3, <2>1, Indices DEF StepIds
    <2>3. s = <<e, k>>
      BY <1>3, <2>2, Indices
    <2>4. send[s].pc = "accepted"
      BY <1>1, <1>3, AdvanceStep
    <2>5. accepted[s] > 0
      BY <2>4 DEF SequenceInvariant, SettledWasSent
    <2> QED
      BY <1>1, <2>3, <2>5, AcceptedStays
  <1> QED
    BY <1>1, <1>2, <1>3, StepsGoForward

\* Nobody moves an enrollment between a worker's comparison and its send: the
\* workers that could are at the same step, and a step has one worker.
LEMMA LoadedStepNext ==
  ASSUME SequenceInvariant, SequenceNext
  PROVE  LoadedStepIsCurrent'
  <1> SUFFICES ASSUME NEW s \in SendIds, send'[s].pc \in {"loaded", "accepted"}
               PROVE  enrollment'[s[1]].step = s[2]
    BY DEF LoadedStepIsCurrent
  <1>1. SequenceTypeOK /\ LoadedStepIsCurrent /\ s[1] \in Enrollments
    BY Indices DEF SequenceInvariant
  <1>2. CASE send[s].pc \in {"loaded", "accepted"}
    <2>1. enrollment[s[1]].step = s[2]
      BY <1>1, <1>2 DEF LoadedStepIsCurrent
    <2>2. ASSUME NEW t \in SendIds, advanceEnrollment(t), t[1] = s[1] PROVE FALSE
      <3>1. t[2] = s[2]
        BY <1>1, <2>1, <2>2, StepsGoForward
      <3>2. t = s
        BY <2>2, <3>1, Indices
      <3> QED
        BY <1>1, <2>2, <3>2, AdvanceStep
    <2> QED
      BY <1>1, <2>1, <2>2, StepsGoForward
  <1>3. CASE send[s].pc \notin {"loaded", "accepted"}
    <2>1. SendStep(s) \/ failAfterAccept(s) \/ crashStepJob(s)
      BY <1>1, <1>3, SendMoves
    <2>2. loadStep(s) /\ StillCurrent(s)
      BY <1>1, <1>3, <2>1, SendTable, DispatchAccepts
    <2> QED
      BY <2>2 DEF loadStep, StillCurrent, rowVars
  <1> QED
    BY <1>2, <1>3

\* Rows, jobs and runs are for steps the enrollment has reached, and it never
\* goes back.
LEMMA NobodyIsAheadNext ==
  ASSUME SequenceInvariant, SequenceNext
  PROVE  NobodyIsAhead'
  <1>1. SequenceTypeOK /\ LoadedStepIsCurrent /\ NobodyIsAhead
    BY DEF SequenceInvariant
  <1>2. \A e \in Enrollments :
          /\ enrollment[e].step \in Int /\ enrollment'[e].step \in Int
          /\ enrollment'[e].step >= enrollment[e].step
    <2>1. SequenceTypeOK'
      BY <1>1, NextTypeOK
    <2> QED
      BY <1>1, <2>1, StepsGoForward, Indices DEF SequenceTypeOK
  <1>3. ASSUME NEW s \in SendIds, outbound'[s] # "none" \/ send'[s].pc # "none"
        PROVE  s[2] <= enrollment'[s[1]].step
    <2>1. s[1] \in Enrollments /\ s[2] \in Int
      BY Indices DEF StepIds
    <2>2. CASE outbound[s] # "none" \/ send[s].pc # "none"
      BY <1>1, <1>2, <2>1, <2>2 DEF NobodyIsAhead
    <2>3. ASSUME NEW j \in JobIds, run[j].pc \in {"insert", "enqueue"}, s = <<j[1], run[j].step>>
          PROVE  s[2] <= enrollment'[s[1]].step
      <3>1. run[j].step <= enrollment[j[1]].step
        BY <1>1, <2>3 DEF NobodyIsAhead
      <3> QED
        BY <1>2, <2>1, <2>3, <3>1
    <2>4. CASE outbound[s] = "none" /\ send[s].pc = "none"
      <3>1. CASE outbound'[s] # "none"
        BY <1>1, <2>3, <2>4, <3>1, OutboundMoves
      <3>2. CASE send'[s].pc # "none"
        BY <1>1, <2>3, <2>4, <3>2, SendMoves, SendTable
      <3> QED
        BY <1>3, <3>1, <3>2
    <2> QED
      BY <2>2, <2>4
  <1>4. ASSUME NEW j \in JobIds, run'[j].pc \in {"claim", "insert", "enqueue"}
        PROVE  run'[j].step <= enrollment'[j[1]].step
    <2>1. j[1] \in Enrollments
      BY Indices
    <2>2. run'[j].step <= enrollment[j[1]].step /\ run'[j].step \in Int
      <3>1. SequenceTypeOK'
        BY <1>1, NextTypeOK
      <3>2. run'[j].step \in Int
        BY <3>1, Indices DEF SequenceTypeOK
      <3>3. CASE run[j].pc \in {"claim", "insert", "enqueue"} /\ run'[j].step = run[j].step
        BY <1>1, <3>2, <3>3 DEF NobodyIsAhead
      <3>4. CASE run'[j].step = enrollment[j[1]].step
        BY <1>2, <2>1, <3>2, <3>4
      <3> QED
        BY <1>1, <1>4, <3>2, <3>3, <3>4, RunMoves
    <2> QED
      BY <1>2, <2>1, <2>2
  <1> QED
    BY <1>3, <1>4 DEF NobodyIsAhead

\* A worker settles a row as sent because its own send was accepted, or
\* because the enrollment has left the step behind.
LEMMA SettledWasSentNext ==
  ASSUME SequenceInvariant, SequenceNext
  PROVE  SettledWasSent'
  <1>1. SequenceTypeOK /\ SettledWasSent /\ NobodyIsAhead /\ StepsBehindWereSent
    BY DEF SequenceInvariant
  <1> SUFFICES ASSUME NEW s \in SendIds,
                      \/ send'[s].pc \in {"accepted", "complete"} \/ send'[s].end = "sent"
                      \/ outbound'[s] = "completed",
                      ~(accepted[s] > 0)
               PROVE  accepted'[s] > 0
    BY <1>1, AcceptedStays DEF SettledWasSent
  <1>2. /\ send[s].pc \notin {"accepted", "complete"} /\ send[s].end # "sent"
        /\ outbound[s] # "completed"
    BY <1>1 DEF SettledWasSent
  <1>3. outbound'[s] # "completed" /\ ~advanceEnrollment(s)
    BY <1>1, <1>2, OutboundMoves, AdvanceStep
  <1>4. SendStep(s) \/ failAfterAccept(s) \/ crashStepJob(s)
    BY <1>1, <1>2, <1>3, SendMoves
  <1>5. CASE dispatchStep(s)
    BY <1>1, <1>5, DispatchAccepts
  <1>6. CASE loadStep(s) /\ ~StillCurrent(s)
    <2>1. send[s].pc # "none" /\ enrollment[s[1]].step # s[2]
      BY <1>6 DEF loadStep, SendAt, StillCurrent
    <2>2. s[2] <= enrollment[s[1]].step
      BY <1>1, <2>1 DEF NobodyIsAhead
    <2>3. s[1] \in Enrollments /\ s[2] \in StepIds /\ s = <<s[1], s[2]>>
      BY Indices
    <2>4. s[2] < enrollment[s[1]].step
      <3>1. enrollment[s[1]].step \in Int
        BY <1>1, <2>3, Indices DEF SequenceTypeOK
      <3>2. s[2] \in Int
        BY <2>3, Indices DEF StepIds
      <3> QED
        BY <2>1, <2>2, <3>1, <3>2
    <2>5. accepted[<<s[1], s[2]>>] > 0
      BY <1>1, <2>3, <2>4 DEF StepsBehindWereSent
    <2> QED
      BY <2>3, <2>5
  <1> QED
    BY <1>1, <1>2, <1>3, <1>4, <1>5, <1>6, SendTable

\* An enrollment is completed by a run that found no step left or by the
\* worker of the last one.
LEMMA CompletedNext ==
  ASSUME SequenceInvariant, SequenceNext
  PROVE  CompletedIsBeyondLast'
  <1>1. SequenceTypeOK /\ LoadedStepIsCurrent /\ CompletedIsBeyondLast
    BY DEF SequenceInvariant
  <1>2. \A e \in Enrollments :
          /\ enrollment[e].step \in Int /\ enrollment'[e].step \in Int
          /\ enrollment'[e].step >= enrollment[e].step
    <2>1. SequenceTypeOK'
      BY <1>1, NextTypeOK
    <2> QED
      BY <1>1, <2>1, StepsGoForward, Indices DEF SequenceTypeOK
  <1>3. ASSUME NEW j \in JobIds, run'[j].pc = "complete"
        PROVE  enrollment'[j[1]].step >= StepCount
    <2>1. j[1] \in Enrollments
      BY Indices
    <2>2. enrollment[j[1]].step >= StepCount
      BY <1>1, <1>3, RunMoves DEF CompletedIsBeyondLast
    <2> QED
      BY <1>2, <2>1, <2>2, Indices
  <1>4. ASSUME NEW e \in Enrollments, enrollment'[e].status = "completed"
        PROVE  enrollment'[e].step >= StepCount
    <2>1. CASE enrollment[e].status = "completed"
      BY <1>1, <1>2, <2>1, Indices DEF CompletedIsBeyondLast
    <2>2. ASSUME NEW j \in JobIds, completeEnrollment(j), j[1] = e
          PROVE  enrollment'[e].step >= StepCount
      <3>1. run[j].pc = "complete"
        BY <2>2 DEF completeEnrollment, At
      <3>2. enrollment[e].step >= StepCount
        BY <1>1, <2>2, <3>1 DEF CompletedIsBeyondLast
      <3> QED
        BY <1>2, <3>2, Indices
    <2>3. ASSUME NEW s \in SendIds, advanceEnrollment(s)
          PROVE  enrollment'[e].step >= StepCount
      <3>1. CASE s[1] = e
        BY <1>1, <1>4, <2>3, <3>1, AdvanceStep
      <3>2. CASE s[1] # e
        <4>1. enrollment'[e] = enrollment[e]
          BY <1>1, <2>3, <3>2, AdvanceStep
        <4> QED
          BY <1>1, <1>4, <4>1 DEF CompletedIsBeyondLast
      <3> QED
        BY <3>1, <3>2
    <2> QED
      BY <1>1, <1>4, <2>1, <2>2, <2>3, RowMoves
  <1> QED
    BY <1>3, <1>4 DEF CompletedIsBeyondLast

\* The lock is taken only when it is free, which it is not while a worker
\* holds it, and deleted only by the worker it belongs to.
LEMMA LockIsOwnNext ==
  ASSUME SequenceInvariant, SequenceNext
  PROVE  LockIsOwn'
  <1>1. SequenceTypeOK /\ LockIsOwn
    BY DEF SequenceInvariant
  <1> SUFFICES ASSUME ~lockLost', NEW s \in SendIds, send'[s].pc \in UnderLock
               PROVE  lock' = s
    BY DEF LockIsOwn, UnderLock
  <1>2. ~lockLost
    BY <1>1, HistoryMoves
  <1>3. \A t \in SendIds : send[t].pc \in UnderLock => lock = t
    BY <1>1, <1>2 DEF LockIsOwn
  <1>4. CASE SendStep(s) \/ failAfterAccept(s) \/ crashStepJob(s)
    BY <1>1, <1>3, <1>4, SendTable
  <1>5. CASE ~(SendStep(s) \/ failAfterAccept(s) \/ crashStepJob(s))
    <2>1. send[s].pc \in UnderLock
      BY <1>1, <1>5, SendMoves DEF UnderLock
    <2>2. lock = s
      BY <1>3, <2>1
    <2>3. ASSUME NEW t \in SendIds, deleteLock(t), send[t].pc = "delete" PROVE FALSE
      <3>1. lock = t
        BY <1>3, <2>3 DEF UnderLock
      <3> QED
        BY <1>5, <2>2, <2>3, <3>1 DEF SendStep
    <2>4. ASSUME NEW t \in SendIds, crashStepJob(t), lock = t PROVE FALSE
      BY <1>5, <2>2, <2>4
    <2> QED
      BY <1>1, <2>2, <2>3, <2>4, LockMoves, LockValues
  <1> QED
    BY <1>4, <1>5

\* Without a fault, the worker whose send was accepted moves the enrollment on
\* before it does anything else, and a step left behind is never loaded.
LEMMA AcceptedIsLeftNext ==
  ASSUME SequenceInvariant, SequenceNext
  PROVE  AcceptedIsLeft'
  <1>1. SequenceTypeOK /\ LoadedStepIsCurrent /\ AcceptedIsLeft
    BY DEF SequenceInvariant
  <1> SUFFICES ASSUME stepFaults' = 0, NEW s \in SendIds, accepted'[s] > 0
               PROVE  /\ accepted'[s] = 1
                      /\ send'[s].pc = "accepted" \/ s[2] < enrollment'[s[1]].step
    BY DEF AcceptedIsLeft
  <1>2. stepFaults = 0
    BY <1>1, HistoryMoves DEF SequenceTypeOK
  <1>3. /\ s[1] \in Enrollments /\ s[2] \in Int /\ accepted[s] \in Nat
        /\ enrollment[s[1]].step \in Int /\ enrollment'[s[1]].step \in Int
        /\ enrollment'[s[1]].step >= enrollment[s[1]].step
    <2>1. SequenceTypeOK'
      BY <1>1, NextTypeOK
    <2> QED
      BY <1>1, <2>1, StepsGoForward, Indices DEF SequenceTypeOK, StepIds
  <1>4. CASE dispatchStep(s)
    <2>1. send[s].pc = "loaded" /\ enrollment[s[1]].step = s[2]
      BY <1>1, <1>4, DispatchAccepts DEF LoadedStepIsCurrent
    <2>2. ~(accepted[s] > 0)
      BY <1>1, <1>2, <1>3, <2>1 DEF AcceptedIsLeft
    <2> QED
      BY <1>1, <1>3, <1>4, <2>2, DispatchAccepts
  <1>5. CASE ~dispatchStep(s)
    <2>1. accepted'[s] = accepted[s]
      BY <1>1, <1>5, HistoryMoves, DispatchAccepts
    <2>2. accepted[s] = 1 /\ (send[s].pc = "accepted" \/ s[2] < enrollment[s[1]].step)
      BY <1>1, <1>2, <2>1 DEF AcceptedIsLeft
    <2>3. CASE s[2] < enrollment[s[1]].step
      BY <1>3, <2>1, <2>2, <2>3
    <2>4. CASE advanceEnrollment(s)
      BY <1>1, <1>3, <2>1, <2>2, <2>4, AdvanceStep
    <2>5. CASE send[s].pc = "accepted" /\ ~advanceEnrollment(s)
      <3>1. ~(SendStep(s) \/ failAfterAccept(s) \/ crashStepJob(s))
        BY <1>1, <2>5, SendTable
      <3>2. send'[s].pc = "accepted"
        BY <1>1, <2>5, <3>1, SendMoves DEF InFlight
      <3> QED
        BY <2>1, <2>2, <3>2
    <2> QED
      BY <2>2, <2>3, <2>4, <2>5
  <1> QED
    BY <1>4, <1>5

\* The initial state satisfies the invariant.
LEMMA InitInvariant == SequenceInit => SequenceInvariant
  <1> SUFFICES ASSUME SequenceInit PROVE SequenceInvariant
    OBVIOUS
  <1>1. SequenceTypeOK
    BY InitTypeOK
  <1>2. /\ \A e \in Enrollments : enrollment[e].step = 0 /\ enrollment[e].status = "none"
        /\ \A j \in JobIds : run[j].pc = "none"
        /\ \A s \in SendIds : /\ send[s].pc = "none" /\ send[s].end = "failed"
                              /\ outbound[s] = "none" /\ accepted[s] = 0
    BY DEF SequenceInit
  <1>3. StepsBehindWereSent /\ LoadedStepIsCurrent /\ SettledWasSent /\ AcceptedIsLeft
    BY <1>2, Indices DEF StepsBehindWereSent, LoadedStepIsCurrent, SettledWasSent, AcceptedIsLeft,
                         StepIds
  <1>4. NobodyIsAhead /\ CompletedIsBeyondLast /\ LockIsOwn
    BY <1>2 DEF NobodyIsAhead, CompletedIsBeyondLast, LockIsOwn, UnderLock
  <1> QED
    BY <1>1, <1>3, <1>4 DEF SequenceInvariant

\* Every step keeps it.
LEMMA NextInvariant == SequenceInvariant /\ [SequenceNext]_sequenceVars => SequenceInvariant'
  <1> SUFFICES ASSUME SequenceInvariant, [SequenceNext]_sequenceVars PROVE SequenceInvariant'
    OBVIOUS
  <1>1. CASE SequenceNext
    <2>1. SequenceTypeOK'
      BY <1>1, NextTypeOK DEF SequenceInvariant
    <2> QED
      BY <1>1, <2>1, StepsBehindNext, LoadedStepNext, NobodyIsAheadNext, SettledWasSentNext,
         CompletedNext, LockIsOwnNext, AcceptedIsLeftNext DEF SequenceInvariant
  <1>2. CASE UNCHANGED sequenceVars
    BY <1>2 DEF SequenceInvariant, sequenceVars, SequenceTypeOK, StepsBehindWereSent,
                LoadedStepIsCurrent, NobodyIsAhead, SettledWasSent, CompletedIsBeyondLast,
                LockIsOwn, AcceptedIsLeft
  <1> QED
    BY <1>1, <1>2

\* What the workers rely on always holds.
THEOREM InvariantHolds == SequenceSpec => []SequenceInvariant
  BY InitInvariant, NextInvariant, PTL DEF SequenceSpec

\* An enrollment that is completed has had every step accepted by the
\* provider, whatever was retried, put off, reconciled or run twice.
THEOREM CompletedSent == SequenceSpec => []CompletedSentEveryStep
  <1>1. SequenceInvariant => CompletedSentEveryStep
    BY Indices DEF SequenceInvariant, SequenceTypeOK, CompletedIsBeyondLast, StepsBehindWereSent,
                   CompletedSentEveryStep, StepIds
  <1> QED
    BY <1>1, InvariantHolds, PTL

\* A completed outbound row stands for a step the provider accepted.
THEOREM CompletedRowWasSent == SequenceSpec => []CompletedStepWasSent
  <1>1. SequenceInvariant => CompletedStepWasSent
    BY DEF SequenceInvariant, SettledWasSent, CompletedStepWasSent
  <1> QED
    BY <1>1, InvariantHolds, PTL

\* As long as no worker dies, throws late or outlasts the lock, no step is
\* sent twice, however many run, retry and audit jobs of an enrollment overlap.
THEOREM StepIsSentOnce == SequenceSpec => []StepSentOnce
  <1>1. SequenceInvariant => StepSentOnce
    BY DEF SequenceInvariant, SequenceTypeOK, AcceptedIsLeft, StepSentOnce
  <1> QED
    BY <1>1, InvariantHolds, PTL

\* As long as the lock does not run out under a worker, one worker at a time
\* is between loading an enrollment of the contact and writing it.
THEOREM SendsExcludeEachOther == SequenceSpec => []OneSendAtATime
  <1>1. SequenceInvariant => OneSendAtATime
    <2> SUFFICES ASSUME SequenceInvariant, ~lockLost, NEW s \in SendIds, NEW t \in SendIds,
                        {send[s].pc, send[t].pc} \subseteq {"loaded", "accepted"}
                 PROVE  s = t
      BY DEF OneSendAtATime
    <2>1. send[s].pc \in UnderLock /\ send[t].pc \in UnderLock
      BY DEF UnderLock
    <2> QED
      BY <2>1 DEF SequenceInvariant, LockIsOwn
  <1> QED
    BY <1>1, InvariantHolds, PTL

\* The provider never accepts a step its enrollment has left or not reached.
THEOREM SendsTheCurrentStep == SequenceSpec => OnlyCurrentStepIsSent
  <1>1. SequenceInvariant /\ [SequenceNext]_sequenceVars =>
          [\A s \in SendIds : accepted'[s] # accepted[s] => enrollment[s[1]].step = s[2]]_sequenceVars
    <2> SUFFICES ASSUME SequenceInvariant, SequenceNext, NEW s \in SendIds,
                        accepted'[s] # accepted[s]
                 PROVE  enrollment[s[1]].step = s[2]
      OBVIOUS
    <2>1. SequenceTypeOK /\ LoadedStepIsCurrent
      BY DEF SequenceInvariant
    <2>2. dispatchStep(s)
      BY <2>1, HistoryMoves, DispatchAccepts
    <2> QED
      BY <2>1, <2>2, DispatchAccepts DEF LoadedStepIsCurrent
  <1> QED
    BY <1>1, InvariantHolds, PTL DEF SequenceSpec, OnlyCurrentStepIsSent
=============================================================================
