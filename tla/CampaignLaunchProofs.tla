------------------------- MODULE CampaignLaunchProofs -------------------------
(* Proofs about CampaignLaunch, for every finite set of contacts and every   *)
(* number of calls: its types, and that calls that do not overtake one       *)
(* another launch the draft they have read and reach every contact once.     *)
EXTENDS CampaignLaunch, FiniteSetTheorems, TLAPS

DraftRecs == [status : NotLaunched \cup {"running", "completed", "cancelled"},
              timed : BOOLEAN, audience : Audiences, total : Nat, skipped : Nat]
CallPcs == {"new", "delete", "insert", "run", "complete", "enqueue", "ended"}
CallRecs == [pc : CallPcs, audience : SUBSET Contacts, todo : SUBSET Contacts]
RowStates == {"none", "queued", "skipped", "sending", "sent"}

(***************************************************************************)
(* Types                                                                   *)
(***************************************************************************)
\* An audience is a finite set of contacts, and so are the rows of a call.
LEMMA Finite ==
  /\ \A c \in Audiences : c \subseteq Contacts
  /\ \A c \in SUBSET Contacts : IsFiniteSet(c) /\ Cardinality(c) \in Nat
  <1>1. IsFiniteSet(Contacts) /\ Audiences \subseteq SUBSET Contacts
    BY LaunchAssumption
  <1> QED
    BY <1>1, FS_Subset, FS_CardinalityType

\* The row of the campaign keeps its type.
LEMMA DraftType ==
  ASSUME LaunchTypeOK, LaunchNext
  PROVE  draft' \in DraftRecs
  <1>1. draft \in DraftRecs /\ launch \in [Launches -> CallRecs]
    BY DEF LaunchTypeOK, DraftRecs, CallRecs, CallPcs
  <1>2. CASE UNCHANGED draft
    BY <1>1, <1>2
  <1>3. ASSUME NEW status \in NotLaunched \cup {"running", "completed", "cancelled"},
               draft' = [draft EXCEPT !.status = status]
        PROVE  draft' \in DraftRecs
    BY <1>1, <1>3 DEF DraftRecs
  <1>4. ASSUME NEW l \in Launches, runCampaign(l)
        PROVE  draft' \in DraftRecs
    <2>1. launch[l] \in CallRecs
      BY <1>1
    <2>2. launch[l].audience \subseteq Contacts /\ Own(l, "skipped") \subseteq Contacts
      BY <2>1 DEF CallRecs, Own
    <2>3. TotalCount(l) \in Nat /\ Cardinality(Own(l, "skipped")) \in Nat
      BY <2>2, Finite DEF TotalCount
    <2> QED
      BY <1>1, <1>4, <2>3 DEF runCampaign, DraftRecs
  <1>5. ASSUME NEW u \in Edits, updateCampaign(u)
        PROVE  draft' \in DraftRecs
    <2>1. PICK audience \in Audiences, timed \in {draft.timed, TRUE} :
            draft' = [draft EXCEPT !.audience = audience, !.timed = timed,
                                   !.status = IF timed THEN "scheduled" ELSE "draft"]
      BY <1>5 DEF updateCampaign
    <2>2. timed \in BOOLEAN
      BY <1>1 DEF DraftRecs
    <2> QED
      BY <1>1, <2>1, <2>2 DEF DraftRecs, NotLaunched
  <1>6. CompleteDraft => draft' \in DraftRecs
    BY <1>2, <1>3 DEF CompleteDraft
  <1>7. ASSUME NEW l \in Launches,
               \/ getCampaign(l) \/ refuseLaunch(l) \/ deleteMessages(l) \/ insertMessage(l)
               \/ completeSkipped(l) \/ enqueueLaunched(l) \/ failLaunch(l)
        PROVE  draft' \in DraftRecs
    BY <1>2, <1>6, <1>7 DEF getCampaign, refuseLaunch, deleteMessages, insertMessage,
                            completeSkipped, enqueueLaunched, failLaunch
  <1>8. ASSUME NEW m \in MessageIds, claimMessage(m) \/ deliverCampaignMessage(m)
        PROVE  draft' \in DraftRecs
    BY <1>2, <1>8 DEF claimMessage, deliverCampaignMessage
  <1>9. cancelLaunched \/ endDispatch \/ completeIfIdle => draft' \in DraftRecs
    BY <1>3, <1>6 DEF cancelLaunched, endDispatch, completeIfIdle
  <1>10. ASSUME NEW u \in Edits, readForUpdate(u)
         PROVE  draft' \in DraftRecs
    BY <1>2, <1>10 DEF readForUpdate
  <1> QED
    BY <1>4, <1>5, <1>7, <1>8, <1>9, <1>10 DEF LaunchNext

\* The calls keep their type.
LEMMA CallsType ==
  ASSUME LaunchTypeOK, LaunchNext
  PROVE  launch' \in [Launches -> CallRecs] /\ edit' \in [Edits -> {"new", "write", "ended"}]
  <1> DEFINE Goal == launch' \in [Launches -> CallRecs]
                     /\ edit' \in [Edits -> {"new", "write", "ended"}]
  <1>1. launch \in [Launches -> CallRecs] /\ edit \in [Edits -> {"new", "write", "ended"}]
    BY DEF LaunchTypeOK, CallRecs, CallPcs
  <1>2. Ended \in CallRecs /\ NewCall \in CallRecs
    BY DEF Ended, NewCall, CallRecs, CallPcs
  <1>3. ASSUME NEW l \in Launches, NEW pc \in CallPcs, LaunchTo(l, pc), UNCHANGED edit
        PROVE  Goal
    BY <1>1, <1>3 DEF LaunchTo, CallRecs
  <1>4. ASSUME NEW l \in Launches, getCampaign(l)
        PROVE  Goal
    <2>1. [NewCall EXCEPT !.pc = "delete", !.audience = draft.audience] \in CallRecs
      <3>1. draft.audience \subseteq Contacts
        BY Finite DEF LaunchTypeOK
      <3> QED
        BY <1>2, <3>1 DEF CallRecs, CallPcs
    <2> QED
      BY <1>1, <1>4, <2>1 DEF getCampaign
  <1>5. ASSUME NEW l \in Launches, refuseLaunch(l) \/ enqueueLaunched(l) \/ failLaunch(l)
        PROVE  Goal
    BY <1>1, <1>2, <1>5 DEF refuseLaunch, enqueueLaunched, failLaunch
  <1>6. ASSUME NEW l \in Launches, deleteMessages(l)
        PROVE  Goal
    <2>1. UNCHANGED edit
      BY <1>6 DEF deleteMessages
    <2>2. launch' = [launch EXCEPT ![l].pc = "insert", ![l].todo = launch[l].audience]
      BY <1>6 DEF deleteMessages
    <2>3. [launch[l] EXCEPT !.pc = "insert", !.todo = launch[l].audience] \in CallRecs
      <3>1. launch[l] \in CallRecs
        BY <1>1
      <3> QED
        BY <3>1 DEF CallRecs, CallPcs
    <2>4. launch' = [launch EXCEPT ![l] = [launch[l] EXCEPT !.pc = "insert",
                                                            !.todo = launch[l].audience]]
      BY <2>2
    <2> QED
      BY <1>1, <2>1, <2>3, <2>4
  <1>7. ASSUME NEW l \in Launches, insertMessage(l)
        PROVE  Goal
    <2>1. PICK c \in launch[l].todo :
            launch' = [launch EXCEPT ![l].todo = @ \ {c},
                                     ![l].pc = IF launch[l].todo = {c} THEN "run" ELSE "insert"]
      BY <1>7 DEF insertMessage
    <2>2. ASSUME NEW todo \in SUBSET Contacts, NEW pc \in CallPcs,
                 launch' = [launch EXCEPT ![l].todo = todo, ![l].pc = pc]
          PROVE  launch' \in [Launches -> CallRecs]
      BY <1>1, <2>2 DEF CallRecs
    <2>3. launch[l].todo \ {c} \in SUBSET Contacts
      BY <1>1 DEF CallRecs
    <2>4. (IF launch[l].todo = {c} THEN "run" ELSE "insert") \in CallPcs
      BY DEF CallPcs
    <2>5. edit' = edit
      BY <1>7 DEF insertMessage
    <2> QED
      BY <1>1, <2>1, <2>2, <2>3, <2>4, <2>5
  <1>8. ASSUME NEW l \in Launches, runCampaign(l) \/ completeSkipped(l)
        PROVE  Goal
    BY <1>3, <1>8 DEF runCampaign, completeSkipped, CallPcs
  <1>9. ASSUME NEW u \in Edits, readForUpdate(u) \/ updateCampaign(u)
        PROVE  Goal
    BY <1>1, <1>9 DEF readForUpdate, updateCampaign
  <1>10. ASSUME NEW m \in MessageIds, claimMessage(m) \/ deliverCampaignMessage(m)
         PROVE  Goal
    BY <1>1, <1>10 DEF claimMessage, deliverCampaignMessage
  <1>11. cancelLaunched \/ endDispatch \/ completeIfIdle => Goal
    BY <1>1 DEF cancelLaunched, endDispatch, completeIfIdle
  <1> HIDE DEF Goal
  <1>12. Goal
    BY <1>4, <1>5, <1>6, <1>7, <1>8, <1>9, <1>10, <1>11 DEF LaunchNext
  <1> QED
    BY <1>12 DEF Goal

\* What is sent, and how often, keeps its type.
LEMMA RowsType ==
  ASSUME LaunchTypeOK, LaunchNext
  PROVE  /\ message' \in [MessageIds -> RowStates] /\ received' \in [Contacts -> Nat]
         /\ atWorker' \subseteq MessageIds /\ launchFaults' \in Nat
  <1> DEFINE Goal == /\ message' \in [MessageIds -> RowStates] /\ received' \in [Contacts -> Nat]
                     /\ atWorker' \subseteq MessageIds /\ launchFaults' \in Nat
  <1>1. /\ message \in [MessageIds -> RowStates] /\ received \in [Contacts -> Nat]
        /\ atWorker \subseteq MessageIds /\ launchFaults \in Nat
    BY DEF LaunchTypeOK, RowStates
  <1>2. ASSUME NEW l \in Launches,
               \/ getCampaign(l) \/ refuseLaunch(l) \/ runCampaign(l) \/ completeSkipped(l)
               \/ enqueueLaunched(l) \/ failLaunch(l)
        PROVE  Goal
    BY <1>1, <1>2 DEF getCampaign, refuseLaunch, runCampaign, completeSkipped, enqueueLaunched,
                      failLaunch, launchHistory
  <1>3. ASSUME NEW l \in Launches, deleteMessages(l)
        PROVE  Goal
    BY <1>1, <1>3 DEF deleteMessages, NoRows, launchHistory, RowStates
  <1>4. ASSUME NEW l \in Launches, insertMessage(l)
        PROVE  Goal
    BY <1>1, <1>4 DEF insertMessage, launchHistory, RowStates
  <1>5. ASSUME NEW u \in Edits, readForUpdate(u) \/ updateCampaign(u)
        PROVE  Goal
    BY <1>1, <1>5 DEF readForUpdate, updateCampaign, launchHistory
  <1>6. ASSUME NEW m \in MessageIds, claimMessage(m) \/ deliverCampaignMessage(m)
        PROVE  Goal
    <2>1. m[2] \in Contacts
      BY DEF MessageIds
    <2> QED
      BY <1>1, <1>6, <2>1 DEF claimMessage, deliverCampaignMessage, launchHistory, RowStates
  <1>7. cancelLaunched \/ endDispatch \/ completeIfIdle => Goal
    BY <1>1 DEF cancelLaunched, endDispatch, completeIfIdle, launchHistory
  <1> HIDE DEF Goal
  <1>8. Goal
    BY <1>2, <1>3, <1>4, <1>5, <1>6, <1>7 DEF LaunchNext
  <1> QED
    BY <1>8 DEF Goal

\* The flags keep their type, and what has raced stays so.
LEMMA RacedStays ==
  ASSUME LaunchTypeOK, LaunchNext
  PROVE  dispatched' \in BOOLEAN /\ raced' \in BOOLEAN /\ (raced = TRUE => raced' = TRUE)
  <1> DEFINE Goal == dispatched' \in BOOLEAN /\ raced' \in BOOLEAN /\ (raced = TRUE => raced' = TRUE)
  <1>1. dispatched \in BOOLEAN /\ raced \in BOOLEAN
    BY DEF LaunchTypeOK
  <1>2. ASSUME UNCHANGED raced, dispatched' \in {dispatched, TRUE, FALSE}
        PROVE  Goal
    BY <1>1, <1>2
  <1>3. ASSUME NEW l \in Launches,
               \/ refuseLaunch(l) \/ deleteMessages(l) \/ insertMessage(l) \/ runCampaign(l)
               \/ completeSkipped(l) \/ enqueueLaunched(l) \/ failLaunch(l)
        PROVE  Goal
    BY <1>2, <1>3 DEF refuseLaunch, deleteMessages, insertMessage, runCampaign, completeSkipped,
                      enqueueLaunched, failLaunch, launchHistory
  <1>4. ASSUME NEW l \in Launches, getCampaign(l)
        PROVE  Goal
    BY <1>1, <1>4 DEF getCampaign
  <1>5. ASSUME NEW u \in Edits, updateCampaign(u)
        PROVE  Goal
    BY <1>1, <1>5 DEF updateCampaign
  <1>6. ASSUME NEW u \in Edits, readForUpdate(u)
        PROVE  Goal
    BY <1>2, <1>6 DEF readForUpdate, launchHistory
  <1>7. ASSUME NEW m \in MessageIds, claimMessage(m) \/ deliverCampaignMessage(m)
        PROVE  Goal
    BY <1>2, <1>7 DEF claimMessage, deliverCampaignMessage, launchHistory
  <1>8. cancelLaunched => Goal
    BY <1>1 DEF cancelLaunched
  <1>9. endDispatch \/ completeIfIdle => Goal
    BY <1>2 DEF endDispatch, completeIfIdle, launchHistory
  <1> HIDE DEF Goal
  <1>10. Goal
    BY <1>3, <1>4, <1>5, <1>6, <1>7, <1>8, <1>9 DEF LaunchNext
  <1> QED
    BY <1>10 DEF Goal

\* Every variable keeps its type, initially ...
LEMMA LaunchInitTypes == LaunchInit => LaunchTypeOK
  <1> SUFFICES ASSUME LaunchInit
               PROVE  LaunchTypeOK
    OBVIOUS
  <1>1. draft \in DraftRecs
    BY DEF LaunchInit, DraftRecs
  <1>2. launch \in [Launches -> CallRecs]
    BY DEF LaunchInit, NewCall, CallRecs, CallPcs
  <1> QED
    BY <1>1, <1>2 DEF LaunchInit, LaunchTypeOK, DraftRecs, CallRecs, CallPcs

\* ... and in every step.
LEMMA LaunchNextTypes == LaunchTypeOK /\ [LaunchNext]_launchVars => LaunchTypeOK'
  <1>1. CASE UNCHANGED launchVars
    BY <1>1 DEF launchVars, launchHistory, LaunchTypeOK
  <1>2. ASSUME LaunchTypeOK, LaunchNext
        PROVE  LaunchTypeOK'
    BY <1>2, DraftType, CallsType, RowsType, RacedStays, Zenon
       DEF LaunchTypeOK, DraftRecs, CallRecs, CallPcs, RowStates
  <1> QED
    BY <1>1, <1>2

\* Every variable of CampaignLaunch keeps its type.
THEOREM LaunchTypes == LaunchSpec => []LaunchTypeOK
  BY LaunchInitTypes, LaunchNextTypes, PTL DEF LaunchSpec

(***************************************************************************)
(* Calls that do not overtake one another                                  *)
(***************************************************************************)
Calm == /\ OneLaunchAtATime /\ RowsOfOneLaunch /\ LaunchesTheDraft
        /\ NothingSentBefore /\ ReceivedWasSent /\ LaunchedRows
        /\ \A c \in Contacts : received[c] <= 1

\* The rows of one call are as many as its recipients.
LEMMA RowCount ==
  ASSUME NEW l, NEW S \in SUBSET Contacts
  PROVE  Cardinality({l} \X S) = Cardinality(S)
  <1>1. IsFiniteSet({l}) /\ Cardinality({l}) = 1
    BY FS_Singleton
  <1>2. IsFiniteSet(S) /\ Cardinality(S) \in Nat
    BY Finite
  <1>3. Cardinality({l} \X S) = Cardinality({l}) * Cardinality(S)
    BY <1>1, <1>2, FS_Product
  <1> QED
    BY <1>1, <1>2, <1>3

\* A call that ends, or only starts, touches neither the draft nor the rows.
LEMMA CallStep ==
  ASSUME LaunchTypeOK, Calm, ~raced', NEW l \in Launches,
         \/ getCampaign(l) \/ refuseLaunch(l) \/ enqueueLaunched(l) \/ failLaunch(l)
  PROVE  Calm'
  <1>1. /\ UNCHANGED <<draft, message, received>> /\ launch \in [Launches -> CallRecs]
        /\ \A k \in Launches \ {l} : launch'[k] = launch[k]
    BY DEF getCampaign, refuseLaunch, enqueueLaunched, failLaunch, launchHistory, LaunchTypeOK,
           CallRecs, CallPcs
  <1>2. \/ launch'[l].pc = "ended"
        \/ /\ launch'[l].pc = "delete" /\ launch'[l].audience = draft.audience
           /\ Unlaunched /\ \A k \in Launches : ~UnderWay(k)
    <2>1. CASE getCampaign(l)
      <3>1. Unlaunched /\ \A k \in Launches : ~UnderWay(k)
        BY <2>1 DEF getCampaign, Launchable, Unlaunched
      <3>2. launch'[l] = [NewCall EXCEPT !.pc = "delete", !.audience = draft.audience]
        BY <1>1, <2>1 DEF getCampaign
      <3> QED
        BY <3>1, <3>2 DEF NewCall
    <2>2. CASE refuseLaunch(l) \/ enqueueLaunched(l) \/ failLaunch(l)
      BY <1>1, <2>2 DEF refuseLaunch, enqueueLaunched, failLaunch, Ended
    <2> QED
      BY <2>1, <2>2
  <1>3. OneLaunchAtATime'
    BY <1>1, <1>2 DEF Calm, OneLaunchAtATime, UnderWay
  <1>4. LaunchesTheDraft'
    BY <1>1, <1>2 DEF Calm, LaunchesTheDraft, UnderWay, Unlaunched, LaunchAt, LaunchRows, InStatus
  <1>5. /\ RowsOfOneLaunch' /\ NothingSentBefore' /\ ReceivedWasSent' /\ LaunchedRows'
        /\ \A c \in Contacts : received'[c] <= 1
    BY <1>1 DEF Calm, RowsOfOneLaunch, NothingSentBefore, ReceivedWasSent, LaunchedRows, Unlaunched,
                LaunchRows, InStatus
  <1> QED
    BY <1>3, <1>4, <1>5 DEF Calm

\* The rows of earlier calls go before those of this one come.
LEMMA DeleteStep ==
  ASSUME LaunchTypeOK, Calm, NEW l \in Launches, deleteMessages(l)
  PROVE  Calm'
  <1>1. /\ UNCHANGED <<draft, received>> /\ launch \in [Launches -> CallRecs]
        /\ message' = [m \in MessageIds |-> "none"]
        /\ launch[l].pc = "delete"
    BY DEF deleteMessages, launchHistory, LaunchTypeOK, CallRecs, CallPcs, NoRows, LaunchAt
  <1>2. /\ \A k \in Launches \ {l} : launch'[k] = launch[k]
        /\ launch'[l].pc = "insert" /\ launch'[l].todo = launch[l].audience
        /\ launch'[l].audience = launch[l].audience
    BY <1>1 DEF deleteMessages, CallRecs
  <1>3. LaunchRows' = {}
    BY <1>1 DEF LaunchRows, InStatus
  <1>4. UnderWay(l) /\ Unlaunched /\ launch[l].audience = draft.audience
    BY <1>1 DEF Calm, LaunchesTheDraft, UnderWay
  <1>5. OneLaunchAtATime' /\ \A k \in Launches : UnderWay(k)' => k = l
    BY <1>2, <1>4 DEF Calm, OneLaunchAtATime, UnderWay
  <1>6. LaunchesTheDraft'
    <2> SUFFICES ASSUME NEW k \in Launches, UnderWay(k)'
                 PROVE  /\ launch'[k].audience = draft'.audience
                        /\ launch'[k].pc = "insert" /\ Unlaunched'
                        /\ launch'[k].todo \subseteq launch'[k].audience
                        /\ LaunchRows' = {k} \X (launch'[k].audience \ launch'[k].todo)
      BY DEF LaunchesTheDraft, UnderWay, LaunchAt
    <2>1. k = l
      BY <1>5
    <2>2. {k} \X (launch'[k].audience \ launch'[k].todo) = {}
      BY <1>2, <2>1
    <2> QED
      BY <1>1, <1>2, <1>3, <1>4, <2>1, <2>2 DEF Unlaunched
  <1>7. NothingSentBefore' /\ ReceivedWasSent' /\ \A c \in Contacts : received'[c] <= 1
    BY <1>1, <1>4 DEF Calm, NothingSentBefore, ReceivedWasSent, Unlaunched
  <1>8. RowsOfOneLaunch' /\ LaunchedRows'
    BY <1>1, <1>3, <1>4 DEF RowsOfOneLaunch, LaunchedRows, Unlaunched, NotLaunched
  <1> QED
    BY <1>5, <1>6, <1>7, <1>8 DEF Calm

\* A recipient gets one row.
LEMMA InsertStep ==
  ASSUME LaunchTypeOK, Calm, NEW l \in Launches, insertMessage(l)
  PROVE  Calm'
  <1>1. /\ UNCHANGED <<draft, received>> /\ launch \in [Launches -> CallRecs]
        /\ message \in [MessageIds -> RowStates] /\ launch[l].pc = "insert"
    BY DEF insertMessage, launchHistory, LaunchTypeOK, CallRecs, CallPcs, RowStates, LaunchAt
  <1>2. PICK c \in launch[l].todo, status \in {"queued", "skipped"} :
          /\ message' = [message EXCEPT ![<<l, c>>] = status]
          /\ launch' = [launch EXCEPT ![l].todo = @ \ {c},
                                      ![l].pc = IF launch[l].todo = {c} THEN "run" ELSE "insert"]
    BY DEF insertMessage
  <1>3. UnderWay(l) /\ Unlaunched /\ launch[l].audience = draft.audience
    BY <1>1 DEF Calm, LaunchesTheDraft, UnderWay
  <1>4. /\ \A k \in Launches \ {l} : launch'[k] = launch[k]
        /\ launch'[l].todo = launch[l].todo \ {c} /\ launch'[l].audience = launch[l].audience
        /\ launch'[l].pc = IF launch[l].todo = {c} THEN "run" ELSE "insert"
    BY <1>1, <1>2 DEF CallRecs
  <1>5. /\ <<l, c>> \in MessageIds /\ message'[<<l, c>>] = status
        /\ \A m \in MessageIds \ {<<l, c>>} : message'[m] = message[m]
    BY <1>1, <1>2 DEF MessageIds, CallRecs
  <1>6. LaunchRows = {l} \X (launch[l].audience \ launch[l].todo)
    BY <1>1 DEF Calm, LaunchesTheDraft, LaunchAt
  <1>7. LaunchRows' = LaunchRows \cup {<<l, c>>}
    BY <1>5 DEF LaunchRows, InStatus
  <1>8. OneLaunchAtATime' /\ \A k \in Launches : UnderWay(k)' => k = l
    BY <1>3, <1>4 DEF Calm, OneLaunchAtATime, UnderWay
  <1>9. /\ c \in launch[l].audience /\ c \in launch[l].todo
        /\ launch[l].todo \subseteq launch[l].audience
    BY <1>1 DEF Calm, LaunchesTheDraft, LaunchAt
  <1>10. launch[l].audience \ (launch[l].todo \ {c}) = (launch[l].audience \ launch[l].todo) \cup {c}
    BY <1>9
  <1>11. LaunchRows' = {l} \X (launch'[l].audience \ launch'[l].todo)
    BY <1>4, <1>6, <1>7, <1>10
  <1>12. launch'[l].pc = "run" => launch'[l].todo = {}
    BY <1>4
  <1>13. LaunchesTheDraft'
    <2> SUFFICES ASSUME NEW k \in Launches, UnderWay(k)'
                 PROVE  /\ launch'[k].audience = draft'.audience
                        /\ launch'[k].pc \in {"insert", "run"} /\ Unlaunched'
                        /\ launch'[k].todo \subseteq launch'[k].audience
                        /\ LaunchRows' = {k} \X (launch'[k].audience \ launch'[k].todo)
                        /\ launch'[k].pc = "run" => LaunchRows' = {k} \X launch'[k].audience
      BY DEF LaunchesTheDraft, UnderWay, LaunchAt
    <2>1. k = l
      BY <1>8
    <2>2. launch'[l].pc = "run" => launch'[l].audience \ launch'[l].todo = launch'[l].audience
      BY <1>12
    <2>3. launch'[l].audience = draft'.audience /\ Unlaunched'
      BY <1>1, <1>3, <1>4 DEF Unlaunched
    <2>4. launch'[l].pc \in {"insert", "run"} /\ launch'[l].todo \subseteq launch'[l].audience
      BY <1>4, <1>9
    <2> QED
      BY <1>11, <2>1, <2>2, <2>3, <2>4
  <1>14. NothingSentBefore' /\ ReceivedWasSent' /\ \A d \in Contacts : received'[d] <= 1
    BY <1>1, <1>3, <1>5 DEF Calm, NothingSentBefore, ReceivedWasSent, Unlaunched
  <1>15. RowsOfOneLaunch' /\ LaunchedRows'
    BY <1>1, <1>3, <1>11 DEF RowsOfOneLaunch, LaunchedRows, Unlaunched, NotLaunched
  <1> QED
    BY <1>8, <1>13, <1>14, <1>15 DEF Calm

\* The counts of a campaign that starts are those of its rows.
LEMMA RunStep ==
  ASSUME LaunchTypeOK, Calm, NEW l \in Launches, runCampaign(l)
  PROVE  Calm'
  <1>1. /\ UNCHANGED <<message, received>> /\ launch \in [Launches -> CallRecs]
        /\ draft \in DraftRecs /\ launch[l].pc = "run"
    BY DEF runCampaign, launchHistory, LaunchTypeOK, CallRecs, CallPcs, DraftRecs, LaunchAt
  <1>2. UnderWay(l) /\ Unlaunched /\ launch[l].audience = draft.audience
    BY <1>1 DEF Calm, LaunchesTheDraft, UnderWay
  <1>3. LaunchRows = {l} \X launch[l].audience
    BY <1>1 DEF Calm, LaunchesTheDraft, LaunchAt
  <1>4. /\ draft'.status = "running" /\ draft'.total = Cardinality(draft.audience)
        /\ draft'.skipped = Cardinality(Own(l, "skipped")) /\ draft'.audience = draft.audience
    BY <1>1, <1>2 DEF runCampaign, TotalCount, DraftRecs
  <1>5. /\ \A k \in Launches \ {l} : launch'[k] = launch[k]
        /\ launch'[l].pc \in {"complete", "enqueue"} /\ launch'[l].audience = launch[l].audience
    BY <1>1 DEF runCampaign, LaunchTo, CallRecs
  <1>6. OneLaunchAtATime' /\ \A k \in Launches : UnderWay(k)' => k = l
    BY <1>2, <1>5 DEF Calm, OneLaunchAtATime, UnderWay
  <1>7. LaunchesTheDraft'
    BY <1>2, <1>4, <1>5, <1>6 DEF LaunchesTheDraft, Unlaunched, NotLaunched, LaunchAt, UnderWay
  <1>8. InStatus("skipped") = {l} \X Own(l, "skipped")
    <2>1. \A m \in MessageIds : message[m] = "skipped" => m \in {l} \X launch[l].audience
      BY <1>3 DEF LaunchRows, InStatus
    <2>2. \A c \in launch[l].audience : <<l, c>> \in MessageIds
      BY <1>1 DEF CallRecs, MessageIds
    <2> QED
      BY <2>1, <2>2 DEF InStatus, Own
  <1>9. LaunchedRows'
    <2>1. Own(l, "skipped") \in SUBSET Contacts
      BY <1>1 DEF Own, CallRecs
    <2>2. Cardinality(InStatus("skipped")) = Cardinality(Own(l, "skipped"))
      BY <1>8, <2>1, RowCount
    <2>3. LaunchRows' = {l} \X draft'.audience /\ InStatus("skipped")' = InStatus("skipped")
      BY <1>1, <1>2, <1>3, <1>4 DEF LaunchRows, InStatus
    <2> QED
      BY <1>4, <2>2, <2>3 DEF LaunchedRows
  <1>10. RowsOfOneLaunch' /\ NothingSentBefore' /\ ReceivedWasSent'
         /\ \A c \in Contacts : received'[c] <= 1
    BY <1>1, <1>4 DEF Calm, RowsOfOneLaunch, NothingSentBefore, ReceivedWasSent, Unlaunched,
                      NotLaunched, LaunchRows, InStatus
  <1> QED
    BY <1>6, <1>7, <1>9, <1>10 DEF Calm

\* Completing the campaign changes the status of one that runs.
LEMMA CompleteStep ==
  ASSUME LaunchTypeOK, Calm, CompleteDraft, UNCHANGED <<message, received>>,
         \/ UNCHANGED launch
         \/ \E l \in Launches : LaunchAt(l, "complete") /\ LaunchTo(l, "enqueue")
  PROVE  Calm'
  <1>1. /\ draft'.audience = draft.audience /\ draft'.total = draft.total
        /\ draft'.skipped = draft.skipped
        /\ \/ draft'.status = draft.status
           \/ draft.status = "running" /\ draft'.status = "completed"
    BY DEF CompleteDraft, Completed, LaunchTypeOK
  <1>2. Unlaunched' = Unlaunched
    BY <1>1 DEF Unlaunched, NotLaunched
  <1>3. \A k \in Launches : \/ launch'[k] = launch[k]
                           \/ /\ launch[k].pc = "complete" /\ launch'[k].pc = "enqueue"
                              /\ launch'[k].audience = launch[k].audience
    BY DEF LaunchAt, LaunchTo, LaunchTypeOK
  <1>4. OneLaunchAtATime'
    BY <1>3 DEF Calm, OneLaunchAtATime, UnderWay
  <1>5. LaunchesTheDraft'
    <2> SUFFICES ASSUME NEW k \in Launches
                 PROVE  /\ UnderWay(k)' => launch'[k].audience = draft'.audience
                        /\ launch'[k].pc \in {"delete", "insert", "run"} => Unlaunched'
                        /\ launch'[k].pc \in {"complete", "enqueue"} => ~Unlaunched'
                        /\ launch'[k].pc = "insert" =>
                             /\ launch'[k].todo \subseteq launch'[k].audience
                             /\ LaunchRows' = {k} \X (launch'[k].audience \ launch'[k].todo)
                        /\ launch'[k].pc = "run" => LaunchRows' = {k} \X launch'[k].audience
      BY DEF LaunchesTheDraft, LaunchAt
    <2>1. LaunchRows' = LaunchRows
      BY DEF LaunchRows, InStatus
    <2> QED
      BY <1>1, <1>2, <1>3, <2>1 DEF Calm, LaunchesTheDraft, LaunchAt, UnderWay
  <1>6. LaunchedRows'
    <2>1. LaunchRows' = LaunchRows /\ InStatus("skipped")' = InStatus("skipped")
      BY DEF LaunchRows, InStatus
    <2> QED
      BY <1>1, <2>1 DEF Calm, LaunchedRows
  <1>7. RowsOfOneLaunch' /\ NothingSentBefore' /\ ReceivedWasSent'
        /\ \A c \in Contacts : received'[c] <= 1
    BY <1>2 DEF Calm, RowsOfOneLaunch, NothingSentBefore, ReceivedWasSent, LaunchRows, InStatus
  <1> QED
    BY <1>4, <1>5, <1>6, <1>7 DEF Calm

\* A user changes or cancels the draft while no call is under way.
LEMMA UserStep ==
  ASSUME LaunchTypeOK, Calm, ~raced', cancelLaunched \/ \E u \in Edits : updateCampaign(u)
  PROVE  Calm'
  <1>1. UNCHANGED <<message, launch, received>> /\ \A l \in Launches : ~UnderWay(l)
    <2>1. CASE cancelLaunched
      BY <2>1 DEF cancelLaunched
    <2>2. ASSUME NEW u \in Edits, updateCampaign(u)
          PROVE  UNCHANGED <<message, launch, received>> /\ \A l \in Launches : ~UnderWay(l)
      BY <2>2 DEF updateCampaign
    <2> QED
      BY <2>1, <2>2
  <1>2. \/ draft'.status = "cancelled"
        \/ Unlaunched /\ draft'.status \in NotLaunched
    <2>1. CASE cancelLaunched
      BY <2>1 DEF cancelLaunched, LaunchTypeOK
    <2>2. ASSUME NEW u \in Edits, updateCampaign(u)
          PROVE  Unlaunched /\ draft'.status \in NotLaunched
      BY <2>2 DEF updateCampaign, Unlaunched, NotLaunched, LaunchTypeOK
    <2> QED
      BY <2>1, <2>2
  <1>3. OneLaunchAtATime' /\ LaunchesTheDraft'
    BY <1>1 DEF OneLaunchAtATime, LaunchesTheDraft, UnderWay, LaunchAt
  <1>4. RowsOfOneLaunch' /\ NothingSentBefore' /\ ReceivedWasSent' /\ LaunchedRows'
        /\ \A c \in Contacts : received'[c] <= 1
    BY <1>1, <1>2 DEF Calm, RowsOfOneLaunch, NothingSentBefore, ReceivedWasSent, LaunchedRows,
       Unlaunched, NotLaunched, LaunchRows, InStatus
  <1> QED
    BY <1>3, <1>4 DEF Calm

\* A row is claimed and delivered once, and its recipient has no other.
LEMMA DeliverStep ==
  ASSUME LaunchTypeOK, Calm, NEW m \in MessageIds, claimMessage(m) \/ deliverCampaignMessage(m)
  PROVE  Calm'
  <1>1. /\ UNCHANGED <<draft, launch>> /\ message \in [MessageIds -> RowStates]
        /\ received \in [Contacts -> Nat] /\ m[1] \in Launches /\ m[2] \in Contacts
        /\ m = <<m[1], m[2]>>
    BY DEF claimMessage, deliverCampaignMessage, LaunchTypeOK, RowStates, MessageIds
  <1>2. CASE UNCHANGED <<message, received>>
    BY <1>1, <1>2 DEF Calm, OneLaunchAtATime, RowsOfOneLaunch, LaunchesTheDraft, NothingSentBefore,
       ReceivedWasSent, LaunchedRows, UnderWay, Unlaunched, LaunchAt, LaunchRows, InStatus
  <1>3. CASE /\ message[m] \in {"queued", "sending"}
             /\ message' = [message EXCEPT ![m] = IF message[m] = "queued" THEN "sending" ELSE "sent"]
             /\ received' = IF message[m] = "queued" THEN received
                            ELSE [received EXCEPT ![m[2]] = @ + 1]
             /\ ~Unlaunched
    <2>1. LaunchRows' = LaunchRows /\ InStatus("skipped")' = InStatus("skipped")
      BY <1>1, <1>3 DEF LaunchRows, InStatus
    <2>2. \A n \in MessageIds : message[n] = "sent" => message'[n] = "sent"
      BY <1>1, <1>3
    <2>3. CASE message[m] = "queued"
      <3>1. ReceivedWasSent' /\ \A c \in Contacts : received'[c] <= 1
        BY <1>3, <2>2, <2>3 DEF Calm, ReceivedWasSent, MessageIds
      <3> QED
        BY <1>1, <1>3, <2>1, <3>1 DEF Calm, OneLaunchAtATime, RowsOfOneLaunch, LaunchesTheDraft,
           NothingSentBefore, LaunchedRows, UnderWay, Unlaunched, LaunchAt
    <2>4. CASE message[m] = "sending"
      <3>1. received[m[2]] = 0
        <4> SUFFICES ASSUME received[m[2]] > 0
                     PROVE  FALSE
          BY <1>1
        <4>0. PICK l \in Launches : message[<<l, m[2]>>] = "sent"
          BY <1>1 DEF Calm, ReceivedWasSent
        <4>1. <<l, m[2]>> \in LaunchRows /\ m \in LaunchRows
          BY <1>1, <2>4, <4>0 DEF LaunchRows, InStatus, MessageIds
        <4>2. l = m[1]
          BY <4>1 DEF Calm, RowsOfOneLaunch
        <4> QED
          BY <1>1, <2>4, <4>0, <4>2
      <3>2. /\ received'[m[2]] = 1 /\ message'[m] = "sent"
            /\ \A c \in Contacts \ {m[2]} : received'[c] = received[c]
        BY <1>1, <1>3, <2>4, <3>1
      <3>3. ReceivedWasSent' /\ \A c \in Contacts : received'[c] <= 1
        BY <1>1, <2>2, <3>2 DEF Calm, ReceivedWasSent, MessageIds
      <3> QED
        BY <1>1, <1>3, <2>1, <3>3 DEF Calm, OneLaunchAtATime, RowsOfOneLaunch, LaunchesTheDraft,
           NothingSentBefore, LaunchedRows, UnderWay, Unlaunched, LaunchAt
    <2> QED
      BY <1>3, <2>3, <2>4
  <1>4. message[m] = "sending" => ~Unlaunched
    BY DEF Calm, NothingSentBefore
  <1> QED
    BY <1>1, <1>2, <1>3, <1>4
       DEF claimMessage, deliverCampaignMessage, Unlaunched, NotLaunched, launchHistory

\* Calls that have not overtaken one another keep what they rely on.
LEMMA CallsApartNext ==
  ASSUME LaunchTypeOK, CallsApart, LaunchNext
  PROVE  CallsApart'
  <1> SUFFICES ASSUME ~raced'
               PROVE  Calm'
    BY DEF CallsApart, Calm
  <1>1. Calm
    BY RacedStays DEF CallsApart, Calm, LaunchTypeOK
  <1>2. ASSUME NEW l \in Launches, completeSkipped(l)
        PROVE  Calm'
    BY <1>1, <1>2, CompleteStep DEF completeSkipped, launchHistory
  <1>3. endDispatch \/ completeIfIdle => Calm'
    BY <1>1, CompleteStep DEF endDispatch, completeIfIdle, launchHistory
  <1>4. ASSUME NEW u \in Edits, readForUpdate(u)
        PROVE  Calm'
    <2>1. UNCHANGED <<draft, message, launch, received>>
      BY <1>4 DEF readForUpdate, launchHistory
    <2> QED
      BY <1>1, <2>1 DEF Calm, OneLaunchAtATime, RowsOfOneLaunch, LaunchesTheDraft, NothingSentBefore,
         ReceivedWasSent, LaunchedRows, UnderWay, Unlaunched, LaunchAt, LaunchRows, InStatus
  <1> QED
    BY <1>1, <1>2, <1>3, <1>4, CallStep, DeleteStep, InsertStep, RunStep, UserStep, DeliverStep
       DEF LaunchNext

\* What a launch relies on always holds.
THEOREM LaunchInvariantHolds == LaunchSpec => []LaunchInvariant
  <1>1. LaunchInit => LaunchInvariant
    <2> SUFFICES ASSUME LaunchInit
                 PROVE  CallsApart
      BY LaunchInitTypes DEF LaunchInvariant
    <2>1. /\ Unlaunched /\ \A l \in Launches : launch[l].pc = "new"
          /\ \A m \in MessageIds : message[m] = "none"
          /\ \A c \in Contacts : received[c] = 0
      BY DEF LaunchInit, Unlaunched, NewCall
    <2> QED
      BY <2>1 DEF CallsApart, OneLaunchAtATime, RowsOfOneLaunch, LaunchesTheDraft, NothingSentBefore,
         ReceivedWasSent, LaunchedRows, UnderWay, Unlaunched, NotLaunched, LaunchAt, LaunchRows,
         InStatus
  <1>2. LaunchInvariant /\ [LaunchNext]_launchVars => LaunchInvariant'
    <2>1. ASSUME CallsApart, UNCHANGED launchVars
          PROVE  CallsApart'
      BY <2>1 DEF launchVars, launchHistory, CallsApart, OneLaunchAtATime, RowsOfOneLaunch,
         LaunchesTheDraft, NothingSentBefore, ReceivedWasSent, LaunchedRows, UnderWay, Unlaunched,
         LaunchAt, LaunchRows, InStatus
    <2> QED
      BY <2>1, LaunchNextTypes, CallsApartNext DEF LaunchInvariant
  <1> QED
    BY <1>1, <1>2, PTL DEF LaunchSpec

\* As long as no call overtakes another, a contact gets the campaign at most
\* once, however often a launch failed half way before one succeeded.
THEOREM RecipientOnce == LaunchSpec => []RecipientGetsOne
  <1>1. LaunchInvariant => RecipientGetsOne
    BY DEF LaunchInvariant, CallsApart, RecipientGetsOne
  <1> QED
    BY <1>1, LaunchInvariantHolds, PTL

\* ... and the campaign that runs addresses the audience of the draft, no
\* contact twice, and its counts are those of its messages.
THEOREM Drafted == LaunchSpec => []LaunchedAsDrafted
  <1>1. LaunchInvariant => LaunchedAsDrafted
    <2> SUFFICES ASSUME LaunchInvariant, ~raced, draft.status \in {"running", "completed"}
                 PROVE  /\ {m[2] : m \in LaunchRows} = draft.audience
                        /\ draft.total = Cardinality(LaunchRows)
                        /\ draft.skipped = Cardinality(InStatus("skipped"))
      BY DEF LaunchedAsDrafted
    <2>1. LaunchedRows /\ draft.audience \in SUBSET Contacts
      BY Finite DEF LaunchInvariant, CallsApart, LaunchTypeOK
    <2>2. PICK l \in Launches : LaunchRows = {l} \X draft.audience
      BY <2>1 DEF LaunchedRows
    <2>3. {m[2] : m \in LaunchRows} = draft.audience
      <3>1. \A m \in LaunchRows : m[2] \in draft.audience
        BY <2>2
      <3>2. ASSUME NEW c \in draft.audience
            PROVE  \E m \in LaunchRows : m[2] = c
        <4>1. <<l, c>> \in LaunchRows /\ <<l, c>>[2] = c
          BY <2>2
        <4> QED
          BY <4>1
      <3> QED
        BY <3>1, <3>2
    <2>4. Cardinality(LaunchRows) = Cardinality(draft.audience)
      BY <2>1, <2>2, RowCount
    <2> QED
      BY <2>1, <2>3, <2>4 DEF LaunchedRows
  <1> QED
    BY <1>1, LaunchInvariantHolds, PTL
=============================================================================
