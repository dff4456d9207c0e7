------------------------- MODULE RecordUploadProofs -------------------------
(***************************************************************************)
(* Proofs about the link timing (KeepAlive), the ring of records           *)
(* (AlarmRing) and their composition in EtherTask's loop (RecordUpload),   *)
(* for every ring size and every set of periods.  The loop lets each of    *)
(* the two take only steps of its own specification, so what is proved of  *)
(* each holds of the composition.                                          *)
(***************************************************************************)
EXTENDS RecordUpload, TLAPS

(***************************************************************************)
(* The link timing.                                                        *)
(***************************************************************************)
LinkInv == TypeOK /\ CountsTheGap /\ NeverPutOff

\* SvrCommTask starts with the counters cleared.
LEMMA LinkInitInv == Init => LinkInv
BY KeepAliveAssumption DEF Init, LinkInv, TypeOK, CountsTheGap, NeverPutOff

\* Every step of EtherTask, of the network and of the parameters keeps the
\* counters in step with the calls.
LEMMA LinkNextInv == LinkInv /\ [Next]_vars => LinkInv'
<1> SUFFICES ASSUME LinkInv, [Next]_vars PROVE LinkInv'
  OBVIOUS
<1> USE KeepAliveAssumption DEF LinkInv, TypeOK
<1>1. CASE ClearKeepAlive
  BY <1>1 DEF ClearKeepAlive, RestartCount, paraVars, CountsTheGap, NeverPutOff
<1>2. CASE \E on \in {0, 1} : KeepAliveEnd(on)
  BY <1>2 DEF KeepAliveEnd, paraVars, CountsTheGap, NeverPutOff
<1>3. CASE KeepAliveProcDue
  BY <1>3 DEF KeepAliveProcDue, RestartCount, Dialling, paraVars, CountsTheGap, NeverPutOff
<1>4. CASE KeepAliveProcNot
  <2>1. TypeOK'
    BY <1>4 DEF KeepAliveProcNot, CountPoll, paraVars
  <2>2. CountsTheGap'
    BY <1>4 DEF KeepAliveProcNot, CountPoll, Dialling, CountsTheGap
  <2>3. NeverPutOff'
    BY <1>4 DEF KeepAliveProcNot, CountPoll, Due, Dialling, paraVars, CountsTheGap, NeverPutOff
  <2> QED
    BY <2>1, <2>2, <2>3
<1>5. CASE RefreshKeepAlive
  BY <1>5 DEF RefreshKeepAlive, RestartCount, paraVars, CountsTheGap, NeverPutOff
<1>6. CASE LineBreaks
  BY <1>6 DEF LineBreaks, paraVars, statVars, CountsTheGap, NeverPutOff
<1>7. CASE SetParam
  BY <1>7 DEF SetParam, statVars, CountsTheGap, NeverPutOff
<1>8. CASE UNCHANGED vars
  BY <1>8 DEF vars, paraVars, statVars, CountsTheGap, NeverPutOff
<1>9. CASE PowerCycle
  BY <1>9 DEF PowerCycle, paraVars, CountsTheGap, NeverPutOff
<1> QED
  BY <1>1, <1>2, <1>3, <1>4, <1>5, <1>6, <1>7, <1>8, <1>9 DEF Next

\* The inductive invariant holds in every reachable state.
LEMMA LinkInvHolds == Spec => []LinkInv
BY LinkInitInv, LinkNextInv, PTL DEF Spec

\* The counters of keepalive_stat stay natural numbers and the period is one
\* the parameters allow.
THEOREM KeepAliveTypeCorrect == Spec => []TypeOK
<1>1. LinkInv => TypeOK
  BY DEF LinkInv
<1> QED
  BY LinkInvHolds, <1>1, PTL

\* KeepAliveProc never puts EtherKeepAlive off beyond the period in force or a
\* dialling time.
THEOREM KeepAliveDue == Spec => []NeverPutOff
<1>1. LinkInv => NeverPutOff
  BY DEF LinkInv
<1> QED
  BY LinkInvHolds, <1>1, PTL

(***************************************************************************)
(* The ring of records.                                                    *)
(***************************************************************************)
\* What RetainsNewest and PendingExact say, of the cursors in a record s: the
\* saved copy in runstate.db must satisfy it too, since Restart loads it.
Good(s) ==
    /\ Distance(s.head, s.cur) = Kept(s.made)
    /\ ~s.lapped =>
        /\ s.made - s.sent \in 0 .. MaxAlarm - 1
        /\ Distance(Wrap(s.snd), s.cur) = s.made - s.sent

RingInv ==
    /\ RingTypeOK
    /\ Good(Snapshot)
    /\ db # NoFile => Good(db)

LEMMA SnapshotFields ==
    ASSUME RingTypeOK
    PROVE  /\ head \in 0 .. MaxAlarm - 1 /\ cur \in 0 .. MaxAlarm - 1
           /\ snd \in 0 .. MaxAlarm /\ playstate \in 0 .. 1
           /\ made \in Nat /\ sent \in Nat /\ lapped \in BOOLEAN
BY DEF RingTypeOK, Snapshot, StateType

\* Good, spelled out on the variables.
LEMMA GoodSnapshot ==
    Good(Snapshot) <=> RetainsNewest /\ PendingExact
BY DEF Good, Snapshot, RetainsNewest, PendingExact

\* Advancing cur keeps the newest records and counts the pending ones,
\* unless it lands on the sender.
LEMMA AdvanceGood ==
    ASSUME RingTypeOK, RetainsNewest, PendingExact
    PROVE  /\ NextCur \in 0 .. MaxAlarm - 1 /\ NextHead \in 0 .. MaxAlarm - 1
           /\ Distance(NextHead, NextCur) = Kept(made + 1)
           /\ ~lapped /\ NextCur # Wrap(snd) =>
                /\ made + 1 - sent \in 0 .. MaxAlarm - 1
                /\ Distance(Wrap(snd), NextCur) = made + 1 - sent
<1>1. /\ head \in Int /\ cur \in Int /\ snd \in Int /\ made \in Int /\ sent \in Int
      /\ MaxAlarm \in Int /\ MaxAlarm >= 2
      /\ 0 <= head /\ head < MaxAlarm /\ 0 <= cur /\ cur < MaxAlarm
      /\ 0 <= snd /\ snd <= MaxAlarm /\ 0 <= made /\ 0 <= sent
  BY SnapshotFields, AlarmRingAssumption
<1>2. NextCur = IF cur = MaxAlarm - 1 THEN 0 ELSE cur + 1
  BY <1>1 DEF NextCur, Wrap
<1>3. NextHead = IF NextCur = head THEN IF head = MaxAlarm - 1 THEN 0 ELSE head + 1 ELSE head
  BY <1>1 DEF NextHead, Wrap
<1>4. NextCur \in 0 .. MaxAlarm - 1 /\ NextHead \in 0 .. MaxAlarm - 1
  BY <1>1, <1>2, <1>3
<1>5. Distance(head, cur) = Kept(made)
  BY DEF RetainsNewest
<1>6. Distance(NextHead, NextCur) = Kept(made + 1)
  <2>1. CASE NextCur = head
    <3>1. Distance(head, cur) = MaxAlarm - 1
      BY <1>1, <1>2, <2>1 DEF Distance
    <3>2. made >= MaxAlarm - 1
      BY <1>1, <1>5, <3>1 DEF Kept
    <3>3. Distance(NextHead, NextCur) = MaxAlarm - 1
      BY <1>1, <1>2, <1>3, <2>1 DEF Distance
    <3>4. QED
      BY <1>1, <3>2, <3>3 DEF Kept
  <2>2. CASE NextCur # head
    <3>1. Distance(NextHead, NextCur) = Distance(head, cur) + 1
      BY <1>1, <1>2, <1>3, <2>2 DEF Distance
    <3>2. Distance(head, cur) < MaxAlarm - 1
      BY <1>1, <1>2, <2>2 DEF Distance
    <3>3. QED
      BY <1>1, <1>5, <3>1, <3>2 DEF Kept
  <2>3. QED
    BY <2>1, <2>2
<1>7. ASSUME ~lapped, NextCur # Wrap(snd)
      PROVE  /\ made + 1 - sent \in 0 .. MaxAlarm - 1
             /\ Distance(Wrap(snd), NextCur) = made + 1 - sent
  <2>1. Wrap(snd) \in Int /\ 0 <= Wrap(snd) /\ Wrap(snd) < MaxAlarm
    BY <1>1 DEF Wrap
  <2>2. made - sent \in 0 .. MaxAlarm - 1 /\ Distance(Wrap(snd), cur) = made - sent
    BY <1>7 DEF PendingExact
  <2>3. /\ Distance(Wrap(snd), NextCur) = Distance(Wrap(snd), cur) + 1
        /\ Distance(Wrap(snd), cur) < MaxAlarm - 1
    BY <1>1, <1>2, <1>7, <2>1 DEF Distance
  <2>4. QED
    BY <1>1, <2>2, <2>3
<1>8. QED
  BY <1>4, <1>6, <1>7

\* A step that advances keeps both parts; when it lands on the sender it
\* records the lap, which empties PendingExact.
LEMMA AdvanceStep ==
    ASSUME RingTypeOK, RetainsNewest, PendingExact,
           head' = NextHead, cur' = NextCur, made' = made + 1, snd' = snd, sent' = sent,
           lapped' = (lapped \/ NextCur = Wrap(snd))
    PROVE  RetainsNewest' /\ PendingExact'
<1>1. RetainsNewest'
  BY AdvanceGood DEF RetainsNewest, Distance, Kept
<1>2. CASE lapped \/ NextCur = Wrap(snd)
  <2>1. lapped'
    BY <1>2
  <2>2. QED
    BY <1>1, <2>1 DEF PendingExact
<1>3. CASE ~lapped /\ NextCur # Wrap(snd)
  <2>1. /\ made + 1 - sent \in 0 .. MaxAlarm - 1
        /\ Distance(Wrap(snd), NextCur) = made + 1 - sent
    BY <1>3, AdvanceGood
  <2>2. NextCur \in Int /\ snd \in Int /\ made \in Int /\ sent \in Int /\ MaxAlarm \in Int
    BY SnapshotFields, AdvanceGood, AlarmRingAssumption
  <2>3. PendingExact'
    BY <2>1, <2>2 DEF PendingExact, Distance, Wrap
  <2>4. QED
    BY <1>1, <2>3
<1>4. QED
  BY <1>2, <1>3

\* Without a lap the normalisation of ActiveSendAlarm is only the wrap.
LEMMA NormalisedWraps ==
    ASSUME RingTypeOK, RetainsNewest, PendingExact, cur # head
    PROVE  /\ Normalised \in 0 .. MaxAlarm - 1
           /\ ~lapped => Normalised = Wrap(snd)
<1>1. /\ head \in Int /\ cur \in Int /\ snd \in Int /\ made \in Int /\ sent \in Int
      /\ MaxAlarm \in Int /\ MaxAlarm >= 2
      /\ 0 <= head /\ head < MaxAlarm /\ 0 <= cur /\ cur < MaxAlarm
      /\ 0 <= snd /\ snd <= MaxAlarm /\ 0 <= made /\ 0 <= sent
  BY SnapshotFields, AlarmRingAssumption
<1>2. Normalised \in 0 .. MaxAlarm - 1
  BY <1>1 DEF Normalised, Wrap
<1>3. ASSUME ~lapped PROVE Normalised = Wrap(snd)
  <2>1. Distance(Wrap(snd), cur) = made - sent
    BY <1>3 DEF PendingExact
  <2>2. Distance(head, cur) = Kept(made)
    BY DEF RetainsNewest
  <2>3. QED
    BY <1>1, <2>1, <2>2 DEF Normalised, Wrap, Distance, Kept
<1>4. QED
  BY <1>2, <1>3

LEMMA RingInitInv == RingInit => RingInv
<1> SUFFICES ASSUME RingInit PROVE RingInv
  OBVIOUS
<1>1. Snapshot = Zero /\ db = NoFile
  BY DEF RingInit, Snapshot, Zero
<1>2. Zero \in StateType
  BY AlarmRingAssumption DEF Zero, StateType
<1>3. Good(Zero)
  BY AlarmRingAssumption DEF Zero, Good, Distance, Kept, Wrap
<1>4. Good(Snapshot)
  BY <1>1, <1>3
<1>5. QED
  BY <1>1, <1>2, <1>4 DEF RingInv, RingTypeOK

LEMMA RingNextInv == RingInv /\ [RingNext]_ringAll => RingInv'
<1> SUFFICES ASSUME RingInv, [RingNext]_ringAll PROVE RingInv'
  OBVIOUS
<1>1. RingTypeOK /\ RetainsNewest /\ PendingExact
  BY GoodSnapshot DEF RingInv
<1>2. /\ head \in 0 .. MaxAlarm - 1 /\ cur \in 0 .. MaxAlarm - 1
      /\ snd \in 0 .. MaxAlarm /\ playstate \in 0 .. 1
      /\ made \in Nat /\ sent \in Nat /\ lapped \in BOOLEAN
  BY <1>1, SnapshotFields
<1>3. ASSUME Snapshot' \in StateType, RetainsNewest', PendingExact', SaveRunState
      PROVE  RingInv'
  <2>1. Good(Snapshot)'
    BY <1>3 DEF Good, Snapshot, RetainsNewest, PendingExact
  <2>2. QED
    BY <1>3, <2>1 DEF RingInv, RingTypeOK, SaveRunState, Good, Snapshot
<1>4. ASSUME Snapshot' \in StateType, RetainsNewest', PendingExact', UNCHANGED db
      PROVE  RingInv'
  <2>1. Good(Snapshot)'
    BY <1>4 DEF Good, Snapshot, RetainsNewest, PendingExact
  <2>2. QED
    BY <1>4, <2>1 DEF RingInv, RingTypeOK, Good
<1>5. ASSUME NEW s \in StateType, Good(s), Load(s), db' = NoFile \/ UNCHANGED db \/ SaveRunState
      PROVE  RingInv'
  <2>1. Snapshot' = s
    BY <1>5 DEF Load, Snapshot, StateType
  <2>2. Good(Snapshot)'
    BY <1>5, <2>1 DEF Good
  <2>3. db' \in StateType \cup {NoFile} /\ (db' # NoFile => Good(db)')
    BY <1>5, <2>1, <2>2 DEF RingInv, RingTypeOK, SaveRunState, Good
  <2>4. QED
    BY <1>5, <2>1, <2>2, <2>3 DEF RingInv, RingTypeOK
<1>6. CASE MakeAlarmG
  <2>1. CASE playstate = 1
    <3>1. /\ head' = NextHead /\ cur' = NextCur /\ playstate' = 1
          /\ made' = made + 1 /\ snd' = snd /\ sent' = sent
          /\ lapped' = (lapped \/ NextCur = Wrap(snd)) /\ SaveRunState
      BY <1>1, <1>2, <1>6, <2>1, AdvanceGood, AlarmRingAssumption DEF MakeAlarmG
    <3>2. Snapshot' \in StateType
      BY <1>1, <1>2, <3>1, AdvanceGood DEF Snapshot, StateType
    <3>3. RetainsNewest' /\ PendingExact'
      BY <1>1, <3>1, AdvanceStep
    <3>4. QED
      BY <1>3, <3>1, <3>2, <3>3
  <2>2. CASE playstate # 1
    <3>1. /\ UNCHANGED <<head, cur, snd, made, sent>> /\ playstate' = 1
          /\ lapped' = lapped /\ SaveRunState
      BY <1>2, <1>6, <2>2, AlarmRingAssumption DEF MakeAlarmG
    <3>2. Snapshot' \in StateType
      BY <1>2, <3>1 DEF Snapshot, StateType
    <3>3. RetainsNewest' /\ PendingExact'
      BY <1>1, <3>1 DEF RetainsNewest, PendingExact, Distance, Kept, Wrap
    <3>4. QED
      BY <1>3, <3>1, <3>2, <3>3
  <2>3. QED
    BY <2>1, <2>2
<1>7. CASE SaveAlarm
  <2>1. /\ head' = NextHead /\ cur' = NextCur /\ playstate' = 0
        /\ made' = made + 1 /\ snd' = snd /\ sent' = sent
        /\ lapped' = (lapped \/ NextCur = Wrap(snd)) /\ SaveRunState
    BY <1>7 DEF SaveAlarm
  <2>2. Snapshot' \in StateType
    BY <1>1, <1>2, <2>1, AdvanceGood DEF Snapshot, StateType
  <2>3. RetainsNewest' /\ PendingExact'
    BY <1>1, <2>1, AdvanceStep
  <2>4. QED
    BY <1>3, <2>1, <2>2, <2>3
<1>8. CASE ActiveSendAlarm
  <2>1. /\ cur # head /\ Normalised # cur /\ snd' = Normalised + 1 /\ sent' = sent + 1
        /\ UNCHANGED <<head, cur, playstate, made, lapped>> /\ SaveRunState
    BY <1>8 DEF ActiveSendAlarm
  <2>2. Normalised \in 0 .. MaxAlarm - 1 /\ (~lapped => Normalised = Wrap(snd))
    BY <1>1, <2>1, NormalisedWraps
  <2>3. Snapshot' \in StateType
    BY <1>2, <2>1, <2>2, AlarmRingAssumption DEF Snapshot, StateType
  <2>4. RetainsNewest'
    BY <1>1, <2>1 DEF RetainsNewest, Distance, Kept
  <2>5. PendingExact'
    BY <1>1, <1>2, <2>1, <2>2, AlarmRingAssumption DEF PendingExact, Distance, Wrap
  <2>6. QED
    BY <1>3, <2>1, <2>3, <2>4, <2>5
<1>9. CASE ActiveSendAlarmNone
  <2>1. /\ cur # head /\ Normalised = cur /\ snd' = Normalised
        /\ UNCHANGED <<head, cur, playstate, db, made, sent, lapped>>
    BY <1>9 DEF ActiveSendAlarmNone, obsVars
  <2>2. Normalised \in 0 .. MaxAlarm - 1 /\ (~lapped => Normalised = Wrap(snd))
    BY <1>1, <2>1, NormalisedWraps
  <2>3. Snapshot' \in StateType
    BY <1>2, <2>1, <2>2, AlarmRingAssumption DEF Snapshot, StateType
  <2>4. RetainsNewest'
    BY <1>1, <2>1 DEF RetainsNewest, Distance, Kept
  <2>5. PendingExact'
    BY <1>1, <1>2, <2>1, <2>2, AlarmRingAssumption DEF PendingExact, Distance, Wrap
  <2>6. QED
    BY <1>4, <2>1, <2>3, <2>4, <2>5
<1>10. CASE ClearAlarm
  <2>1. Snapshot' \in StateType /\ UNCHANGED db
    <3>1. /\ head' \in 0 .. MaxAlarm - 1 /\ cur' \in 0 .. MaxAlarm - 1
          /\ snd' \in 0 .. MaxAlarm /\ made' \in Nat /\ sent' \in Nat
      BY <1>10, AlarmRingAssumption DEF ClearAlarm
    <3>2. playstate' \in 0 .. 1 /\ lapped' \in BOOLEAN /\ UNCHANGED db
      BY <1>2, <1>10 DEF ClearAlarm
    <3>3. QED
      BY <3>1, <3>2 DEF Snapshot, StateType
  <2>2. RetainsNewest' /\ PendingExact'
    BY <1>10, AlarmRingAssumption DEF ClearAlarm, RetainsNewest, PendingExact, Distance, Kept, Wrap
  <2>3. QED
    BY <1>4, <2>1, <2>2
<1>11. Zero \in StateType /\ Good(Zero)
  BY AlarmRingAssumption DEF Zero, StateType, Good, Distance, Kept, Wrap
<1>12. CASE ClearRunState
  BY <1>5, <1>11, <1>12 DEF ClearRunState
<1>13. CASE Restart
  BY <1>5, <1>11, <1>13 DEF Restart, RingInv, RingTypeOK
<1>14. CASE PowerCutInSave
  BY <1>5, <1>11, <1>14 DEF PowerCutInSave
<1>15. CASE UNCHANGED ringAll
  BY <1>1, <1>4, <1>15 DEF ringAll, ringVars, obsVars, RingTypeOK, Snapshot, RetainsNewest,
     PendingExact, Distance, Kept, Wrap
<1>16. QED
  BY <1>6, <1>7, <1>8, <1>9, <1>10, <1>12, <1>13, <1>14, <1>15 DEF RingNext

LEMMA RingInvHolds == RingSpec => []RingInv
BY RingInitInv, RingNextInv, PTL DEF RingSpec

\* The cursors and their saved copy stay in range, for every ring size.
THEOREM RingTypeCorrect == RingSpec => []RingTypeOK
<1>1. RingInv => RingTypeOK
  BY DEF RingInv
<1>2. QED
  BY RingInvHolds, <1>1, PTL

\* For every ring size the ring holds the newest MaxAlarm - 1 records, and a
\* full ring never looks empty.
THEOREM RingRetainsNewest == RingSpec => []RetainsNewest
<1>1. RingInv => RetainsNewest
  BY GoodSnapshot DEF RingInv
<1>2. QED
  BY RingInvHolds, <1>1, PTL

\* For every ring size: until the writer laps the sender, ActiveSendAlarm
\* sends every record exactly once and in order.
THEOREM RingPendingExact == RingSpec => []PendingExact
<1>1. RingInv => PendingExact
  BY GoodSnapshot DEF RingInv
<1>2. QED
  BY RingInvHolds, <1>1, PTL

\* Also after a lap, what is sent is one of the closed records.
THEOREM RingSentIsRetained == RingSpec => SentIsRetained
<1>1. RingInv /\ [RingNext]_ringAll =>
        [ActiveSendAlarm => Distance(head, Normalised) < Distance(head, cur)]_ringAll
  <2> SUFFICES ASSUME RingInv, ActiveSendAlarm
               PROVE  Distance(head, Normalised) < Distance(head, cur)
    OBVIOUS
  <2>1. RingTypeOK /\ cur # head /\ Normalised # cur
    BY DEF RingInv, ActiveSendAlarm
  <2>2. QED
    BY <2>1, SnapshotFields, AlarmRingAssumption DEF Normalised, Distance, Wrap
<1>2. QED
  BY RingInvHolds, <1>1, PTL DEF RingSpec, SentIsRetained

(***************************************************************************)
(* The composition.                                                        *)
(***************************************************************************)
\* Every step of the composition is a step of the ring or leaves it alone.
LEMMA RingStep == [UploadNext]_uploadVars => [RingNext]_ringAll
<1> SUFFICES ASSUME [UploadNext]_uploadVars PROVE [RingNext]_ringAll
  OBVIOUS
<1>1. CASE EtherTask
  BY <1>1 DEF EtherTask, PeekNote, PeekNone, ServeNotes, AlarmProcSend, AlarmProcEnd,
    KeepAliveCall, LinkTested, LoggedOn, LogonFailed, RingNext
<1>2. CASE RecordStep
  BY <1>2 DEF RecordStep, RingNext
<1>3. CASE Environment
  BY <1>3 DEF Environment
<1>4. CASE PowerFails
  BY <1>4 DEF PowerFails, RingNext
<1>5. CASE UNCHANGED uploadVars
  BY <1>5 DEF uploadVars
<1> QED
  BY <1>1, <1>2, <1>3, <1>4, <1>5 DEF UploadNext

\* Every step of the composition is a step of the link timing or leaves it alone.
LEMMA LinkStep == [UploadNext]_uploadVars => [Next]_vars
<1> SUFFICES ASSUME [UploadNext]_uploadVars PROVE [Next]_vars
  OBVIOUS
<1>1. CASE EtherTask
  <2>1. CASE PeekNote
    BY <2>1 DEF PeekNote, Next
  <2>2. CASE PeekNone \/ ServeNotes \/ AlarmProcSend \/ AlarmProcEnd
    BY <2>2 DEF PeekNone, ServeNotes, AlarmProcSend, AlarmProcEnd
  <2>3. CASE KeepAliveCall
    BY <2>3 DEF KeepAliveCall, Next
  <2>4. CASE LinkTested \/ LoggedOn \/ LogonFailed
    <3>1. ClearKeepAlive \/ KeepAliveEnd(0) \/ KeepAliveEnd(1)
      BY <2>4 DEF LinkTested, LoggedOn, LogonFailed
    <3> QED
      BY <3>1 DEF Next
  <2> QED
    BY <1>1, <2>1, <2>2, <2>3, <2>4 DEF EtherTask
<1>2. CASE RecordStep
  BY <1>2 DEF RecordStep
<1>3. CASE Environment
  BY <1>3 DEF Environment, Next
<1>4. CASE PowerFails
  BY <1>4 DEF PowerFails, Next
<1>5. CASE UNCHANGED uploadVars
  BY <1>5 DEF uploadVars
<1> QED
  BY <1>1, <1>2, <1>3, <1>4, <1>5 DEF UploadNext

\* The upload loop implements both components: AlarmProc, the recording
\* threads and the power only move the cursors as AlarmRing says, EtherTask and
\* the network only move the counters as KeepAlive says.
THEOREM UploadImplementsBoth == UploadSpec => RingSpec /\ Spec
<1>1. UploadInit => RingInit /\ Init
  BY DEF UploadInit
<1> QED
  BY <1>1, RingStep, LinkStep, PTL DEF UploadSpec, RingSpec, Spec

\* While EtherTask sends, other threads record and the power fails, the ring
\* keeps the newest records, the count of pending ones is exact, and what is
\* sent is one of the records kept.
THEOREM UploadKeepsRecords == UploadSpec => [](RetainsNewest /\ PendingExact) /\ SentIsRetained
BY UploadImplementsBoth, RingRetainsNewest, RingPendingExact, RingSentIsRetained, PTL

\* However much there is to send, EtherKeepAlive is never put off.
THEOREM UploadTestsLink == UploadSpec => []NeverPutOff
BY UploadImplementsBoth, KeepAliveDue, PTL
=============================================================================
