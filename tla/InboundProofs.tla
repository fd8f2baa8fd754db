---------------------------- MODULE InboundProofs ----------------------------
(***************************************************************************)
(* Proofs about Inbound.tla for every number of updates, every attempt and *)
(* ledger limit, and any number of disk failures and crashes.              *)
(***************************************************************************)
EXTENDS InboundProperties, SequenceTheorems, TLAPS

\* The critical section of _submit_inbound_update keeps the types.
LEMMA SubmitType ==
  ASSUME TypeOK, NEW u \in Updates, Submit(u)
  PROVE  /\ claims' \in SUBSET Updates
         /\ queue' \in Seq(Updates)
         /\ disk' \in [Updates -> {"none", "pending", "dying"}]
         /\ dead' \in SUBSET Updates
<1>1. CASE u \in claims
  BY <1>1 DEF Submit, TypeOK, DiskTypes, WorkerTypes
<1>2. CASE u \notin claims
  <2>1. Maintain({})
    BY <1>2 DEF Submit
  <2>2. disk' \in [Updates -> {"none", "pending", "dying"}] /\ dead' \in SUBSET Updates
    BY <2>1 DEF Maintain, Dying, TypeOK, DiskTypes
  <2>3. claims' \in SUBSET Updates
    BY <1>2 DEF Submit, TypeOK, WorkerTypes
  <2>4. queue' = queue \/ queue' = Append(queue, u)
    BY <1>2 DEF Submit
  <2>5. queue' \in Seq(Updates)
    BY <2>4, AppendProperties DEF TypeOK, WorkerTypes
  <2>6. QED
    BY <2>2, <2>3, <2>5
<1>3. QED
  BY <1>1, <1>2

\* A step that leaves the disk, the threads or the bookkeeping alone keeps their types.
LEMMA FrameTypes ==
  ASSUME TypeOK
  PROVE  /\ UNCHANGED diskVars => DiskTypes'
         /\ UNCHANGED <<ledger, ledgerDisk>> => LedgerTypes'
         /\ UNCHANGED <<confirmed, offset, offsetDisk, pollVars>> => PollerTypes'
         /\ UNCHANGED <<memVars, workVars>> => WorkerTypes'
         /\ UNCHANGED replayVars => ReplayTypes'
         /\ UNCHANGED <<handled, refused, crashes, faults>> => HistoryTypes'
BY DEF TypeOK, DiskTypes, LedgerTypes, PollerTypes, WorkerTypes, ReplayTypes, HistoryTypes,
       diskVars, pollVars, memVars, workVars, replayVars

\* A failing disk operation only spends the budget of failures.
LEMMA FaultType ==
  ASSUME TypeOK, NEW k, Fault(k)
  PROVE  faults' \in Nat
BY DEF Fault, TypeOK, HistoryTypes

LEMMA AdvanceType ==
  ASSUME TypeOK, ppc # "poll", Advance
  PROVE  /\ ppc' \in {"poll", "take", "save", "submit", "mark"}
         /\ cur' \in Nat \ {0} /\ last' \in 0 .. LastUpdate
         /\ ppc' # "poll" => cur' <= last'
BY ConstantsAssumption DEF Advance, TypeOK, PollerTypes

LEMMA NextOffsetType == TypeOK => NextOffset \in Nat
BY DEF NextOffset, MaxOf, TypeOK, PollerTypes

\* TypeOK is inductive: every step of every thread, and a restart, keeps it.
LEMMA TypeStep == TypeOK /\ [Next]_vars => TypeOK'
<1> SUFFICES ASSUME TypeOK, [Next]_vars
             PROVE  TypeOK'
  OBVIOUS
<1> USE ConstantsAssumption
<1>1. CASE GetUpdates
  <2>1. PollerTypes'
    BY <1>1 DEF GetUpdates, TypeOK, PollerTypes, MaxOf, pollVars, offsetVars
  <2>2. QED
    BY <1>1, <2>1, FrameTypes DEF GetUpdates, TypeOK, offsetVars, histVars
<1>2. CASE SkipProcessed
  <2>1. PollerTypes'
    BY <1>2, AdvanceType, NextOffsetType DEF SkipProcessed, TypeOK, PollerTypes
  <2>2. HistoryTypes'
    BY <1>2, FaultType DEF SkipProcessed, histVars, TypeOK, HistoryTypes
  <2>3. QED
    BY <1>2, <2>1, <2>2, FrameTypes DEF SkipProcessed, TypeOK
<1>3. CASE Reserve
  <2>1. cur \in Updates
    BY <1>3 DEF Reserve, TypeOK, PollerTypes, Updates
  <2>2. DiskTypes'
    BY <1>3, <2>1 DEF Reserve, TypeOK, DiskTypes
  <2>3. PollerTypes'
    BY <1>3 DEF Reserve, TypeOK, PollerTypes, offsetVars
  <2>4. HistoryTypes'
    BY <1>3 DEF Reserve, TypeOK, HistoryTypes
  <2>5. QED
    BY <1>3, <2>2, <2>3, <2>4, FrameTypes DEF Reserve, TypeOK, offsetVars
<1>4. CASE ReserveFails
  <2>1. cur \in Updates
    BY <1>4 DEF ReserveFails, TypeOK, PollerTypes, Updates
  <2>2. PollerTypes'
    BY <1>4, AdvanceType DEF ReserveFails, TypeOK, PollerTypes, offsetVars
  <2>3. HistoryTypes'
    BY <1>4, <2>1, FaultType DEF ReserveFails, TypeOK, HistoryTypes
  <2>4. QED
    BY <1>4, <2>2, <2>3, FrameTypes DEF ReserveFails, TypeOK, offsetVars
<1>5. CASE SaveOffset
  <2>1. PollerTypes'
    BY <1>5, NextOffsetType DEF SaveOffset, TypeOK, PollerTypes
  <2>2. HistoryTypes'
    BY <1>5, FaultType DEF SaveOffset, TypeOK, HistoryTypes, histVars
  <2>3. QED
    BY <1>5, <2>1, <2>2, FrameTypes DEF SaveOffset, TypeOK
<1>6. CASE PollerSubmit
  <2>1. cur \in Updates
    BY <1>6 DEF PollerSubmit, TypeOK, PollerTypes, Updates
  <2>2. DiskTypes'
    BY <1>6, <2>1, SubmitType DEF PollerSubmit, TypeOK, DiskTypes
  <2>3. PollerTypes'
    BY <1>6 DEF PollerSubmit, TypeOK, PollerTypes, offsetVars
  <2>4. WorkerTypes'
    BY <1>6, <2>1, SubmitType DEF PollerSubmit, TypeOK, WorkerTypes, workVars
  <2>5. QED
    BY <1>6, <2>2, <2>3, <2>4, FrameTypes DEF PollerSubmit, TypeOK, offsetVars, histVars
<1>7. CASE PollerSubmitFails
  <2>1. PollerTypes'
    BY <1>7, AdvanceType DEF PollerSubmitFails, TypeOK, PollerTypes, offsetVars
  <2>2. HistoryTypes'
    BY <1>7, FaultType DEF PollerSubmitFails, SubmitFails, TypeOK, HistoryTypes, histVars
  <2>3. QED
    BY <1>7, <2>1, <2>2, FrameTypes DEF PollerSubmitFails, TypeOK, offsetVars
<1>8. CASE MarkProcessed
  <2> DEFINE longer == Append(ledger, cur)
  <2>1. cur \in Updates
    BY <1>8 DEF MarkProcessed, TypeOK, PollerTypes, Updates
  <2>2. longer \in Seq(Updates) /\ longer # <<>>
    BY <2>1, AppendProperties DEF TypeOK, LedgerTypes
  <2>3. ledger' \in {longer, Tail(longer)}
    BY <1>8 DEF MarkProcessed
  <2>4. ledger' \in Seq(Updates)
    BY <2>2, <2>3, HeadTailProperties
  <2>5. LedgerTypes'
    BY <1>8, <2>4 DEF MarkProcessed, TypeOK, LedgerTypes
  <2>6. PollerTypes'
    BY <1>8, AdvanceType, NextOffsetType DEF MarkProcessed, TypeOK, PollerTypes
  <2>7. HistoryTypes'
    BY <1>8, FaultType DEF MarkProcessed, TypeOK, HistoryTypes, histVars
  <2>8. QED
    BY <1>8, <2>5, <2>6, <2>7, FrameTypes DEF MarkProcessed, TypeOK
<1>9. ASSUME NEW t \in Replayers, ReplaySnapshot(t)
      PROVE  TypeOK'
  <2>1. DiskTypes'
    BY <1>9 DEF ReplaySnapshot, Maintain, Dying, TypeOK, DiskTypes
  <2>2. {<<born[u], u>> : u \in Pending} \subseteq Stamps
    BY DEF Pending, Stamps, TypeOK, DiskTypes
  <2>3. ReplayTypes'
    BY <1>9, <2>2 DEF ReplaySnapshot, Finished, TypeOK, ReplayTypes
  <2>4. HistoryTypes'
    BY <1>9, FaultType DEF ReplaySnapshot, TypeOK, HistoryTypes, histVars
  <2>5. QED
    BY <1>9, <2>1, <2>3, <2>4, FrameTypes DEF ReplaySnapshot, TypeOK, offsetVars
<1>10. ASSUME NEW t \in Replayers, ReplayFilter(t)
       PROVE  TypeOK'
  <2>1. ReplayTypes'
    BY <1>10 DEF ReplayFilter, Finished, TypeOK, ReplayTypes
  <2>2. QED
    BY <1>10, <2>1, FrameTypes DEF ReplayFilter, TypeOK, offsetVars, histVars
<1>11. ASSUME NEW t \in Replayers, ReplaySubmit(t)
       PROVE  TypeOK'
  <2>1. PICK r \in snap[t] : Submit(r[2]) /\ snap' = [snap EXCEPT ![t] = @ \ {r}]
    BY <1>11 DEF ReplaySubmit
  <2>2. r[2] \in Updates
    BY <2>1 DEF TypeOK, ReplayTypes, Stamps
  <2>3. DiskTypes'
    BY <1>11, <2>1, <2>2, SubmitType DEF ReplaySubmit, TypeOK, DiskTypes
  <2>4. WorkerTypes'
    BY <1>11, <2>1, <2>2, SubmitType DEF ReplaySubmit, TypeOK, WorkerTypes, workVars
  <2>5. ReplayTypes'
    BY <1>11, <2>1 DEF ReplaySubmit, Finished, TypeOK, ReplayTypes
  <2>6. QED
    BY <1>11, <2>3, <2>4, <2>5, FrameTypes DEF ReplaySubmit, TypeOK, offsetVars, histVars
<1>12. CASE ReplaySubmitFails
  <2>1. ReplayTypes'
    BY <1>12 DEF ReplaySubmitFails, Replayers, TypeOK, ReplayTypes
  <2>2. HistoryTypes'
    BY <1>12, FaultType DEF ReplaySubmitFails, SubmitFails, TypeOK, HistoryTypes, histVars
  <2>3. QED
    BY <1>12, <2>1, <2>2, FrameTypes DEF ReplaySubmitFails, TypeOK, offsetVars
<1>13. CASE Take
  <2>1. WorkerTypes'
    BY <1>13, HeadTailProperties DEF Take, TypeOK, WorkerTypes, WorkerPlaces
  <2>2. QED
    BY <1>13, <2>1, FrameTypes DEF Take, TypeOK, offsetVars, histVars
<1>14. CASE HandleDelivers
  <2>1. WorkerTypes'
    BY <1>14 DEF HandleDelivers, TypeOK, WorkerTypes, WorkerPlaces, memVars
  <2>2. HistoryTypes'
    BY <1>14 DEF HandleDelivers, TypeOK, WorkerTypes, HistoryTypes
  <2>3. QED
    BY <1>14, <2>1, <2>2, FrameTypes DEF HandleDelivers, TypeOK, offsetVars
<1>14b. CASE InjectTimesOut
  <2>1. HistoryTypes'
    BY <1>14b, FaultType DEF InjectTimesOut, TypeOK, WorkerTypes, HistoryTypes
  <2>2. QED
    BY <1>14b, <2>1, FrameTypes DEF InjectTimesOut, TypeOK, offsetVars
<1>15. CASE HandleFails
  <2>1. WorkerTypes'
    BY <1>15 DEF HandleFails, TypeOK, WorkerTypes, WorkerPlaces, memVars
  <2>2. QED
    BY <1>15, <2>1, FrameTypes DEF HandleFails, TypeOK, offsetVars, histVars
<1>16. CASE DeleteRecord
  <2>1. DiskTypes'
    BY <1>16 DEF DeleteRecord, TypeOK, WorkerTypes, DiskTypes
  <2>2. WorkerTypes'
    BY <1>16 DEF DeleteRecord, TypeOK, WorkerTypes, WorkerPlaces, memVars
  <2>3. HistoryTypes'
    BY <1>16, FaultType DEF DeleteRecord, TypeOK, HistoryTypes, histVars
  <2>4. QED
    BY <1>16, <2>1, <2>2, <2>3, FrameTypes DEF DeleteRecord, TypeOK, offsetVars
<1>17. CASE ReleaseClaim
  <2>1. WorkerTypes'
    BY <1>17 DEF ReleaseClaim, Rest, TypeOK, WorkerTypes, WorkerPlaces
  <2>2. QED
    BY <1>17, <2>1, FrameTypes DEF ReleaseClaim, TypeOK, offsetVars, histVars
<1>18. CASE Unclaim
  <2>1. WorkerTypes'
    BY <1>18 DEF Unclaim, TypeOK, WorkerTypes, WorkerPlaces
  <2>2. QED
    BY <1>18, <2>1, FrameTypes DEF Unclaim, TypeOK, offsetVars, histVars
<1>19. CASE CountFailure
  <2>1. DiskTypes'
    BY <1>19 DEF CountFailure, TypeOK, WorkerTypes, DiskTypes
  <2>2. WorkerTypes'
    BY <1>19 DEF CountFailure, Rest, TypeOK, WorkerTypes, WorkerPlaces, memVars
  <2>3. HistoryTypes'
    BY <1>19, FaultType DEF CountFailure, TypeOK, HistoryTypes, histVars
  <2>4. QED
    BY <1>19, <2>1, <2>2, <2>3, FrameTypes DEF CountFailure, TypeOK, offsetVars
<1>20. CASE GiveUp
  <2>1. DiskTypes'
    BY <1>20 DEF GiveUp, TypeOK, WorkerTypes, DiskTypes
  <2>2. WorkerTypes'
    BY <1>20 DEF GiveUp, Rest, TypeOK, WorkerTypes, WorkerPlaces, memVars
  <2>3. HistoryTypes'
    BY <1>20, FaultType DEF GiveUp, TypeOK, HistoryTypes, histVars
  <2>4. QED
    BY <1>20, <2>1, <2>2, <2>3, FrameTypes DEF GiveUp, TypeOK, offsetVars
<1>21. CASE Bury
  <2>1. DiskTypes'
    BY <1>21 DEF Bury, TypeOK, WorkerTypes, DiskTypes
  <2>2. WorkerTypes'
    BY <1>21 DEF Bury, Rest, TypeOK, WorkerTypes, WorkerPlaces, memVars
  <2>3. HistoryTypes'
    BY <1>21, FaultType DEF Bury, TypeOK, HistoryTypes, histVars
  <2>4. QED
    BY <1>21, <2>1, <2>2, <2>3, FrameTypes DEF Bury, TypeOK, offsetVars
<1>22. CASE Restart
  <2>1. DiskTypes'
    BY <1>22 DEF Restart, Maintain, Dying, Pending, TypeOK, DiskTypes
  <2>2. LedgerTypes' /\ PollerTypes'
    BY <1>22 DEF Restart, TypeOK, LedgerTypes, PollerTypes
  <2>3. WorkerTypes' /\ ReplayTypes' /\ HistoryTypes'
    BY <1>22, EmptySeq DEF Restart, TypeOK, WorkerTypes, WorkerPlaces, ReplayTypes, HistoryTypes
  <2>4. QED
    BY <2>1, <2>2, <2>3 DEF TypeOK
<1>23. CASE UNCHANGED vars
  BY <1>23, FrameTypes DEF vars, TypeOK, offsetVars, histVars
<1>24. QED
  BY <1>1, <1>2, <1>3, <1>4, <1>5, <1>6, <1>7, <1>8, <1>9, <1>10, <1>11, <1>12, <1>13, <1>14,
     <1>14b, <1>15, <1>16, <1>17, <1>18, <1>19, <1>20, <1>21, <1>22, <1>23
  DEF Next, Poller, Worker, Replay

\* Type correctness.
THEOREM TypeCorrect == Spec => []TypeOK
<1>1. Init => TypeOK
  <2> SUFFICES ASSUME Init PROVE TypeOK
    OBVIOUS
  <2>1. DiskTypes /\ PollerTypes /\ HistoryTypes
    BY ConstantsAssumption DEF Init, DiskTypes, PollerTypes, HistoryTypes
  <2>2. LedgerTypes /\ WorkerTypes /\ ReplayTypes
    BY EmptySeq DEF Init, LedgerTypes, WorkerTypes, WorkerPlaces, ReplayTypes
  <2>3. QED
    BY <2>1, <2>2 DEF TypeOK
<1>2. QED
  BY <1>1, TypeStep, PTL DEF Spec
-----------------------------------------------------------------------------
(* Custody *)

\* Maintenance buries records, it loses none.
LEMMA MaintainKeeps ==
  ASSUME TypeOK, NEW expired, Maintain(expired), handled' = handled,
         NEW u \in Updates, Accounted(u)
  PROVE  Accounted(u)'
BY DEF Maintain, Accounted, TypeOK, DiskTypes

\* The critical section of _submit_inbound_update loses no record either.
LEMMA SubmitKeeps ==
  ASSUME TypeOK, NEW v \in Updates, Submit(v), handled' = handled,
         NEW u \in Updates, Accounted(u)
  PROVE  Accounted(u)'
BY MaintainKeeps DEF Submit, Accounted

\* An update in the bridge's custody stays there: the record of a message disappears
\* only after the message was handled, or into the dead-letter directory.
LEMMA AccountedStable ==
  ASSUME TypeOK, WorkerKnowsRecord, [Next]_vars, NEW u \in Updates, Accounted(u)
  PROVE  Accounted(u)'
<1>1. CASE UNCHANGED <<disk, dead, handled>>
  BY <1>1 DEF Accounted
<1>2. CASE Reserve
  BY <1>2 DEF Reserve, Accounted, TypeOK, DiskTypes
<1>3. CASE PollerSubmit
  <2>1. cur \in Updates
    BY <1>3, ConstantsAssumption DEF PollerSubmit, TypeOK, PollerTypes, Updates
  <2>2. QED
    BY <1>3, <2>1, SubmitKeeps DEF PollerSubmit, histVars
<1>4. ASSUME NEW t \in Replayers, ReplaySnapshot(t)
      PROVE  Accounted(u)'
  <2>1. handled' = handled
    BY <1>4 DEF ReplaySnapshot, histVars
  <2>2. Maintain({}) \/ UNCHANGED <<disk, dead>>
    BY <1>4 DEF ReplaySnapshot
  <2>3. QED
    BY <2>1, <2>2, MaintainKeeps DEF Accounted
<1>5. ASSUME NEW t \in Replayers, ReplaySubmit(t)
      PROVE  Accounted(u)'
  <2>1. PICK r \in snap[t] : Submit(r[2])
    BY <1>5 DEF ReplaySubmit
  <2>2. r[2] \in Updates
    BY <2>1 DEF TypeOK, ReplayTypes, Stamps
  <2>3. handled' = handled
    BY <1>5 DEF ReplaySubmit, histVars
  <2>4. QED
    BY <2>1, <2>2, <2>3, SubmitKeeps
<1>6. CASE HandleDelivers \/ InjectTimesOut
  BY <1>6 DEF HandleDelivers, InjectTimesOut, Accounted, TypeOK, WorkerTypes, HistoryTypes, diskVars
<1>7. CASE DeleteRecord
  BY <1>7 DEF DeleteRecord, Accounted, WorkerKnowsRecord, TypeOK, DiskTypes, histVars
<1>8. CASE GiveUp
  BY <1>8 DEF GiveUp, Accounted, TypeOK, DiskTypes, histVars
<1>9. CASE Bury
  BY <1>9 DEF Bury, Accounted, TypeOK, DiskTypes, histVars
<1>10. CASE Restart
  <2>1. PICK expired \in SUBSET Pending : Maintain(expired)
    BY <1>10 DEF Restart
  <2>2. handled' = handled
    BY <1>10 DEF Restart
  <2>3. QED
    BY <2>1, <2>2, MaintainKeeps
<1>11. CASE GetUpdates \/ SkipProcessed \/ ReserveFails \/ SaveOffset \/ PollerSubmitFails
            \/ MarkProcessed
  BY <1>11, <1>1 DEF GetUpdates, SkipProcessed, ReserveFails, SaveOffset, PollerSubmitFails,
                     MarkProcessed, diskVars, histVars
<1>12. CASE ReplaySubmitFails \/ \E t \in Replayers : ReplayFilter(t)
  BY <1>12, <1>1 DEF ReplaySubmitFails, ReplayFilter, diskVars, histVars
<1>13. CASE Take \/ HandleFails \/ ReleaseClaim \/ Unclaim \/ CountFailure
  BY <1>13, <1>1 DEF Take, HandleFails, ReleaseClaim, Unclaim, CountFailure, diskVars, histVars
<1>14. CASE UNCHANGED vars
  BY <1>14, <1>1 DEF vars, diskVars, histVars
<1>15. QED
  BY <1>2, <1>3, <1>4, <1>5, <1>6, <1>7, <1>8, <1>9, <1>10, <1>11, <1>12, <1>13, <1>14
  DEF Next, Poller, Worker, Replay

\* Once settled an update stays settled: a refusal is taken back only by a record.
LEMMA SettledStable ==
  ASSUME TypeOK, WorkerKnowsRecord, [Next]_vars, NEW u \in Updates, Settled(u)
  PROVE  Settled(u)'
<1>1. CASE Accounted(u)
  BY <1>1, AccountedStable DEF Settled
<1>2. CASE refused \subseteq refused'
  BY <1>1, <1>2 DEF Settled
<1>3. CASE Reserve
  <2>1. CASE u = cur
    BY <1>3, <2>1 DEF Reserve, Settled, Accounted, TypeOK, DiskTypes
  <2>2. CASE u # cur
    BY <1>1, <1>3, <2>2 DEF Reserve, Settled
  <2>3. QED
    BY <2>1, <2>2
<1>4. CASE ReserveFails
  BY <1>2, <1>4 DEF ReserveFails
<1>5. CASE GetUpdates \/ SkipProcessed \/ SaveOffset \/ PollerSubmit \/ PollerSubmitFails
           \/ MarkProcessed \/ ReplaySubmitFails \/ \E t \in Replayers : Replay(t)
  BY <1>2, <1>5 DEF GetUpdates, SkipProcessed, SaveOffset, PollerSubmit, PollerSubmitFails,
     MarkProcessed, ReplaySubmitFails, Replay, ReplaySnapshot, ReplayFilter, ReplaySubmit, histVars
<1>6. CASE Worker \/ Restart \/ UNCHANGED vars
  BY <1>2, <1>6 DEF Worker, Take, InjectTimesOut, HandleDelivers, HandleFails, DeleteRecord, ReleaseClaim, Unclaim,
     CountFailure, GiveUp, Bury, Restart, vars, histVars
<1>7. QED
  BY <1>3, <1>4, <1>5, <1>6 DEF Next, Poller

\* Where the poller is in its batch, it is at an update.
LEMMA CurrentIsUpdate == TypeOK /\ ppc # "poll" => cur \in Updates
BY ConstantsAssumption DEF TypeOK, PollerTypes, Updates

\* What lies behind the next offset is settled if the current update is.
LEMMA BehindNextOffset ==
  ASSUME TypeOK, CustodyInv, ppc # "poll", Settled(cur), NEW u \in Updates, u < NextOffset
  PROVE  Settled(u)
<1>1. u < offset \/ u < cur + 1
  BY DEF NextOffset, MaxOf
<1>2. u < offset \/ u < cur \/ u = cur
  BY <1>1 DEF Updates, TypeOK, PollerTypes
<1>3. QED
  BY <1>2 DEF CustodyInv, OffsetsSettled, BatchSettled

\* An update the ledger knows is in custody or was disposed of.
LEMMA ProcessedAccounted ==
  ASSUME CustodyInv, cur \in Range(ledger)
  PROVE  Settled(cur)
BY DEF CustodyInv, LedgersAccounted, Range, Settled

\* The offsets move only over settled updates.
LEMMA OffsetsStep ==
  ASSUME TypeOK, CustodyInv, [Next]_vars
  PROVE  OffsetsSettled'
<1> SUFFICES ASSUME NEW u \in Updates, u < confirmed' \/ u < offset' \/ u < offsetDisk'
             PROVE  Settled(u)'
  BY DEF OffsetsSettled, Updates
<1>1. SUFFICES Settled(u)
  BY SettledStable DEF CustodyInv
<1>2. CASE UNCHANGED <<confirmed, offset, offsetDisk>>
  BY <1>2 DEF CustodyInv, OffsetsSettled
<1>3. CASE GetUpdates
  <2>1. u < confirmed \/ u < offset \/ u < offsetDisk
    BY <1>3 DEF GetUpdates, MaxOf, offsetVars
  <2>2. QED
    BY <2>1 DEF CustodyInv, OffsetsSettled
<1>4. CASE SkipProcessed \/ SaveOffset \/ MarkProcessed
  <2>1. ppc # "poll" /\ Settled(cur)
    BY <1>4, ProcessedAccounted
    DEF SkipProcessed, SaveOffset, MarkProcessed, CustodyInv, CurrentStored, Settled
  <2>2. u < confirmed \/ u < offset \/ u < offsetDisk \/ u < NextOffset
    BY <1>4 DEF SkipProcessed, SaveOffset, MarkProcessed
  <2>3. QED
    BY <2>1, <2>2, BehindNextOffset DEF CustodyInv, OffsetsSettled
<1>5. CASE Restart
  <2>1. u < confirmed \/ u < offset \/ u < offsetDisk
    BY <1>5 DEF Restart
  <2>2. QED
    BY <2>1 DEF CustodyInv, OffsetsSettled
<1>6. CASE Reserve \/ ReserveFails \/ PollerSubmit \/ PollerSubmitFails \/ ReplaySubmitFails
           \/ \E t \in Replayers : Replay(t)
  BY <1>2, <1>6 DEF Reserve, ReserveFails, PollerSubmit, PollerSubmitFails, ReplaySubmitFails,
     Replay, ReplaySnapshot, ReplayFilter, ReplaySubmit, offsetVars
<1>7. CASE Worker \/ UNCHANGED vars
  BY <1>2, <1>7 DEF Worker, Take, InjectTimesOut, HandleDelivers, HandleFails, DeleteRecord, ReleaseClaim, Unclaim,
     CountFailure, GiveUp, Bury, vars, offsetVars
<1>8. QED
  BY <1>3, <1>4, <1>5, <1>6, <1>7 DEF Next, Poller

\* The poller walks its batch over settled updates, and stores one before it leaves it.
LEMMA BatchStep ==
  ASSUME TypeOK, CustodyInv, [Next]_vars
  PROVE  BatchSettled' /\ CurrentStored'
<1>1. \A u \in Updates : Settled(u) => Settled(u)'
  BY SettledStable DEF CustodyInv
<1>2. \A u \in Updates : Accounted(u) => Accounted(u)'
  BY AccountedStable DEF CustodyInv
<1>3. CASE UNCHANGED <<confirmed, ppc, cur>>
  BY <1>1, <1>2, <1>3, CurrentIsUpdate
  DEF CustodyInv, BatchSettled, CurrentStored, TypeOK, PollerTypes, Updates
<1>4. CASE GetUpdates
  <2>1. confirmed' = MaxOf(confirmed, offset)
    BY <1>4 DEF GetUpdates
  <2>2. CASE UNCHANGED pollVars
    BY <1>4, <2>2 DEF GetUpdates, pollVars, BatchSettled, CurrentStored
  <2>3. CASE cur' = MaxOf(1, confirmed') /\ ppc' = "take"
    <3>1. \A u \in Updates : u < cur' => u < confirmed \/ u < offset
      BY <2>1, <2>3 DEF MaxOf, Updates
    <3>2. confirmed' <= cur'
      BY <2>1, <2>3 DEF MaxOf, TypeOK, PollerTypes
    <3>3. QED
      BY <1>1, <2>3, <3>1, <3>2 DEF CustodyInv, OffsetsSettled, BatchSettled, CurrentStored
  <2>4. QED
    BY <1>4, <2>2, <2>3 DEF GetUpdates
<1>5. ASSUME ppc # "poll", Advance, confirmed' = confirmed,
             \A u \in Updates : u = cur => Settled(u)'
      PROVE  BatchSettled' /\ CurrentStored'
  <2>1. CASE ppc' = "poll"
    BY <2>1 DEF BatchSettled, CurrentStored
  <2>2. CASE cur' = cur + 1 /\ ppc' = "take"
    <3>1. \A u \in Updates : u < cur' => u < cur \/ u = cur
      BY <2>2 DEF Updates, TypeOK, PollerTypes
    <3>2. \A u \in Updates : u < cur' => Settled(u)'
      BY <1>1, <1>5, <3>1 DEF CustodyInv, BatchSettled
    <3>3. confirmed' <= cur'
      BY <1>5, <2>2 DEF CustodyInv, BatchSettled, TypeOK, PollerTypes
    <3>4. QED
      BY <2>2, <3>2, <3>3 DEF BatchSettled, CurrentStored
  <2>3. QED
    BY <1>5, <2>1, <2>2 DEF Advance
<1>6. CASE SkipProcessed \/ ReserveFails \/ PollerSubmitFails \/ MarkProcessed
  <2>1. ppc # "poll" /\ Advance /\ confirmed' = confirmed
    BY <1>6 DEF SkipProcessed, ReserveFails, PollerSubmitFails, MarkProcessed
  <2>2. CASE ReserveFails
    <3>1. \A u \in Updates : u = cur => Settled(u)'
      BY <2>2 DEF ReserveFails, Settled
    <3>2. QED
      BY <1>5, <2>1, <3>1
  <2>3. CASE SkipProcessed \/ PollerSubmitFails \/ MarkProcessed
    <3>1. Settled(cur)
      BY <2>3, ProcessedAccounted
      DEF SkipProcessed, PollerSubmitFails, MarkProcessed, CustodyInv, CurrentStored, Settled
    <3>2. QED
      BY <1>1, <1>5, <2>1, <3>1, CurrentIsUpdate
  <2>4. QED
    BY <1>6, <2>2, <2>3
<1>7. CASE Reserve
  <2>1. Accounted(cur)'
    BY <1>7, CurrentIsUpdate DEF Reserve, Accounted, TypeOK, DiskTypes
  <2>2. BatchSettled'
    BY <1>1, <1>7 DEF Reserve, CustodyInv, BatchSettled
  <2>3. QED
    BY <1>7, <2>1, <2>2 DEF Reserve, CurrentStored
<1>8. CASE SaveOffset \/ PollerSubmit
  BY <1>1, <1>2, <1>8, CurrentIsUpdate
  DEF SaveOffset, PollerSubmit, CustodyInv, BatchSettled, CurrentStored, TypeOK, PollerTypes, Updates
<1>9. CASE ReplaySubmitFails \/ \E t \in Replayers : Replay(t)
  BY <1>3, <1>9 DEF ReplaySubmitFails, Replay, ReplaySnapshot, ReplayFilter, ReplaySubmit, pollVars
<1>10. CASE Worker \/ UNCHANGED vars
  BY <1>3, <1>10 DEF Worker, Take, InjectTimesOut, HandleDelivers, HandleFails, DeleteRecord, ReleaseClaim, Unclaim,
     CountFailure, GiveUp, Bury, vars, pollVars
<1>11. CASE Restart
  BY <1>11 DEF Restart, BatchSettled, CurrentStored
<1>12. QED
  BY <1>4, <1>6, <1>7, <1>8, <1>9, <1>10, <1>11 DEF Next, Poller

\* Growing a queue or a ledger adds one element, shortening it adds none.
LEMMA AppendRange ==
  ASSUME NEW S, NEW q \in Seq(S), NEW e \in S
  PROVE  Range(Append(q, e)) = Range(q) \cup {e}
<1>1. /\ DOMAIN Append(q, e) = 1 .. Len(q) + 1
      /\ Append(q, e)[Len(q) + 1] = e
      /\ \A i \in 1 .. Len(q) : Append(q, e)[i] = q[i]
      /\ DOMAIN q = 1 .. Len(q) /\ Len(q) \in Nat
  BY AppendProperties
<1>2. 1 .. Len(q) + 1 = (1 .. Len(q)) \cup {Len(q) + 1}
  BY <1>1
<1>3. QED
  BY <1>1, <1>2 DEF Range

LEMMA TailRange ==
  ASSUME NEW S, NEW q \in Seq(S), q # <<>>
  PROVE  Range(Tail(q)) \subseteq Range(q) /\ Head(q) \in Range(q)
<1>1. /\ DOMAIN Tail(q) = 1 .. Len(q) - 1 /\ DOMAIN q = 1 .. Len(q)
      /\ Len(q) \in Nat \ {0}
      /\ \A i \in 1 .. Len(q) - 1 : Tail(q)[i] = q[i + 1]
      /\ Head(q) = q[1]
  BY HeadTailProperties, EmptySeq
<1>2. QED
  BY <1>1 DEF Range

\* The ledgers name only updates in custody.
LEMMA LedgersStep ==
  ASSUME TypeOK, CustodyInv, [Next]_vars
  PROVE  LedgersAccounted'
<1>1. \A u \in Range(ledger) \cup Range(ledgerDisk) : u \in Updates /\ Accounted(u)
  BY DEF TypeOK, LedgerTypes, CustodyInv, LedgersAccounted, Range
<1>2. \A u \in Range(ledger) \cup Range(ledgerDisk) : Accounted(u)'
  BY <1>1, AccountedStable DEF CustodyInv
<1>3. SUFFICES \A u \in Range(ledger') \cup Range(ledgerDisk') : Accounted(u)'
  BY DEF LedgersAccounted, Range
<1>4. CASE UNCHANGED <<ledger, ledgerDisk>>
  BY <1>2, <1>4
<1>5. CASE MarkProcessed
  <2> DEFINE longer == Append(ledger, cur)
  <2>1. cur \in Updates /\ Accounted(cur)
    BY <1>5, CurrentIsUpdate DEF MarkProcessed, CustodyInv, CurrentStored
  <2>2. \A u \in Range(longer) : Accounted(u)'
    BY <1>2, <2>1, AccountedStable, AppendRange DEF TypeOK, LedgerTypes, CustodyInv
  <2>3. longer \in Seq(Updates) /\ longer # <<>>
    BY <2>1, AppendProperties DEF TypeOK, LedgerTypes
  <2>4. Range(ledger') \subseteq Range(longer)
    BY <1>5, <2>3, TailRange DEF MarkProcessed
  <2>5. ledgerDisk' \in {ledger', ledgerDisk}
    BY <1>5 DEF MarkProcessed
  <2>6. QED
    BY <1>2, <2>2, <2>4, <2>5
<1>6. CASE Restart
  BY <1>2, <1>6 DEF Restart
<1>7. CASE GetUpdates \/ SkipProcessed \/ Reserve \/ ReserveFails \/ SaveOffset \/ PollerSubmit
           \/ PollerSubmitFails \/ ReplaySubmitFails \/ \E t \in Replayers : Replay(t)
  BY <1>4, <1>7 DEF GetUpdates, SkipProcessed, Reserve, ReserveFails, SaveOffset, PollerSubmit,
     PollerSubmitFails, ReplaySubmitFails, Replay, ReplaySnapshot, ReplayFilter, ReplaySubmit,
     offsetVars
<1>8. CASE Worker \/ UNCHANGED vars
  BY <1>4, <1>8 DEF Worker, Take, InjectTimesOut, HandleDelivers, HandleFails, DeleteRecord, ReleaseClaim, Unclaim,
     CountFailure, GiveUp, Bury, vars, offsetVars
<1>9. QED
  BY <1>5, <1>6, <1>7, <1>8 DEF Next, Poller

\* What submission puts into the queue is on disk.
LEMMA SubmitRange ==
  ASSUME TypeOK, NEW v \in Updates, Submit(v)
  PROVE  \A u \in Range(queue') : u \in Range(queue) \/ (u = v /\ Accounted(v))
<1>1. queue' = queue \/ (queue' = Append(queue, v) /\ disk[v] = "pending")
  BY DEF Submit
<1>2. queue \in Seq(Updates)
  BY DEF TypeOK, WorkerTypes
<1>3. Range(Append(queue, v)) = Range(queue) \cup {v}
  BY <1>2, AppendRange
<1>4. disk[v] = "pending" => Accounted(v)
  BY DEF Accounted
<1>5. CASE queue' = queue
  BY <1>5
<1>6. CASE queue' = Append(queue, v) /\ disk[v] = "pending"
  BY <1>3, <1>4, <1>6
<1>7. QED
  BY <1>1, <1>5, <1>6

\* Everything in circulation, in the queue or with the worker, is in custody.
LEMMA CirculationStep ==
  ASSUME TypeOK, CustodyInv, [Next]_vars
  PROVE  CirculationAccounted'
<1>1. \A u \in Updates : Accounted(u) => Accounted(u)'
  BY AccountedStable DEF CustodyInv
<1>2. \A u \in Range(queue) : u \in Updates /\ Accounted(u)
  BY DEF TypeOK, WorkerTypes, CustodyInv, CirculationAccounted, Range
<1>3. wpc # "idle" => wcur \in Updates /\ Accounted(wcur)
  BY DEF TypeOK, WorkerTypes, CustodyInv, CirculationAccounted
<1>4. SUFFICES /\ \A u \in Range(queue') : u \in Updates /\ Accounted(u)
               /\ wpc' = "idle" \/ (wcur' \in Updates /\ \A u \in Updates : u = wcur' => Accounted(u))
  BY <1>1 DEF CirculationAccounted, Range
<1>5. CASE UNCHANGED <<queue, workVars>>
  BY <1>2, <1>3, <1>5 DEF workVars
<1>6. ASSUME NEW v \in Updates, Submit(v), UNCHANGED workVars
      PROVE  /\ \A u \in Range(queue') : u \in Updates /\ Accounted(u)
             /\ wpc' = "idle" \/ (wcur' \in Updates /\ \A u \in Updates : u = wcur' => Accounted(u))
  BY <1>2, <1>3, <1>6, SubmitRange DEF workVars
<1>7. CASE PollerSubmit
  BY <1>6, <1>7, CurrentIsUpdate DEF PollerSubmit
<1>8. ASSUME NEW t \in Replayers, ReplaySubmit(t)
      PROVE  /\ \A u \in Range(queue') : u \in Updates /\ Accounted(u)
             /\ wpc' = "idle" \/ (wcur' \in Updates /\ \A u \in Updates : u = wcur' => Accounted(u))
  <2>1. PICK r \in snap[t] : Submit(r[2])
    BY <1>8 DEF ReplaySubmit
  <2>2. r[2] \in Updates
    BY <2>1 DEF TypeOK, ReplayTypes, Stamps
  <2>3. QED
    BY <1>6, <1>8, <2>1, <2>2 DEF ReplaySubmit
<1>9. CASE Take
  <2>1. Range(queue') \subseteq Range(queue) /\ wcur' \in Range(queue)
    BY <1>9, TailRange DEF Take, TypeOK, WorkerTypes
  <2>2. QED
    BY <1>2, <2>1
<1>10. CASE InjectTimesOut \/ HandleDelivers \/ HandleFails \/ DeleteRecord \/ ReleaseClaim \/ Unclaim \/ CountFailure
            \/ GiveUp \/ Bury
  <2>1. queue' = queue
    BY <1>10 DEF InjectTimesOut, HandleDelivers, HandleFails, DeleteRecord, ReleaseClaim, Unclaim,
       CountFailure, GiveUp, Bury, memVars
  <2>2. wpc # "idle" /\ (wpc' = "idle" \/ wcur' = wcur)
    BY <1>10 DEF InjectTimesOut, HandleDelivers, HandleFails, DeleteRecord, ReleaseClaim, Unclaim,
       CountFailure, GiveUp, Bury, Rest, workVars
  <2>3. QED
    BY <1>2, <1>3, <2>1, <2>2
<1>11. CASE Restart
  <2>1. queue' = <<>> /\ wpc' = "idle"
    BY <1>11 DEF Restart
  <2>2. QED
    BY <2>1 DEF Range
<1>12. CASE GetUpdates \/ SkipProcessed \/ Reserve \/ ReserveFails \/ SaveOffset
            \/ PollerSubmitFails \/ MarkProcessed \/ ReplaySubmitFails \/ UNCHANGED vars
  BY <1>5, <1>12 DEF GetUpdates, SkipProcessed, Reserve, ReserveFails, SaveOffset,
     PollerSubmitFails, MarkProcessed, ReplaySubmitFails, memVars, workVars, vars
<1>13. CASE \E t \in Replayers : ReplaySnapshot(t) \/ ReplayFilter(t)
  BY <1>5, <1>13 DEF ReplaySnapshot, ReplayFilter, memVars, workVars
<1>14. QED
  BY <1>7, <1>8, <1>9, <1>10, <1>11, <1>12, <1>13 DEF Next, Poller, Replay, Worker

\* The worker is right about the record it holds: the store lock keeps maintenance away
\* from a record that is being moved, and nobody else deletes or moves a pending one.
LEMMA WorkerStep ==
  ASSUME TypeOK, CustodyInv, [Next]_vars
  PROVE  WorkerKnowsRecord'
<1>1. CASE UNCHANGED <<workVars, disk, handled>>
  BY <1>1 DEF workVars, CustodyInv, WorkerKnowsRecord
<1>2. ASSUME StoreFree, Maintain({}), UNCHANGED <<workVars, handled>>
      PROVE  WorkerKnowsRecord'
  BY <1>2 DEF StoreFree, Maintain, Dying, workVars, CustodyInv, WorkerKnowsRecord, TypeOK,
     WorkerTypes, DiskTypes
<1>3. ASSUME NEW v \in Updates, Submit(v), UNCHANGED <<workVars, handled>>
      PROVE  WorkerKnowsRecord'
  BY <1>1, <1>2, <1>3 DEF Submit
<1>4. CASE PollerSubmit
  BY <1>3, <1>4, CurrentIsUpdate DEF PollerSubmit, histVars
<1>5. ASSUME NEW t \in Replayers, Replay(t)
      PROVE  WorkerKnowsRecord'
  <2>1. CASE ReplaySnapshot(t)
    BY <1>1, <1>2, <2>1 DEF ReplaySnapshot, histVars
  <2>2. CASE ReplayFilter(t)
    BY <1>1, <2>2 DEF ReplayFilter, diskVars, histVars
  <2>3. CASE ReplaySubmit(t)
    <3>1. PICK r \in snap[t] : Submit(r[2])
      BY <2>3 DEF ReplaySubmit
    <3>2. r[2] \in Updates
      BY <3>1 DEF TypeOK, ReplayTypes, Stamps
    <3>3. QED
      BY <1>3, <2>3, <3>1, <3>2 DEF ReplaySubmit, histVars
  <2>4. QED
    BY <1>5, <2>1, <2>2, <2>3 DEF Replay
<1>6. CASE Reserve
  <2>1. \A u \in Updates : disk[u] # "none" => disk'[u] = disk[u]
    BY <1>6 DEF Reserve, TypeOK, DiskTypes
  <2>2. QED
    BY <1>6, <2>1 DEF Reserve, workVars, CustodyInv, WorkerKnowsRecord, TypeOK, WorkerTypes
<1>7. CASE GetUpdates \/ SkipProcessed \/ ReserveFails \/ SaveOffset \/ PollerSubmitFails
           \/ MarkProcessed \/ ReplaySubmitFails \/ UNCHANGED vars
  BY <1>1, <1>7 DEF GetUpdates, SkipProcessed, ReserveFails, SaveOffset, PollerSubmitFails,
     MarkProcessed, ReplaySubmitFails, diskVars, histVars, vars
<1>8. CASE HandleDelivers \/ InjectTimesOut
  BY <1>8 DEF HandleDelivers, InjectTimesOut, workVars, WorkerKnowsRecord, TypeOK, WorkerTypes, HistoryTypes
<1>9. CASE CountFailure
  BY <1>9 DEF CountFailure, Rest, WorkerKnowsRecord
<1>10. CASE GiveUp
  BY <1>10 DEF GiveUp, Rest, WorkerKnowsRecord, TypeOK, WorkerTypes, DiskTypes
<1>11. CASE Take \/ HandleFails \/ DeleteRecord \/ ReleaseClaim \/ Unclaim \/ Bury \/ Restart
  BY <1>11 DEF Take, HandleFails, DeleteRecord, ReleaseClaim, Unclaim, Bury, Restart, Rest,
     WorkerKnowsRecord
<1>12. QED
  BY <1>4, <1>5, <1>6, <1>7, <1>8, <1>9, <1>10, <1>11 DEF Next, Poller, Worker

\* CustodyInv is an invariant.
THEOREM CustodyKept == Spec => []CustodyInv
<1>1. Init => CustodyInv
  BY DEF Init, CustodyInv, OffsetsSettled, BatchSettled, CurrentStored, LedgersAccounted,
     CirculationAccounted, WorkerKnowsRecord, Updates
<1>2. TypeOK /\ CustodyInv /\ [Next]_vars => CustodyInv'
  BY OffsetsStep, BatchStep, LedgersStep, CirculationStep, WorkerStep DEF CustodyInv
<1>3. QED
  BY <1>1, <1>2, TypeCorrect, PTL DEF Spec

\* Nothing Telegram was told to forget is lost: through every interleaving of the three
\* threads, every failing disk operation and every crash it is on disk, in the
\* dead-letter directory or handled, unless its last write failed.
THEOREM NothingConfirmedIsLost == Spec => []ConfirmedAccounted
<1>1. CustodyInv => ConfirmedAccounted
  BY DEF CustodyInv, OffsetsSettled, Settled, ConfirmedAccounted
<1>2. QED
  BY <1>1, CustodyKept, PTL
-----------------------------------------------------------------------------
(* Refinement of UpdateCustody *)

\* Maintenance buries.
LEMMA MaintainBuries ==
  ASSUME TypeOK, NEW expired \in SUBSET Pending, Maintain(expired),
         UNCHANGED <<confirmed, handled, refused>>
  PROVE  Custody!CustodyNext
<1>1. PICK S \in SUBSET Updates : S = Dying \cup expired
  BY DEF Dying, Pending
<1>2. S \subseteq {u \in Updates : disk[u] # "none"}
  BY <1>1 DEF Dying, Pending
<1>3. {u \in Updates : disk'[u] # "none"} = {u \in Updates : disk[u] # "none"} \ S
  BY <1>1 DEF Maintain
<1>4. dead' = dead \cup S
  BY <1>1 DEF Maintain
<1>5. Custody!Bury(S)
  BY <1>2, <1>3, <1>4 DEF Custody!Bury
<1>6. QED
  BY <1>5 DEF Custody!CustodyNext

\* Every step of the bridge is a step of the contract, or leaves it unchanged.
LEMMA CustodyStep ==
  ASSUME TypeOK, CustodyInv, [Next]_vars
  PROVE  [Custody!CustodyNext]_(Custody!custodyVars)
<1>1. CASE UNCHANGED <<confirmed, disk, dead, handled, refused>>
  BY <1>1 DEF Custody!custodyVars
<1>2. CASE GetUpdates
  <2>0. PICK S \in SUBSET Updates : S = {u \in Updates : u >= confirmed /\ ~(u >= confirmed')}
    OBVIOUS
  <2>1. confirmed' = MaxOf(confirmed, offset) /\ UNCHANGED <<disk, dead, handled, refused>>
    BY <1>2 DEF GetUpdates, diskVars, histVars
  <2>2. \A u \in S : u < offset
    BY <2>0, <2>1 DEF MaxOf, Updates, TypeOK, PollerTypes
  <2>3. \A u \in S : Settled(u)
    BY <2>2 DEF CustodyInv, OffsetsSettled
  <2>4. \A u \in Updates : u >= confirmed' => u >= confirmed
    BY <2>1 DEF MaxOf, Updates, TypeOK, PollerTypes
  <2>5. {u \in Updates : u >= confirmed'} = {u \in Updates : u >= confirmed} \ S
    BY <2>0, <2>4
  <2>6. \A u \in S : \/ u \in {v \in Updates : disk[v] # "none"}
                     \/ u \in {v \in Updates : handled[v] > 0}
                     \/ u \in dead \/ u \in refused
    BY <2>3 DEF Settled, Accounted
  <2>7. Custody!Confirm(S)
    BY <2>1, <2>5, <2>6 DEF Custody!Confirm, Custody!InCustody
  <2>8. QED
    BY <2>7 DEF Custody!CustodyNext
<1>3. CASE Reserve
  <2>1. cur \in Updates /\ cur >= confirmed
    BY <1>3, CurrentIsUpdate DEF Reserve, CustodyInv, BatchSettled, TypeOK, PollerTypes, Updates
  <2>2. {u \in Updates : disk'[u] # "none"} = {u \in Updates : disk[u] # "none"} \cup {cur}
    BY <1>3, <2>1 DEF Reserve, TypeOK, DiskTypes
  <2>3. PICK u \in Updates : u = cur
    BY <2>1
  <2>4. Custody!Keep(u)
    BY <1>3, <2>1, <2>2, <2>3 DEF Reserve, Custody!Keep
  <2>5. QED
    BY <2>4 DEF Custody!CustodyNext
<1>4. CASE ReserveFails
  <2>1. cur \in Updates /\ cur >= confirmed
    BY <1>4, CurrentIsUpdate DEF ReserveFails, CustodyInv, BatchSettled, TypeOK, PollerTypes, Updates
  <2>2. PICK u \in Updates : u = cur
    BY <2>1
  <2>3. Custody!Refuse(u)
    BY <1>4, <2>1, <2>2 DEF ReserveFails, Custody!Refuse, diskVars
  <2>4. QED
    BY <2>3 DEF Custody!CustodyNext
<1>5. ASSUME Maintain({}), UNCHANGED <<confirmed, handled, refused>>
      PROVE  Custody!CustodyNext
  BY <1>5, MaintainBuries
<1>6. ASSUME NEW v \in Updates, Submit(v), UNCHANGED <<confirmed, handled, refused>>
      PROVE  [Custody!CustodyNext]_(Custody!custodyVars)
  BY <1>1, <1>5, <1>6 DEF Submit
<1>7. CASE PollerSubmit
  BY <1>6, <1>7, CurrentIsUpdate DEF PollerSubmit, histVars
<1>8. ASSUME NEW t \in Replayers, Replay(t)
      PROVE  [Custody!CustodyNext]_(Custody!custodyVars)
  <2>1. CASE ReplaySnapshot(t)
    BY <1>1, <1>5, <2>1 DEF ReplaySnapshot, histVars
  <2>2. CASE ReplayFilter(t)
    BY <1>1, <2>2 DEF ReplayFilter, diskVars, histVars
  <2>3. CASE ReplaySubmit(t)
    <3>1. PICK r \in snap[t] : Submit(r[2])
      BY <2>3 DEF ReplaySubmit
    <3>2. r[2] \in Updates
      BY <3>1 DEF TypeOK, ReplayTypes, Stamps
    <3>3. QED
      BY <1>6, <2>3, <3>1, <3>2 DEF ReplaySubmit, histVars
  <2>4. QED
    BY <1>8, <2>1, <2>2, <2>3 DEF Replay
<1>9. CASE HandleDelivers \/ InjectTimesOut
  <2>1. wcur \in Updates /\ Accounted(wcur)
    BY <1>9 DEF HandleDelivers, InjectTimesOut, CustodyInv, CirculationAccounted, TypeOK, WorkerTypes
  <2>2. {u \in Updates : handled'[u] > 0} = {u \in Updates : handled[u] > 0} \cup {wcur}
    BY <1>9, <2>1 DEF HandleDelivers, InjectTimesOut, TypeOK, HistoryTypes
  <2>3. PICK u \in Updates : u = wcur
    BY <2>1
  <2>4. Custody!Deliver(u)
    BY <1>9, <2>1, <2>2, <2>3 DEF HandleDelivers, InjectTimesOut, Accounted, Custody!Deliver, diskVars
  <2>5. QED
    BY <2>4 DEF Custody!CustodyNext
<1>10. CASE DeleteRecord
  <2>1. wcur \in Updates /\ handled[wcur] > 0 /\ UNCHANGED <<confirmed, dead, handled, refused>>
    BY <1>10 DEF DeleteRecord, CustodyInv, WorkerKnowsRecord, TypeOK, WorkerTypes, histVars
  <2>2. CASE disk' = disk
    BY <1>1, <2>1, <2>2
  <2>3. CASE disk' = [disk EXCEPT ![wcur] = "none"]
    <3>1. {u \in Updates : disk'[u] # "none"} = {u \in Updates : disk[u] # "none"} \ {wcur}
      BY <2>1, <2>3 DEF TypeOK, DiskTypes
    <3>2. CASE disk[wcur] = "none"
      <4>1. {u \in Updates : disk'[u] # "none"} = {u \in Updates : disk[u] # "none"}
        BY <3>1, <3>2
      <4>2. QED
        BY <2>1, <4>1 DEF Custody!custodyVars
    <3>3. CASE disk[wcur] # "none"
      <4>1. PICK u \in Updates : u = wcur
        BY <2>1
      <4>2. Custody!Release(u)
        BY <2>1, <3>1, <3>3, <4>1 DEF Custody!Release
      <4>3. QED
        BY <4>2 DEF Custody!CustodyNext
    <3>4. QED
      BY <3>2, <3>3
  <2>4. QED
    BY <1>10, <2>2, <2>3 DEF DeleteRecord
<1>11. CASE GiveUp
  <2>1. {u \in Updates : disk'[u] # "none"} = {u \in Updates : disk[u] # "none"}
    BY <1>11 DEF GiveUp, CustodyInv, WorkerKnowsRecord, TypeOK, WorkerTypes, DiskTypes
  <2>2. QED
    BY <1>11, <2>1 DEF GiveUp, histVars, Custody!custodyVars
<1>12. CASE Bury
  <2>1. wcur \in Updates /\ disk[wcur] = "dying" /\ UNCHANGED <<confirmed, handled, refused>>
    BY <1>12 DEF Bury, CustodyInv, WorkerKnowsRecord, TypeOK, WorkerTypes, histVars
  <2>2. CASE UNCHANGED <<disk, dead>>
    BY <1>1, <2>1, <2>2
  <2>3. CASE disk' = [disk EXCEPT ![wcur] = "none"] /\ dead' = dead \cup {wcur}
    <3>1. {u \in Updates : disk'[u] # "none"} = {u \in Updates : disk[u] # "none"} \ {wcur}
      BY <2>1, <2>3 DEF TypeOK, DiskTypes
    <3>2. PICK S \in SUBSET Updates : S = {wcur}
      BY <2>1
    <3>3. Custody!Bury(S)
      BY <2>1, <2>3, <3>1, <3>2 DEF Custody!Bury
    <3>4. QED
      BY <3>3 DEF Custody!CustodyNext
  <2>4. QED
    BY <1>12, <2>2, <2>3 DEF Bury
<1>13. CASE Restart
  <2>1. PICK expired \in SUBSET Pending : Maintain(expired)
    BY <1>13 DEF Restart
  <2>2. UNCHANGED <<confirmed, handled, refused>>
    BY <1>13 DEF Restart
  <2>3. QED
    BY <2>1, <2>2, MaintainBuries
<1>14. CASE SkipProcessed \/ SaveOffset \/ PollerSubmitFails \/ MarkProcessed \/ ReplaySubmitFails
            \/ UNCHANGED vars
  BY <1>1, <1>14 DEF SkipProcessed, SaveOffset, PollerSubmitFails, MarkProcessed,
     ReplaySubmitFails, diskVars, histVars, vars
<1>15. CASE Take \/ HandleFails \/ ReleaseClaim \/ Unclaim \/ CountFailure
  BY <1>1, <1>15 DEF Take, HandleFails, ReleaseClaim, Unclaim, CountFailure, diskVars, histVars
<1>16. QED
  BY <1>2, <1>3, <1>4, <1>7, <1>8, <1>9, <1>10, <1>11, <1>12, <1>13, <1>14, <1>15
  DEF Next, Poller, Worker

\* The bridge implements the custody contract of UpdateCustody.tla.
THEOREM ImplementsCustody == Spec => KeepsCustody
<1>1. Init => Custody!CustodyInit
  BY DEF Init, Custody!CustodyInit, Updates
<1>2. QED
  BY <1>1, CustodyStep, TypeCorrect, CustodyKept, PTL DEF Spec, KeepsCustody, Custody!CustodySpec
-----------------------------------------------------------------------------
(* Claims *)

\* What circulates is changed by a submission, by the worker and by a restart only.
LEMMA CirculationChanges ==
  ASSUME TypeOK, [Next]_vars
  PROVE  \/ UNCHANGED <<claims, queue, wpc, wcur>>
         \/ (\E u \in Updates : Submit(u)) /\ UNCHANGED <<wpc, wcur>>
         \/ Worker
         \/ Restart
<1>1. CASE PollerSubmit
  BY <1>1, CurrentIsUpdate DEF PollerSubmit, workVars
<1>2. ASSUME NEW t \in Replayers, Replay(t)
      PROVE  \/ UNCHANGED <<claims, queue, wpc, wcur>>
             \/ (\E u \in Updates : Submit(u)) /\ UNCHANGED <<wpc, wcur>>
  <2>1. CASE ReplaySubmit(t)
    <3>1. PICK r \in snap[t] : Submit(r[2])
      BY <2>1 DEF ReplaySubmit
    <3>2. r[2] \in Updates
      BY <3>1 DEF TypeOK, ReplayTypes, Stamps
    <3>3. QED
      BY <2>1, <3>1, <3>2 DEF ReplaySubmit, workVars
  <2>2. QED
    BY <1>2, <2>1 DEF Replay, ReplaySnapshot, ReplayFilter, memVars, workVars
<1>3. CASE GetUpdates \/ SkipProcessed \/ Reserve \/ ReserveFails \/ SaveOffset
           \/ PollerSubmitFails \/ MarkProcessed \/ ReplaySubmitFails \/ UNCHANGED vars
  BY <1>3 DEF GetUpdates, SkipProcessed, Reserve, ReserveFails, SaveOffset, PollerSubmitFails,
     MarkProcessed, ReplaySubmitFails, memVars, workVars, vars
<1>4. QED
  BY <1>1, <1>2, <1>3 DEF Next, Poller

\* Indices of a queue that grew by one or lost its first.
LEMMA AppendIndices ==
  ASSUME NEW S, NEW s \in Seq(S), NEW x \in S
  PROVE  /\ DOMAIN s = 1 .. Len(s) /\ Len(s) \in Nat
         /\ DOMAIN Append(s, x) = 1 .. Len(s) + 1
         /\ \A i \in 1 .. Len(s) : Append(s, x)[i] = s[i]
         /\ Append(s, x)[Len(s) + 1] = x
BY AppendProperties, LenProperties

LEMMA TailIndices ==
  ASSUME NEW S, NEW s \in Seq(S), s # <<>>
  PROVE  /\ DOMAIN s = 1 .. Len(s) /\ Len(s) \in Nat /\ 1 \in DOMAIN s /\ Head(s) = s[1]
         /\ DOMAIN Tail(s) = 1 .. Len(s) - 1
         /\ \A i \in 1 .. Len(s) - 1 : i + 1 \in DOMAIN s /\ Tail(s)[i] = s[i + 1]
<1>1. Len(s) \in Nat /\ DOMAIN s = 1 .. Len(s) /\ Len(s) # 0
  BY LenProperties, EmptySeq
<1>2. Tail(s) \in Seq(S) /\ Len(Tail(s)) = Len(s) - 1
  BY HeadTailProperties
<1>3. DOMAIN Tail(s) = 1 .. Len(s) - 1
  BY <1>2, LenProperties
<1>4. \A i \in 1 .. Len(s) - 1 : i + 1 \in DOMAIN s /\ Tail(s)[i] = s[i + 1]
  BY <1>1, HeadTailProperties
<1>5. QED
  BY <1>1, <1>3, <1>4, HeadTailProperties

\* Submission queues a record only when it does not circulate yet.
LEMMA SubmitClaims ==
  ASSUME TypeOK, ClaimsCirculateOnce, NEW u \in Updates, Submit(u), UNCHANGED <<wpc, wcur>>
  PROVE  ClaimsCirculateOnce'
<1>1. queue \in Seq(Updates)
  BY DEF TypeOK, WorkerTypes
<1>2. HeldByWorker' = HeldByWorker
  BY DEF HeldByWorker
<1>3. CASE UNCHANGED <<claims, queue>>
  BY <1>2, <1>3 DEF ClaimsCirculateOnce
<1>4. CASE u \notin claims /\ claims' = claims \cup {u} /\ queue' = Append(queue, u)
  <2>1. Range(queue') = Range(queue) \cup {u}
    BY <1>1, <1>4, AppendRange
  <2>2. u \notin Range(queue) /\ u \notin HeldByWorker
    BY <1>4 DEF ClaimsCirculateOnce
  <2>3. \A i \in 1 .. Len(queue) : queue[i] # u
    BY <1>1, <2>2, AppendIndices DEF Range
  <2>4. \A i, j \in 1 .. Len(queue) + 1 : queue'[i] = queue'[j] => i = j
    <3> SUFFICES ASSUME NEW i \in 1 .. Len(queue) + 1, NEW j \in 1 .. Len(queue) + 1,
                        queue'[i] = queue'[j]
                 PROVE  i = j
      OBVIOUS
    <3>1. Len(queue) \in Nat
      BY <1>1, AppendIndices
    <3>2. CASE i \in 1 .. Len(queue) /\ j \in 1 .. Len(queue)
      BY <1>1, <1>4, <3>2, AppendIndices DEF ClaimsCirculateOnce
    <3>3. CASE i = Len(queue) + 1 /\ j \in 1 .. Len(queue)
      BY <1>1, <1>4, <2>3, <3>3, AppendIndices
    <3>4. CASE j = Len(queue) + 1 /\ i \in 1 .. Len(queue)
      BY <1>1, <1>4, <2>3, <3>4, AppendIndices
    <3>5. QED
      BY <3>1, <3>2, <3>3, <3>4
  <2>5. DOMAIN queue' = 1 .. Len(queue) + 1
    BY <1>1, <1>4, AppendIndices
  <2>6. QED
    BY <1>2, <1>4, <2>1, <2>2, <2>4, <2>5 DEF ClaimsCirculateOnce
<1>5. QED
  BY <1>3, <1>4 DEF Submit

\* The worker takes the claim of the record over with the record.
LEMMA TakeClaims ==
  ASSUME TypeOK, ClaimsCirculateOnce, Take
  PROVE  ClaimsCirculateOnce'
<1>1. queue \in Seq(Updates) /\ queue # <<>>
  BY DEF Take, TypeOK, WorkerTypes
<1>2. wcur' = queue[1] /\ queue' = Tail(queue) /\ claims' = claims /\ HeldByWorker = {}
      /\ HeldByWorker' = {wcur'}
  BY <1>1, TailIndices DEF Take, HeldByWorker
<1>3. DOMAIN queue' = 1 .. Len(queue) - 1
      /\ \A i \in 1 .. Len(queue) - 1 : i + 1 \in DOMAIN queue /\ queue'[i] = queue[i + 1]
  BY <1>1, <1>2, TailIndices
<1>4. DOMAIN queue = 1 .. Len(queue) /\ Len(queue) \in Nat /\ 1 \in DOMAIN queue
  BY <1>1, TailIndices
<1>5. \A i, j \in DOMAIN queue' : queue'[i] = queue'[j] => i = j
  <2> SUFFICES ASSUME NEW i \in DOMAIN queue', NEW j \in DOMAIN queue', queue'[i] = queue'[j]
               PROVE  i = j
    OBVIOUS
  <2>1. queue[i + 1] = queue[j + 1] /\ i + 1 \in DOMAIN queue /\ j + 1 \in DOMAIN queue
    BY <1>3
  <2>2. i + 1 = j + 1
    BY <2>1 DEF ClaimsCirculateOnce
  <2>3. QED
    BY <1>3, <1>4, <2>2
<1>6. wcur' \notin Range(queue')
  <2> SUFFICES ASSUME NEW i \in DOMAIN queue', queue'[i] = wcur'
               PROVE  FALSE
    BY DEF Range
  <2>1. queue[i + 1] = queue[1] /\ i + 1 \in DOMAIN queue
    BY <1>2, <1>3
  <2>2. i + 1 = 1
    BY <1>4, <2>1 DEF ClaimsCirculateOnce
  <2>3. QED
    BY <1>3, <1>4, <2>2
<1>7. Range(queue) = Range(queue') \cup {wcur'}
  <2>1. Range(queue') \cup {wcur'} \subseteq Range(queue)
    BY <1>2, <1>3, <1>4 DEF Range
  <2>2. ASSUME NEW k \in DOMAIN queue
        PROVE  queue[k] \in Range(queue') \cup {wcur'}
    <3>1. CASE k = 1
      BY <1>2, <3>1
    <3>2. CASE k # 1
      <4>1. PICK i \in 1 .. Len(queue) - 1 : k = i + 1
        BY <1>4, <3>2
      <4>2. QED
        BY <1>3, <4>1 DEF Range
    <3>3. QED
      BY <3>1, <3>2
  <2>3. QED
    BY <2>1, <2>2 DEF Range
<1>8. QED
  BY <1>2, <1>5, <1>6, <1>7 DEF ClaimsCirculateOnce

\* Every claim is in the queue or with the worker, and nothing circulates twice: no claim
\* leaks, whatever fails and whoever replays (_inflight_ids, _submit_inbound_update).
THEOREM ClaimsCirculate == Spec => []ClaimsCirculateOnce
<1>1. Init => ClaimsCirculateOnce
  BY DEF Init, ClaimsCirculateOnce, HeldByWorker, Range
<1>2. ASSUME TypeOK, ClaimsCirculateOnce, [Next]_vars
      PROVE  ClaimsCirculateOnce'
  <2>1. CASE UNCHANGED <<claims, queue, wpc, wcur>>
    BY <1>2, <2>1 DEF ClaimsCirculateOnce, HeldByWorker
  <2>2. CASE (\E u \in Updates : Submit(u)) /\ UNCHANGED <<wpc, wcur>>
    BY <1>2, <2>2, SubmitClaims
  <2>3. CASE Take
    BY <1>2, <2>3, TakeClaims
  <2>4. CASE HandleDelivers \/ HandleFails \/ InjectTimesOut \/ DeleteRecord \/ CountFailure
             \/ GiveUp \/ Bury
    <3>1. UNCHANGED <<claims, queue>>
      BY <2>4 DEF HandleDelivers, HandleFails, InjectTimesOut, DeleteRecord, CountFailure, GiveUp,
         Bury, memVars
    <3>2. HeldByWorker' = HeldByWorker
      BY <2>4 DEF HandleDelivers, HandleFails, InjectTimesOut, DeleteRecord, CountFailure, GiveUp,
         Bury, Rest, HeldByWorker, workVars
    <3>3. QED
      BY <1>2, <3>1, <3>2 DEF ClaimsCirculateOnce
  <2>5. CASE ReleaseClaim \/ Unclaim
    <3>1. claims' = claims \ {wcur} /\ queue' = queue
      BY <2>5 DEF ReleaseClaim, Unclaim
    <3>2. HeldByWorker = {wcur} /\ HeldByWorker' = {}
      BY <2>5 DEF ReleaseClaim, Unclaim, Rest, HeldByWorker
    <3>3. QED
      BY <1>2, <3>1, <3>2 DEF ClaimsCirculateOnce
  <2>6. CASE Restart
    BY <2>6 DEF Restart, ClaimsCirculateOnce, HeldByWorker, Range
  <2>7. QED
    BY <1>2, <2>1, <2>2, <2>3, <2>4, <2>5, <2>6, CirculationChanges DEF Worker
<1>3. QED
  BY <1>1, <1>2, TypeCorrect, PTL DEF Spec
-----------------------------------------------------------------------------
(* Burial *)

\* A record marked dead has used up its attempts, and so has the one about to be marked.
Exhausted ==
  /\ \A u \in Updates : disk[u] = "dying" => attempts[u] >= MaxAttempts
  /\ wpc = "giveup" => attempts[wcur] >= MaxAttempts

\* The disk changes by a new record, by maintenance, by the worker and by a restart only.
LEMMA DiskChanges ==
  ASSUME TypeOK, [Next]_vars
  PROVE  \/ UNCHANGED <<disk, dead, attempts, wpc, wcur, born, clock>>
         \/ Reserve
         \/ StoreFree /\ Maintain({}) /\ UNCHANGED <<attempts, wpc, wcur, handled, born, clock>>
         \/ Worker
         \/ Restart
<1>1. ASSUME NEW u \in Updates, Submit(u)
      PROVE  UNCHANGED <<disk, dead>> \/ (StoreFree /\ Maintain({}))
  BY <1>1 DEF Submit
<1>2. CASE PollerSubmit
  BY <1>1, <1>2, CurrentIsUpdate DEF PollerSubmit, workVars, histVars
<1>3. ASSUME NEW t \in Replayers, Replay(t)
      PROVE  \/ UNCHANGED <<disk, dead, attempts, wpc, wcur, born, clock>>
             \/ StoreFree /\ Maintain({}) /\ UNCHANGED <<attempts, wpc, wcur, handled, born, clock>>
  <2>1. CASE ReplaySubmit(t)
    <3>1. PICK r \in snap[t] : Submit(r[2])
      BY <2>1 DEF ReplaySubmit
    <3>2. r[2] \in Updates
      BY <3>1 DEF TypeOK, ReplayTypes, Stamps
    <3>3. QED
      BY <1>1, <2>1, <3>1, <3>2 DEF ReplaySubmit, workVars, histVars
  <2>2. CASE ReplaySnapshot(t)
    BY <2>2 DEF ReplaySnapshot, workVars, histVars
  <2>3. CASE ReplayFilter(t)
    BY <2>3 DEF ReplayFilter, diskVars, workVars, histVars
  <2>4. QED
    BY <1>3, <2>1, <2>2, <2>3 DEF Replay
<1>4. CASE GetUpdates \/ SkipProcessed \/ ReserveFails \/ SaveOffset
           \/ PollerSubmitFails \/ MarkProcessed \/ ReplaySubmitFails \/ UNCHANGED vars
  BY <1>4 DEF GetUpdates, SkipProcessed, ReserveFails, SaveOffset, PollerSubmitFails,
     MarkProcessed, ReplaySubmitFails, diskVars, workVars, vars
<1>5. QED
  BY <1>2, <1>3, <1>4 DEF Next, Poller

LEMMA ExhaustedStep ==
  ASSUME TypeOK, WorkerKnowsRecord, Exhausted, [Next]_vars
  PROVE  Exhausted'
<1> USE ConstantsAssumption
<1>1. CASE UNCHANGED <<disk, attempts, wpc, wcur>>
  BY <1>1 DEF Exhausted
<1>2. CASE Reserve
  <2>1. cur \in Updates
    BY <1>2, CurrentIsUpdate DEF Reserve
  <2>2. \A u \in Updates : disk[u] # "none" => attempts'[u] = attempts[u] /\ disk'[u] = disk[u]
    BY <1>2, <2>1 DEF Reserve, TypeOK, DiskTypes
  <2>3. \A u \in Updates : disk'[u] = "dying" => disk[u] = "dying"
    BY <1>2, <2>1 DEF Reserve, TypeOK, DiskTypes
  <2>4. wpc' = wpc /\ wcur' = wcur
    BY <1>2 DEF Reserve, workVars
  <2>5. wpc = "giveup" => wcur \in Updates /\ disk[wcur] # "none"
    BY DEF WorkerKnowsRecord, TypeOK, WorkerTypes
  <2>6. QED
    BY <2>2, <2>3, <2>4, <2>5 DEF Exhausted
<1>3. CASE Maintain({}) /\ UNCHANGED <<attempts, wpc, wcur>>
  BY <1>3 DEF Maintain, Dying, Exhausted
<1>4. CASE Take \/ InjectTimesOut \/ HandleDelivers \/ HandleFails \/ ReleaseClaim \/ Unclaim
  BY <1>4 DEF Take, InjectTimesOut, HandleDelivers, HandleFails, ReleaseClaim, Unclaim, Rest,
     diskVars, workVars, Exhausted
<1>5. CASE DeleteRecord
  BY <1>5 DEF DeleteRecord, Exhausted, TypeOK, DiskTypes
<1>6. CASE CountFailure
  <2>1. wcur \in Updates /\ disk' = disk
    BY <1>6 DEF CountFailure, TypeOK, WorkerTypes
  <2>2. CASE attempts' = attempts /\ Rest
    BY <2>1, <2>2 DEF Rest, Exhausted
  <2>3. CASE attempts' = [attempts EXCEPT ![wcur] = @ + 1] /\ disk[wcur] = "pending"
    <3>1. \A u \in Updates : disk[u] = "dying" => attempts'[u] = attempts[u]
      BY <2>1, <2>3 DEF TypeOK, DiskTypes
    <3>2. wpc' = "giveup" => wcur' = wcur /\ attempts'[wcur] >= MaxAttempts
      BY <1>6, <2>3 DEF CountFailure, Rest
    <3>3. QED
      BY <2>1, <3>1, <3>2 DEF Exhausted
  <2>4. QED
    BY <1>6, <2>2, <2>3 DEF CountFailure
<1>7. CASE GiveUp
  <2>1. wcur \in Updates /\ attempts' = attempts /\ wpc' # "giveup" /\ attempts[wcur] >= MaxAttempts
    BY <1>7 DEF GiveUp, Rest, TypeOK, WorkerTypes, Exhausted
  <2>2. \A u \in Updates : u # wcur => disk'[u] = disk[u]
    BY <1>7 DEF GiveUp, TypeOK, DiskTypes
  <2>3. QED
    BY <2>1, <2>2 DEF Exhausted
<1>8. CASE Bury
  BY <1>8 DEF Bury, Rest, Exhausted, TypeOK, DiskTypes
<1>9. CASE Restart
  BY <1>9 DEF Restart, Maintain, Dying, Exhausted
<1>10. QED
  BY <1>1, <1>2, <1>3, <1>4, <1>5, <1>6, <1>7, <1>8, <1>9, DiskChanges DEF Worker

THEOREM ExhaustedInvariant == Spec => []Exhausted
<1>1. Init => Exhausted
  BY DEF Init, Exhausted
<1>2. TypeOK /\ CustodyInv /\ Exhausted /\ [Next]_vars => Exhausted'
  BY ExhaustedStep DEF CustodyInv
<1>3. QED
  BY <1>1, <1>2, TypeCorrect, CustodyKept, PTL DEF Spec

\* While the process runs, a record is buried only after INBOUND_MAX_ATTEMPTS failed
\* attempts, also by a maintenance that finishes the move of another thread.
THEOREM BurialEarned == Spec => BuriedAfterAllAttempts
<1> DEFINE Earned == \A u \in dead' \ dead : attempts[u] >= MaxAttempts \/ crashes' # crashes
<1>1. ASSUME TypeOK, CustodyInv, Exhausted, [Next]_vars
      PROVE  Earned
  <2>1. CASE dead' = dead
    BY <2>1
  <2>2. CASE Maintain({})
    BY <1>1, <2>2 DEF Maintain, Dying, Exhausted
  <2>3. CASE Bury
    <3>1. wcur \in Updates /\ disk[wcur] = "dying" /\ dead' \subseteq dead \cup {wcur}
      BY <1>1, <2>3 DEF Bury, CustodyInv, WorkerKnowsRecord, TypeOK, WorkerTypes
    <3>2. QED
      BY <1>1, <3>1 DEF Exhausted
  <2>4. CASE Restart
    BY <1>1, <2>4 DEF Restart, TypeOK, HistoryTypes
  <2>5. CASE Reserve \/ Worker
    BY <2>1, <2>3, <2>5 DEF Reserve, Worker, Take, InjectTimesOut, HandleDelivers, HandleFails,
       DeleteRecord, ReleaseClaim, Unclaim, CountFailure, GiveUp, diskVars
  <2>6. QED
    BY <1>1, <2>1, <2>2, <2>4, <2>5, DiskChanges
<1>2. TypeOK /\ CustodyInv /\ Exhausted /\ [Next]_vars => [Earned]_vars
  BY <1>1
<1>3. QED
  BY <1>2, TypeCorrect, CustodyKept, ExhaustedInvariant, PTL DEF Spec, BuriedAfterAllAttempts
-----------------------------------------------------------------------------
(* Once *)

\* Once per update, as long as nothing has failed and the process has not died: a handled
\* update has no record any more except in the worker's hands, it circulates no more, and
\* whatever was stored once lies behind the poller's offset, so it is never stored again.
Present(u) ==
  disk[u] # "none" \/ handled[u] > 0 \/ u \in Range(queue) \/ (wpc # "idle" /\ u = wcur)
BehindOffset(u) == u < offset \/ (ppc \in {"save", "submit", "mark"} /\ u = cur)
HandledOnce ==
  \A u \in Updates :
    /\ handled[u] <= 1
    /\ handled[u] > 0 => disk[u] = "none" \/ (wpc = "delete" /\ u = wcur)
    /\ handled[u] > 0 => u \notin Range(queue) /\ ~(wpc = "handle" /\ u = wcur)
PollerAhead ==
  /\ ppc # "poll" => offset <= cur
  /\ \A u \in Updates : Present(u) => BehindOffset(u)
Calm == crashes = 0 /\ faults = 0
Once == Calm => HandledOnce /\ PollerAhead

\* In a calm behaviour nothing has failed up to now.
LEMMA CalmBefore ==
  ASSUME TypeOK, [Next]_vars, Calm'
  PROVE  Calm /\ ~Restart /\ \A k : ~Fault(k)
<1>1. \A k : ~Fault(k)
  BY DEF Fault, Calm, TypeOK, HistoryTypes
<1>2. ~Restart
  BY DEF Restart, Calm, TypeOK, HistoryTypes
<1>3. faults' = faults
  BY <1>1, <1>2 DEF Next, Poller, GetUpdates, SkipProcessed, Reserve, ReserveFails, SaveOffset,
     PollerSubmit, PollerSubmitFails, SubmitFails, MarkProcessed, Replay, ReplaySnapshot,
     ReplayFilter, ReplaySubmit, ReplaySubmitFails, Worker, Take, InjectTimesOut, HandleDelivers,
     HandleFails, DeleteRecord, ReleaseClaim, Unclaim, CountFailure, GiveUp, Bury, vars
<1>4. crashes' = crashes
  BY <1>2 DEF Next, Poller, GetUpdates, SkipProcessed, Reserve, ReserveFails, SaveOffset,
     PollerSubmit, PollerSubmitFails, MarkProcessed, Replay, ReplaySnapshot,
     ReplayFilter, ReplaySubmit, ReplaySubmitFails, Worker, Take, InjectTimesOut, HandleDelivers,
     HandleFails, DeleteRecord, ReleaseClaim, Unclaim, CountFailure, GiveUp, Bury, vars, histVars
<1>5. QED
  BY <1>1, <1>2, <1>3, <1>4 DEF Calm

\* The place of the poller changes by its own steps only.
LEMMA PollerPlace ==
  ASSUME [Next]_vars, ~Restart
  PROVE  \/ UNCHANGED <<ppc, cur, offset>>
         \/ Poller
BY DEF Next, Replay, ReplaySnapshot, ReplayFilter, ReplaySubmit, ReplaySubmitFails, Worker, Take,
   InjectTimesOut, HandleDelivers, HandleFails, DeleteRecord, ReleaseClaim, Unclaim, CountFailure,
   GiveUp, Bury, vars, pollVars, offsetVars

\* The poller leaves nothing in front of its offset.
LEMMA OffsetAdvances ==
  ASSUME TypeOK, PollerAhead, Poller, \A k : ~Fault(k), NEW u \in Updates, BehindOffset(u)
  PROVE  BehindOffset(u)'
<1>1. CASE GetUpdates
  BY <1>1 DEF GetUpdates, BehindOffset, offsetVars, pollVars
<1>2. CASE SkipProcessed
  BY <1>2 DEF SkipProcessed, BehindOffset, NextOffset, MaxOf, TypeOK, PollerTypes, Updates
<1>3. CASE Reserve \/ SaveOffset \/ PollerSubmit
  BY <1>3 DEF Reserve, SaveOffset, PollerSubmit, BehindOffset, offsetVars
<1>4. CASE MarkProcessed
  BY <1>4 DEF MarkProcessed, BehindOffset, NextOffset, MaxOf, TypeOK, PollerTypes, Updates
<1>5. QED
  BY <1>1, <1>2, <1>3, <1>4 DEF Poller, ReserveFails, PollerSubmitFails, SubmitFails

\* It is never behind it either.
LEMMA PollerStaysAhead ==
  ASSUME TypeOK, PollerAhead, Poller, \A k : ~Fault(k)
  PROVE  ppc' # "poll" => offset' <= cur'
<1>1. CASE GetUpdates
  BY <1>1 DEF GetUpdates, PollerAhead, offsetVars, pollVars, MaxOf, TypeOK, PollerTypes
<1>2. CASE SkipProcessed \/ MarkProcessed
  BY <1>2 DEF SkipProcessed, MarkProcessed, PollerAhead, Advance, NextOffset, MaxOf, TypeOK,
     PollerTypes
<1>3. CASE Reserve \/ SaveOffset \/ PollerSubmit
  BY <1>3 DEF Reserve, SaveOffset, PollerSubmit, PollerAhead, offsetVars
<1>4. QED
  BY <1>1, <1>2, <1>3 DEF Poller, ReserveFails, PollerSubmitFails, SubmitFails

\* What a step makes present was present, or is what the poller just stored.
LEMMA PresentComes ==
  ASSUME TypeOK, [Next]_vars, ~Restart, NEW u \in Updates, Present(u)'
  PROVE  Present(u) \/ (Reserve /\ u = cur)
<1>1. disk'[u] # "none" => disk[u] # "none" \/ (Reserve /\ u = cur) \/ (GiveUp /\ u = wcur)
  <2>1. CASE Reserve
    BY <2>1, CurrentIsUpdate DEF Reserve, TypeOK, DiskTypes
  <2>2. CASE Maintain({})
    BY <2>2 DEF Maintain
  <2>3. CASE Worker
    <3>1. CASE DeleteRecord \/ GiveUp \/ Bury
      BY <3>1 DEF DeleteRecord, GiveUp, Bury, TypeOK, DiskTypes
    <3>2. QED
      BY <2>3, <3>1 DEF Worker, Take, InjectTimesOut, HandleDelivers, HandleFails, ReleaseClaim,
         Unclaim, CountFailure, diskVars
  <2>4. QED
    BY <2>1, <2>2, <2>3, DiskChanges
<1>2. handled'[u] > 0 => handled[u] > 0 \/ (wpc = "handle" /\ u = wcur)
  <2>1. CASE handled' = handled
    BY <2>1
  <2>2. CASE HandleDelivers \/ InjectTimesOut
    BY <2>2 DEF HandleDelivers, InjectTimesOut, TypeOK, HistoryTypes
  <2>3. QED
    BY <2>1, <2>2 DEF Next, Poller, GetUpdates, SkipProcessed, Reserve, ReserveFails, SaveOffset,
       PollerSubmit, PollerSubmitFails, MarkProcessed, Replay, ReplaySnapshot, ReplayFilter,
       ReplaySubmit, ReplaySubmitFails, Worker, Take, HandleFails, DeleteRecord, ReleaseClaim,
       Unclaim, CountFailure, GiveUp, Bury, vars, histVars
<1>3. /\ u \in Range(queue') => u \in Range(queue) \/ disk[u] # "none"
      /\ wpc' # "idle" /\ u = wcur' => u \in Range(queue) \/ (wpc # "idle" /\ u = wcur)
  <2>1. CASE UNCHANGED <<claims, queue, wpc, wcur>>
    BY <2>1
  <2>2. ASSUME NEW v \in Updates, Submit(v)
        PROVE  u \in Range(queue') => u \in Range(queue) \/ disk[u] # "none"
    <3>1. queue' = queue \/ (disk[v] = "pending" /\ queue' = Append(queue, v))
      BY <2>2 DEF Submit
    <3>2. Range(Append(queue, v)) = Range(queue) \cup {v}
      BY AppendRange DEF TypeOK, WorkerTypes
    <3>3. QED
      BY <3>1, <3>2
  <2>3. CASE Take
    <3>1. Range(queue') \subseteq Range(queue) /\ wcur' \in Range(queue)
      BY <2>3, TailRange DEF Take, TypeOK, WorkerTypes
    <3>2. QED
      BY <3>1
  <2>4. CASE InjectTimesOut \/ HandleDelivers \/ HandleFails \/ DeleteRecord \/ ReleaseClaim
             \/ Unclaim \/ CountFailure \/ GiveUp \/ Bury
    BY <2>4 DEF InjectTimesOut, HandleDelivers, HandleFails, DeleteRecord, ReleaseClaim, Unclaim,
       CountFailure, GiveUp, Bury, Rest, memVars, workVars
  <2>5. QED
    BY <2>1, <2>2, <2>3, <2>4, CirculationChanges DEF Worker
<1>4. (GiveUp /\ u = wcur) \/ (wpc = "handle" /\ u = wcur) => wpc # "idle" /\ u = wcur
  BY DEF GiveUp
<1>5. QED
  BY <1>1, <1>2, <1>3, <1>4 DEF Present

LEMMA PollerAheadStep ==
  ASSUME TypeOK, PollerAhead, [Next]_vars, ~Restart, \A k : ~Fault(k)
  PROVE  PollerAhead'
<1>1. ppc' # "poll" => offset' <= cur'
  BY PollerPlace, PollerStaysAhead DEF PollerAhead
<1>2. ASSUME NEW u \in Updates, BehindOffset(u)
      PROVE  BehindOffset(u)'
  BY <1>2, PollerPlace, OffsetAdvances DEF BehindOffset
<1>3. ASSUME NEW u \in Updates, Reserve, u = cur
      PROVE  BehindOffset(u)'
  BY <1>3 DEF Reserve, BehindOffset
<1>4. \A u \in Updates : Present(u)' => BehindOffset(u)'
  BY <1>2, <1>3, PresentComes DEF PollerAhead
<1>5. QED
  BY <1>1, <1>4 DEF PollerAhead

\* Nothing that was handled comes back.
LEMMA HandledOnceStep ==
  ASSUME TypeOK, CustodyInv, ClaimsCirculateOnce, HandledOnce, PollerAhead, [Next]_vars,
         ~Restart, \A k : ~Fault(k)
  PROVE  HandledOnce'
<1>1. CASE UNCHANGED <<disk, handled, queue, wpc, wcur>>
  BY <1>1 DEF HandledOnce
<1>2. CASE Reserve
  <2>1. cur \in Updates /\ ppc = "take"
    BY <1>2, CurrentIsUpdate DEF Reserve
  <2>2. ~BehindOffset(cur)
    BY <2>1 DEF BehindOffset, PollerAhead, TypeOK, PollerTypes
  <2>3. ~(handled[cur] > 0)
    BY <2>1, <2>2 DEF PollerAhead, Present
  <2>4. \A u \in Updates : u # cur => disk'[u] = disk[u]
    BY <1>2, <2>1 DEF Reserve, TypeOK, DiskTypes
  <2>5. UNCHANGED <<handled, queue, wpc, wcur>>
    BY <1>2 DEF Reserve, memVars, workVars
  <2>6. QED
    BY <2>3, <2>4, <2>5 DEF HandledOnce
<1>3. ASSUME Maintain({}), UNCHANGED <<handled, queue, wpc, wcur>>
      PROVE  HandledOnce'
  BY <1>3 DEF Maintain, HandledOnce
<1>4. ASSUME NEW v \in Updates, Submit(v), UNCHANGED <<handled, wpc, wcur>>
      PROVE  HandledOnce'
  <2>1. CASE queue' = queue
    <3>1. UNCHANGED <<disk, dead>> \/ Maintain({})
      BY <1>4 DEF Submit
    <3>2. QED
      BY <1>1, <1>3, <1>4, <2>1, <3>1
  <2>2. CASE v \notin claims /\ disk[v] = "pending" /\ Maintain({}) /\ queue' = Append(queue, v)
    <3>1. Range(queue') = Range(queue) \cup {v}
      BY <2>2, AppendRange DEF TypeOK, WorkerTypes
    <3>2. ~(wpc = "delete" /\ v = wcur)
      BY <2>2 DEF ClaimsCirculateOnce, HeldByWorker
    <3>3. ~(handled[v] > 0)
      BY <2>2, <3>2 DEF HandledOnce
    <3>4. \A u \in Updates : disk[u] = "none" => disk'[u] = "none"
      BY <2>2 DEF Maintain
    <3>5. QED
      BY <1>4, <3>1, <3>3, <3>4 DEF HandledOnce
  <2>3. QED
    BY <1>4, <2>1, <2>2 DEF Submit
<1>5. CASE PollerSubmit
  BY <1>4, <1>5, CurrentIsUpdate DEF PollerSubmit, workVars, histVars
<1>6. ASSUME NEW t \in Replayers, Replay(t)
      PROVE  HandledOnce'
  <2>1. CASE ReplaySubmit(t)
    <3>1. PICK r \in snap[t] : Submit(r[2])
      BY <2>1 DEF ReplaySubmit
    <3>2. r[2] \in Updates
      BY <3>1 DEF TypeOK, ReplayTypes, Stamps
    <3>3. QED
      BY <1>4, <2>1, <3>1, <3>2 DEF ReplaySubmit, workVars, histVars
  <2>2. CASE ReplaySnapshot(t)
    BY <1>1, <1>3, <2>2 DEF ReplaySnapshot, memVars, workVars, histVars
  <2>3. CASE ReplayFilter(t)
    BY <1>1, <2>3 DEF ReplayFilter, diskVars, memVars, workVars, histVars
  <2>4. QED
    BY <1>6, <2>1, <2>2, <2>3 DEF Replay
<1>7. CASE GetUpdates \/ SkipProcessed \/ SaveOffset \/ MarkProcessed \/ UNCHANGED vars
  BY <1>1, <1>7 DEF GetUpdates, SkipProcessed, SaveOffset, MarkProcessed, vars, diskVars, memVars,
     workVars, histVars
<1>8. CASE Take
  <2>1. Range(queue') \subseteq Range(queue) /\ wcur' \in Range(queue)
    BY <1>8, TailRange DEF Take, TypeOK, WorkerTypes
  <2>2. UNCHANGED <<disk, handled>> /\ wpc = "idle"
    BY <1>8 DEF Take, diskVars, histVars
  <2>3. QED
    BY <2>1, <2>2 DEF HandledOnce
<1>9. CASE HandleDelivers
  <2>1. wcur \in Updates /\ wpc = "handle" /\ wpc' = "delete" /\ UNCHANGED <<disk, queue, wcur>>
    BY <1>9 DEF HandleDelivers, TypeOK, WorkerTypes, diskVars, memVars
  <2>2. handled[wcur] = 0
    BY <2>1 DEF HandledOnce, TypeOK, HistoryTypes
  <2>3. wcur \notin Range(queue)
    BY <2>1 DEF ClaimsCirculateOnce, HeldByWorker
  <2>4. handled'[wcur] = 1 /\ \A u \in Updates : u # wcur => handled'[u] = handled[u]
    BY <1>9, <2>1, <2>2 DEF HandleDelivers, TypeOK, HistoryTypes
  <2>5. QED
    BY <2>1, <2>3, <2>4 DEF HandledOnce
<1>10. CASE HandleFails
  BY <1>10 DEF HandleFails, HandledOnce, diskVars, memVars, histVars
<1>11. CASE DeleteRecord
  <2>1. disk' = [disk EXCEPT ![wcur] = "none"] /\ wcur \in Updates /\ wpc' = "release"
        /\ UNCHANGED <<handled, queue, wcur>>
    BY <1>11 DEF DeleteRecord, TypeOK, WorkerTypes, memVars, histVars
  <2>2. disk'[wcur] = "none" /\ \A u \in Updates : u # wcur => disk'[u] = disk[u]
    BY <2>1 DEF TypeOK, DiskTypes
  <2>3. QED
    BY <2>1, <2>2 DEF HandledOnce
<1>12. CASE ReleaseClaim \/ Unclaim \/ CountFailure
  BY <1>12 DEF ReleaseClaim, Unclaim, CountFailure, Rest, HandledOnce, diskVars, memVars, histVars
<1>13. CASE GiveUp
  <2>1. wcur \in Updates /\ disk[wcur] = "pending" /\ wpc = "giveup" /\ wpc' \notin {"handle", "delete"}
        /\ UNCHANGED <<handled, queue>>
    BY <1>13 DEF GiveUp, Rest, CustodyInv, WorkerKnowsRecord, TypeOK, WorkerTypes, memVars, histVars
  <2>2. ~(handled[wcur] > 0)
    BY <2>1 DEF HandledOnce
  <2>3. \A u \in Updates : u # wcur => disk'[u] = disk[u]
    BY <1>13 DEF GiveUp, TypeOK, DiskTypes
  <2>4. QED
    BY <2>1, <2>2, <2>3 DEF HandledOnce
<1>14. CASE Bury
  BY <1>14 DEF Bury, Rest, HandledOnce, TypeOK, DiskTypes, memVars, histVars
<1>15. QED
  BY <1>2, <1>5, <1>6, <1>7, <1>8, <1>9, <1>10, <1>11, <1>12, <1>13, <1>14
  DEF Next, Poller, Worker, ReserveFails, PollerSubmitFails, ReplaySubmitFails, SubmitFails,
      InjectTimesOut

\* Without a crash and a failing operation no message reaches the session twice, however
\* the poller, the worker and the two replays interleave.
THEOREM NoMessageTwice == Spec => []NoDoubleDelivery
<1>1. Init => Once
  BY DEF Init, Once, HandledOnce, PollerAhead, Present, Range
<1>2. TypeOK /\ CustodyInv /\ ClaimsCirculateOnce /\ Once /\ [Next]_vars => Once'
  BY CalmBefore, HandledOnceStep, PollerAheadStep DEF Once
<1>3. Once => NoDoubleDelivery
  BY DEF Once, Calm, HandledOnce, NoDoubleDelivery
<1>4. QED
  BY <1>1, <1>2, <1>3, TypeCorrect, CustodyKept, ClaimsCirculate, PTL DEF Spec
-----------------------------------------------------------------------------
(* Order *)

\* Where the offsets are: memory and disk agree except between the write and the mark.
OffsetsAgree ==
  /\ confirmed <= offset /\ refused = {}
  /\ ppc \in {"poll", "take", "save"} => offset = offsetDisk
  /\ ppc \in {"take", "save"} => cur = MaxOf(1, offsetDisk)
  /\ ppc \in {"submit", "mark"} => offsetDisk = cur + 1 /\ offset <= cur + 1
  /\ ppc # "poll" => rpc["poller"] = "done"
  /\ rpc["poller"] = "done" => snap["poller"] = {}

\* Nothing was ever stored beyond the offset on disk, so the records were created in the
\* order of their ids, and the snapshots of replay know them in that order.
Ids(S) == {r[2] : r \in S}
StoredInOrder ==
  /\ \A u \in Updates : disk[u] # "none" => u <= MaxOf(1, offsetDisk) /\ born[u] <= clock
  /\ \A u, v \in Updates : v < u /\ disk[u] # "none" /\ disk[v] # "none" => born[v] < born[u]
  /\ \A t \in Replayers : \A r, s \in snap[t] :
       r[2] <= MaxOf(1, offsetDisk) /\ (s[2] < r[2] => s[1] < r[1])

\* An update that a later one may overtake; it stays so, because the record of a message
\* that has failed once does not vanish without a trace.
MayBeOvertaken(v) == handled[v] > 0 \/ v \in dead \/ attempts[v] > 0
FailedIsAccounted ==
  /\ \A v \in Updates : attempts[v] > 0 => Accounted(v)
  /\ wpc = "release" => handled[wcur] > 0

\* Replay and the poller submit a record only when every earlier pending one is already
\* in circulation, has failed once or comes first in the same snapshot.
Circulates(v) == v \in claims \/ (wpc = "count" /\ v = wcur)
Covered(v) == disk[v] = "pending" => MayBeOvertaken(v) \/ Circulates(v)
SnapshotsComplete ==
  \A t \in Replayers : \A r \in snap[t] : \A v \in Updates :
    v < r[2] => v \in Ids(snap[t]) \/ Covered(v)
PollerComplete ==
  rpc["poller"] # "ready" =>
    \A v \in Updates :
      v \in Ids(snap["poller"]) \/ Covered(v) \/ (ppc \in {"save", "submit"} /\ v = cur)

\* The queue is in order: what comes earlier than a queued update was overtaken by right,
\* is before it in the queue, or is what the worker holds.
InHand(v) == wpc \in {"handle", "unclaim", "count"} /\ v = wcur
Preceded(v, j) ==
  MayBeOvertaken(v) \/ InHand(v) \/ \E i \in DOMAIN queue : i < j /\ queue[i] = v
QueueInOrder ==
  /\ \A j \in DOMAIN queue : \A v \in Updates : v < queue[j] => Preceded(v, j)
  /\ wpc = "handle" => \A v \in Updates : v < wcur => MayBeOvertaken(v)
HandledInOrder ==
  \A u, v \in Updates : v < u /\ handled[u] > 0 => MayBeOvertaken(v)
InOrder ==
  /\ OffsetsAgree /\ StoredInOrder /\ FailedIsAccounted
  /\ SnapshotsComplete /\ PollerComplete /\ QueueInOrder /\ HandledInOrder
Order == faults = 0 => InOrder

\* As long as nothing fails, no step may take a failure branch.
LEMMA FaultlessBefore ==
  ASSUME TypeOK, [Next]_vars, faults' = 0
  PROVE  faults = 0 /\ \A k : ~Fault(k)
<1>1. \A k : ~Fault(k)
  BY DEF Fault, TypeOK, HistoryTypes
<1>2. faults' = faults
  BY <1>1 DEF Next, Poller, GetUpdates, SkipProcessed, Reserve, ReserveFails, SaveOffset,
     PollerSubmit, PollerSubmitFails, SubmitFails, MarkProcessed, Replay, ReplaySnapshot,
     ReplayFilter, ReplaySubmit, ReplaySubmitFails, Worker, Take, InjectTimesOut, HandleDelivers,
     HandleFails, DeleteRecord, ReleaseClaim, Unclaim, CountFailure, GiveUp, Bury, Restart, vars
<1>3. QED
  BY <1>1, <1>2

LEMMA OffsetsAgreeStep ==
  ASSUME TypeOK, OffsetsAgree, [Next]_vars, \A k : ~Fault(k)
  PROVE  OffsetsAgree'
<1>1. CASE UNCHANGED <<confirmed, offset, offsetDisk, refused, ppc, cur, rpc, snap>>
  BY <1>1 DEF OffsetsAgree
<1>2. CASE GetUpdates
  BY <1>2 DEF GetUpdates, OffsetsAgree, offsetVars, pollVars, replayVars, histVars, MaxOf, TypeOK,
     PollerTypes
<1>3. CASE SkipProcessed
  <2>1. ppc = "take" /\ offset' = cur + 1 /\ offsetDisk' = cur + 1
    BY <1>3 DEF SkipProcessed, OffsetsAgree, NextOffset, MaxOf, TypeOK, PollerTypes
  <2>2. UNCHANGED <<confirmed, refused, rpc, snap>>
    BY <1>3 DEF SkipProcessed, replayVars, histVars
  <2>3. confirmed <= offset'
    BY <2>1 DEF OffsetsAgree, MaxOf, TypeOK, PollerTypes
  <2>4. ppc' = "poll" \/ (ppc' = "take" /\ cur' = cur + 1)
    BY <1>3 DEF SkipProcessed, Advance
  <2>5. cur + 1 = MaxOf(1, cur + 1)
    BY DEF MaxOf, TypeOK, PollerTypes
  <2>6. QED
    BY <2>1, <2>2, <2>3, <2>4, <2>5 DEF OffsetsAgree
<1>4. CASE Reserve
  BY <1>4 DEF Reserve, OffsetsAgree, offsetVars, replayVars
<1>5. CASE SaveOffset
  BY <1>5 DEF SaveOffset, OffsetsAgree, NextOffset, MaxOf, replayVars, histVars, TypeOK, PollerTypes
<1>6. CASE PollerSubmit
  BY <1>6 DEF PollerSubmit, OffsetsAgree, offsetVars, replayVars, histVars
<1>7. CASE MarkProcessed
  <2>1. ppc = "mark" /\ offset' = cur + 1 /\ offsetDisk' = cur + 1
    BY <1>7 DEF MarkProcessed, OffsetsAgree, NextOffset, MaxOf, TypeOK, PollerTypes
  <2>2. UNCHANGED <<confirmed, refused, rpc, snap>>
    BY <1>7 DEF MarkProcessed, replayVars, histVars
  <2>3. confirmed <= offset'
    BY <2>1 DEF OffsetsAgree, TypeOK, PollerTypes
  <2>4. ppc' = "poll" \/ (ppc' = "take" /\ cur' = cur + 1)
    BY <1>7 DEF MarkProcessed, Advance
  <2>5. cur + 1 = MaxOf(1, cur + 1)
    BY DEF MaxOf, TypeOK, PollerTypes
  <2>6. QED
    BY <2>1, <2>2, <2>3, <2>4, <2>5 DEF OffsetsAgree
<1>8. ASSUME NEW t \in Replayers, Replay(t)
      PROVE  OffsetsAgree'
  <2>1. UNCHANGED <<confirmed, offset, offsetDisk, refused, ppc, cur>>
    BY <1>8 DEF Replay, ReplaySnapshot, ReplayFilter, ReplaySubmit, offsetVars, pollVars, histVars
  <2>2. CASE t = "outbound"
    <3>1. rpc'["poller"] = rpc["poller"] /\ snap'["poller"] = snap["poller"]
      BY <1>8, <2>2 DEF Replay, ReplaySnapshot, ReplayFilter, ReplaySubmit, Replayers, TypeOK, ReplayTypes
    <3>2. QED
      BY <2>1, <3>1 DEF OffsetsAgree
  <2>3. CASE t = "poller"
    <3>1. rpc["poller"] # "done"
      BY <1>8, <2>3 DEF Replay, ReplaySnapshot, ReplayFilter, ReplaySubmit
    <3>2. ppc = "poll"
      BY <3>1 DEF OffsetsAgree
    <3>3. rpc'["poller"] = "done" => snap'["poller"] = {}
      <4>1. CASE ReplaySnapshot(t)
        BY <2>3, <4>1 DEF ReplaySnapshot, Finished, Replayers, TypeOK, ReplayTypes
      <4>2. CASE ReplayFilter(t)
        BY <2>3, <4>2 DEF ReplayFilter, Finished, Replayers, TypeOK, ReplayTypes
      <4>3. CASE ReplaySubmit(t)
        BY <2>3, <4>3 DEF ReplaySubmit, Finished, Replayers, TypeOK, ReplayTypes
      <4>4. QED
        BY <1>8, <4>1, <4>2, <4>3 DEF Replay
    <3>4. QED
      BY <2>1, <3>2, <3>3 DEF OffsetsAgree
  <2>4. QED
    BY <2>2, <2>3 DEF Replayers
<1>9. CASE Worker \/ UNCHANGED vars
  <2>1. UNCHANGED <<confirmed, offset, offsetDisk, refused, ppc, cur, rpc, snap>>
    BY <1>9 DEF Worker, Take, InjectTimesOut, HandleDelivers, HandleFails, DeleteRecord, ReleaseClaim,
       Unclaim, CountFailure, GiveUp, Bury, vars, offsetVars, pollVars, replayVars, histVars
  <2>2. QED
    BY <1>1, <2>1
<1>10. CASE Restart
  <2>1. UNCHANGED <<confirmed, offsetDisk, refused>> /\ offset' = offsetDisk /\ ppc' = "poll"
        /\ rpc' = [t \in Replayers |-> "ready"]
    BY <1>10 DEF Restart
  <2>2. confirmed <= offsetDisk
    BY DEF OffsetsAgree, TypeOK, PollerTypes
  <2>3. rpc'["poller"] = "ready"
    BY <2>1 DEF Replayers
  <2>4. QED
    BY <2>1, <2>2, <2>3 DEF OffsetsAgree
<1>11. QED
  BY <1>2, <1>3, <1>4, <1>5, <1>6, <1>7, <1>8, <1>9, <1>10
  DEF Next, Poller, ReserveFails, PollerSubmitFails, ReplaySubmitFails, SubmitFails

\* The offset on disk never goes back.
LEMMA OffsetDiskGrows ==
  ASSUME TypeOK, OffsetsAgree, [Next]_vars, \A k : ~Fault(k)
  PROVE  MaxOf(1, offsetDisk) <= MaxOf(1, offsetDisk')
<1>1. offsetDisk' = offsetDisk \/ offsetDisk' = NextOffset
  BY DEF Next, Poller, GetUpdates, SkipProcessed, Reserve, ReserveFails, SaveOffset,
     PollerSubmit, PollerSubmitFails, MarkProcessed, Replay, ReplaySnapshot,
     ReplayFilter, ReplaySubmit, ReplaySubmitFails, Worker, Take, InjectTimesOut, HandleDelivers,
     HandleFails, DeleteRecord, ReleaseClaim, Unclaim, CountFailure, GiveUp, Bury, Restart, vars,
     offsetVars
<1>2. offsetDisk' = NextOffset /\ offsetDisk' # offsetDisk => SkipProcessed \/ SaveOffset
  BY DEF Next, Poller, GetUpdates, Reserve, ReserveFails,
     PollerSubmit, PollerSubmitFails, MarkProcessed, Replay, ReplaySnapshot,
     ReplayFilter, ReplaySubmit, ReplaySubmitFails, Worker, Take, InjectTimesOut, HandleDelivers,
     HandleFails, DeleteRecord, ReleaseClaim, Unclaim, CountFailure, GiveUp, Bury, Restart, vars,
     offsetVars
<1>3. ASSUME SkipProcessed \/ SaveOffset
      PROVE  offsetDisk' \in Nat /\ offsetDisk <= offsetDisk'
  <2>1. offset = offsetDisk
    BY <1>3 DEF SkipProcessed, SaveOffset, OffsetsAgree
  <2>2. offset \in Nat /\ cur \in Nat
    BY DEF TypeOK, PollerTypes
  <2>3. NextOffset \in Nat /\ offset <= NextOffset
    BY <2>2 DEF NextOffset, MaxOf
  <2>4. QED
    BY <1>1, <2>1, <2>2, <2>3
<1>4. offsetDisk \in Nat /\ offsetDisk' \in Nat /\ offsetDisk <= offsetDisk'
  <2>1. offsetDisk \in Nat
    BY DEF TypeOK, PollerTypes
  <2>2. QED
    BY <1>1, <1>2, <1>3, <2>1
<1>5. QED
  BY <1>4 DEF MaxOf

\* Records and snapshots keep the order of the ids.
LEMMA StoredInOrderStep ==
  ASSUME TypeOK, WorkerKnowsRecord, OffsetsAgree, StoredInOrder, [Next]_vars, \A k : ~Fault(k)
  PROVE  StoredInOrder'
<1> DEFINE Top == MaxOf(1, offsetDisk)
<1>1. Top \in Nat /\ Top' \in Nat /\ Top <= Top'
  BY TypeStep, OffsetDiskGrows DEF MaxOf, TypeOK, PollerTypes
<1>2. \/ UNCHANGED <<born, clock>> /\ \A u \in Updates : disk'[u] # "none" => disk[u] # "none"
      \/ Reserve
  <2>1. CASE Maintain({}) /\ UNCHANGED <<born, clock>>
    BY <2>1 DEF Maintain
  <2>2. CASE Worker
    <3>1. CASE DeleteRecord \/ GiveUp \/ Bury
      BY <3>1 DEF DeleteRecord, GiveUp, Bury, WorkerKnowsRecord, TypeOK, DiskTypes
    <3>2. QED
      BY <2>2, <3>1 DEF Worker, Take, InjectTimesOut, HandleDelivers, HandleFails, ReleaseClaim,
         Unclaim, CountFailure, diskVars
  <2>3. CASE Restart
    BY <2>3 DEF Restart, Maintain
  <2>4. QED
    BY <2>1, <2>2, <2>3, DiskChanges
<1>3. /\ \A u \in Updates : disk'[u] # "none" => u <= Top' /\ born'[u] <= clock'
      /\ \A u, v \in Updates : v < u /\ disk'[u] # "none" /\ disk'[v] # "none" => born'[v] < born'[u]
  <2>1. CASE UNCHANGED <<born, clock>> /\ \A u \in Updates : disk'[u] # "none" => disk[u] # "none"
    <3>1. \A u \in Updates : disk[u] # "none" => u <= Top'
      BY <1>1 DEF StoredInOrder, Updates
    <3>2. QED
      BY <2>1, <3>1 DEF StoredInOrder
  <2>2. CASE Reserve
    <3>1. cur \in Updates /\ cur = Top /\ offsetDisk' = offsetDisk /\ clock \in Nat
      BY <2>2, CurrentIsUpdate DEF Reserve, OffsetsAgree, offsetVars, TypeOK, DiskTypes
    <3>2. CASE UNCHANGED <<disk, born, clock>>
      BY <3>1, <3>2 DEF StoredInOrder
    <3>3. CASE /\ disk' = [disk EXCEPT ![cur] = "pending"] /\ disk[cur] = "none"
               /\ born' = [born EXCEPT ![cur] = clock + 1] /\ clock' = clock + 1
      <4>1. /\ born'[cur] = clock + 1
            /\ \A u \in Updates : u # cur => disk'[u] = disk[u] /\ born'[u] = born[u]
            /\ \A u \in Updates : born[u] \in Nat
        BY <3>1, <3>3 DEF TypeOK, DiskTypes
      <4>2. \A u \in Updates : disk[u] # "none" => u <= cur /\ born[u] <= clock
        BY <3>1 DEF StoredInOrder
      <4>3. \A u \in Updates : disk'[u] # "none" => u <= cur /\ born'[u] <= clock'
        BY <3>1, <3>3, <4>1, <4>2 DEF Updates
      <4>4. ASSUME NEW u \in Updates, NEW v \in Updates, v < u, disk'[u] # "none", disk'[v] # "none"
            PROVE  born'[v] < born'[u]
        <5>1. v # cur
          BY <3>1, <4>3, <4>4 DEF Updates
        <5>2. disk[v] # "none" /\ born'[v] = born[v] /\ born[v] <= clock
          BY <4>1, <4>2, <4>4, <5>1
        <5>3. CASE u = cur
          BY <3>1, <4>1, <5>2, <5>3
        <5>4. CASE u # cur
          BY <4>1, <4>4, <5>2, <5>4 DEF StoredInOrder
        <5>5. QED
          BY <5>3, <5>4
      <4>5. QED
        BY <3>1, <4>3, <4>4
    <3>4. QED
      BY <2>2, <3>2, <3>3 DEF Reserve
  <2>3. QED
    BY <1>2, <2>1, <2>2
<1>4. ASSUME NEW t \in Replayers, NEW r \in snap'[t], NEW s \in snap'[t]
      PROVE  r[2] <= Top' /\ (s[2] < r[2] => s[1] < r[1])
  <2>1. CASE r \in snap[t] /\ s \in snap[t]
    <3>1. r[2] <= Top /\ (s[2] < r[2] => s[1] < r[1])
      BY <2>1 DEF StoredInOrder
    <3>2. r[2] \in Updates
      BY <2>1 DEF TypeOK, ReplayTypes, Stamps
    <3>3. QED
      BY <1>1, <3>1, <3>2 DEF Updates
  <2>2. ASSUME ReplaySnapshot(t), snap' = [snap EXCEPT ![t] = {<<born[u], u>> : u \in Pending}]
        PROVE  r[2] <= Top' /\ (s[2] < r[2] => s[1] < r[1])
    <3>1. snap'[t] = {<<born[u], u>> : u \in Pending}
      BY <2>2 DEF TypeOK, ReplayTypes
    <3>2. PICK u \in Pending : r = <<born[u], u>>
      BY <3>1
    <3>3. PICK v \in Pending : s = <<born[v], v>>
      BY <3>1
    <3>4. u \in Updates /\ v \in Updates /\ disk[u] # "none" /\ disk[v] # "none"
      BY DEF Pending
    <3>5. u <= Top /\ (v < u => born[v] < born[u])
      BY <3>4 DEF StoredInOrder
    <3>6. r[1] = born[u] /\ r[2] = u /\ s[1] = born[v] /\ s[2] = v
      BY <3>2, <3>3
    <3>7. u <= Top'
      BY <1>1, <3>4, <3>5 DEF Updates
    <3>8. QED
      BY <3>5, <3>6, <3>7
  <2>3. snap'[t] \subseteq snap[t]
        \/ (ReplaySnapshot(t) /\ snap' = [snap EXCEPT ![t] = {<<born[u], u>> : u \in Pending}])
    <3>1. ASSUME NEW q \in Replayers, Replay(q)
          PROVE  snap'[t] \subseteq snap[t]
                 \/ (ReplaySnapshot(t) /\ snap' = [snap EXCEPT ![t] = {<<born[u], u>> : u \in Pending}])
      <4>1. CASE q # t
        BY <3>1, <4>1 DEF Replay, ReplaySnapshot, ReplayFilter, ReplaySubmit, TypeOK, ReplayTypes
      <4>2. CASE q = t
        BY <3>1, <4>2 DEF Replay, ReplaySnapshot, ReplayFilter, ReplaySubmit, TypeOK, ReplayTypes
      <4>3. QED
        BY <4>1, <4>2
    <3>2. CASE Restart
      BY <3>2 DEF Restart
    <3>3. CASE Poller \/ Worker \/ UNCHANGED vars
      BY <3>3 DEF Poller, GetUpdates, SkipProcessed, Reserve, ReserveFails, SaveOffset, PollerSubmit,
         PollerSubmitFails, MarkProcessed, Worker, Take, InjectTimesOut, HandleDelivers, HandleFails,
         DeleteRecord, ReleaseClaim, Unclaim, CountFailure, GiveUp, Bury, vars, replayVars
    <3>4. QED
      BY <3>1, <3>2, <3>3 DEF Next, ReplaySubmitFails, SubmitFails
  <2>4. QED
    BY <2>1, <2>2, <2>3
<1>5. QED
  BY <1>3, <1>4 DEF StoredInOrder

\* Handling and burying are not undone.
LEMMA HistoryGrows ==
  ASSUME TypeOK, [Next]_vars, NEW v \in Updates
  PROVE  (handled[v] > 0 => handled'[v] > 0) /\ dead \subseteq dead'
<1>1. handled[v] > 0 => handled'[v] > 0
  <2>1. CASE handled' = handled
    BY <2>1
  <2>2. CASE HandleDelivers \/ InjectTimesOut
    BY <2>2 DEF HandleDelivers, InjectTimesOut, TypeOK, HistoryTypes
  <2>3. QED
    BY <2>1, <2>2 DEF Next, Poller, GetUpdates, SkipProcessed, Reserve, ReserveFails, SaveOffset,
       PollerSubmit, PollerSubmitFails, MarkProcessed, Replay, ReplaySnapshot, ReplayFilter,
       ReplaySubmit, ReplaySubmitFails, Worker, Take, HandleFails, DeleteRecord, ReleaseClaim,
       Unclaim, CountFailure, GiveUp, Bury, Restart, vars, histVars
<1>2. dead \subseteq dead'
  <2>1. CASE Maintain({})
    BY <2>1 DEF Maintain
  <2>2. CASE Restart
    BY <2>2 DEF Restart, Maintain
  <2>3. CASE Reserve \/ Worker
    BY <2>3 DEF Reserve, Worker, Take, InjectTimesOut, HandleDelivers, HandleFails,
       DeleteRecord, ReleaseClaim, Unclaim, CountFailure, GiveUp, Bury, diskVars
  <2>4. QED
    BY <2>1, <2>2, <2>3, DiskChanges
<1>3. QED
  BY <1>1, <1>2

\* Attempts are counted by the worker only, and reset only with a new record.
LEMMA AttemptsChange ==
  ASSUME TypeOK, [Next]_vars
  PROVE  \/ attempts' = attempts
         \/ Reserve /\ cur \in Updates /\ disk[cur] = "none" /\ attempts' = [attempts EXCEPT ![cur] = 0]
         \/ CountFailure /\ wcur \in Updates /\ disk[wcur] = "pending"
            /\ attempts' = [attempts EXCEPT ![wcur] = @ + 1]
<1>1. CASE Reserve
  BY <1>1, CurrentIsUpdate DEF Reserve
<1>2. CASE CountFailure
  BY <1>2 DEF CountFailure, TypeOK, WorkerTypes
<1>3. CASE Restart
  BY <1>3 DEF Restart
<1>4. QED
  BY <1>1, <1>2, <1>3, DiskChanges DEF Worker, Take, InjectTimesOut, HandleDelivers, HandleFails,
     DeleteRecord, ReleaseClaim, Unclaim, GiveUp, Bury, diskVars

LEMMA FailedIsAccountedStep ==
  ASSUME TypeOK, WorkerKnowsRecord, FailedIsAccounted, [Next]_vars
  PROVE  FailedIsAccounted'
<1>1. ASSUME NEW v \in Updates, attempts'[v] > 0
      PROVE  Accounted(v)'
  <2>1. attempts[v] > 0 \/ disk[v] = "pending"
    BY <1>1, AttemptsChange DEF TypeOK, DiskTypes
  <2>2. Accounted(v)
    BY <2>1 DEF FailedIsAccounted, Accounted
  <2>3. QED
    BY <2>2, AccountedStable
<1>2. wpc' = "release" => handled'[wcur'] > 0
  <2>1. CASE UNCHANGED <<wpc, wcur>>
    BY <2>1, HistoryGrows DEF FailedIsAccounted, TypeOK, WorkerTypes
  <2>2. CASE Worker
    BY <2>2 DEF Worker, Take, InjectTimesOut, HandleDelivers, HandleFails, DeleteRecord,
       ReleaseClaim, Unclaim, CountFailure, GiveUp, Bury, Rest, workVars, histVars, WorkerKnowsRecord
  <2>3. CASE Restart
    BY <2>3 DEF Restart
  <2>4. QED
    BY <2>1, <2>2, <2>3, CirculationChanges
<1>3. QED
  BY <1>1, <1>2 DEF FailedIsAccounted

LEMMA MayBeOvertakenStable ==
  ASSUME TypeOK, FailedIsAccounted, [Next]_vars, NEW v \in Updates, MayBeOvertaken(v)
  PROVE  MayBeOvertaken(v)'
<1>1. CASE handled[v] > 0 \/ v \in dead
  BY <1>1, HistoryGrows DEF MayBeOvertaken
<1>2. CASE attempts[v] > 0
  <2>1. Accounted(v)
    BY <1>2 DEF FailedIsAccounted
  <2>2. CASE disk[v] = "none"
    BY <1>1, <2>1, <2>2 DEF Accounted
  <2>3. CASE disk[v] # "none"
    <3>1. attempts'[v] > 0
      BY <1>2, <2>3, AttemptsChange DEF TypeOK, DiskTypes
    <3>2. QED
      BY <3>1 DEF MayBeOvertaken
  <2>4. QED
    BY <2>2, <2>3
<1>3. QED
  BY <1>1, <1>2 DEF MayBeOvertaken

\* A covered record stays covered: the worker drops a claim only when it has handled the
\* message or is about to count the failure.
LEMMA CoveredStable ==
  ASSUME TypeOK, WorkerKnowsRecord, FailedIsAccounted, [Next]_vars, ~Restart, \A k : ~Fault(k),
         NEW v \in Updates, Covered(v)
  PROVE  Covered(v)' \/ (Reserve /\ v = cur)
<1> SUFFICES ASSUME disk'[v] = "pending", ~MayBeOvertaken(v)', ~(Reserve /\ v = cur)
             PROVE  Circulates(v)'
  BY DEF Covered
<1>1. ~MayBeOvertaken(v)
  BY MayBeOvertakenStable
<1>2. disk[v] = "pending"
  <2>1. CASE Reserve
    BY <2>1, CurrentIsUpdate DEF Reserve, TypeOK, DiskTypes
  <2>2. CASE Maintain({})
    BY <2>2 DEF Maintain, TypeOK, DiskTypes
  <2>3. CASE Worker
    BY <2>3 DEF Worker, Take, InjectTimesOut, HandleDelivers, HandleFails, DeleteRecord,
       ReleaseClaim, Unclaim, CountFailure, GiveUp, Bury, diskVars, TypeOK, DiskTypes
  <2>4. QED
    BY <2>1, <2>2, <2>3, DiskChanges
<1>3. Circulates(v)
  BY <1>1, <1>2 DEF Covered
<1>4. CASE UNCHANGED <<claims, queue, wpc, wcur>>
  BY <1>3, <1>4 DEF Circulates
<1>5. CASE (\E u \in Updates : Submit(u)) /\ UNCHANGED <<wpc, wcur>>
  BY <1>3, <1>5 DEF Submit, Circulates
<1>6. CASE Take \/ InjectTimesOut \/ HandleDelivers \/ HandleFails \/ DeleteRecord \/ GiveUp \/ Bury
  BY <1>3, <1>6 DEF Take, InjectTimesOut, HandleDelivers, HandleFails, DeleteRecord, GiveUp, Bury,
     memVars, Circulates
<1>7. CASE ReleaseClaim
  BY <1>1, <1>3, <1>7 DEF ReleaseClaim, Circulates, MayBeOvertaken, FailedIsAccounted
<1>8. CASE Unclaim
  BY <1>3, <1>8 DEF Unclaim, Circulates
<1>9. CASE CountFailure
  <2>1. claims' = claims
    BY <1>9 DEF CountFailure, memVars
  <2>2. v # wcur
    <3> SUFFICES ASSUME v = wcur
                 PROVE  FALSE
      OBVIOUS
    <3>1. attempts'[v] > 0
      BY <1>2, <1>9 DEF CountFailure, TypeOK, DiskTypes
    <3>2. QED
      BY <3>1 DEF MayBeOvertaken
  <2>3. QED
    BY <1>3, <2>1, <2>2 DEF Circulates
<1>10. QED
  BY <1>4, <1>5, <1>6, <1>7, <1>8, <1>9, CirculationChanges DEF Worker

\* Submission covers its record.
LEMMA SubmitCovers ==
  ASSUME TypeOK, NEW u \in Updates, Submit(u)
  PROVE  Covered(u)'
<1>1. CASE u \in claims
  BY <1>1 DEF Submit, Covered, Circulates
<1>2. CASE u \notin claims /\ disk[u] = "pending"
  BY <1>2 DEF Submit, Covered, Circulates
<1>3. CASE u \notin claims /\ disk[u] # "pending"
  <2>1. disk'[u] # "pending"
    BY <1>3 DEF Submit, Maintain, TypeOK, DiskTypes
  <2>2. QED
    BY <2>1 DEF Covered
<1>4. QED
  BY <1>1, <1>2, <1>3

\* How a snapshot loses a record: only to a covering submission, or because somebody else
\* holds the claim.
LEMMA SnapshotSheds ==
  ASSUME TypeOK, [Next]_vars, ~Restart, \A k : ~Fault(k), NEW t \in Replayers, NEW v \in Updates,
         v \in Ids(snap[t]), v \notin Ids(snap'[t])
  PROVE  Covered(v)' \/ Covered(v) \/ ReplaySnapshot(t)
<1>1. CASE snap'[t] = snap[t]
  BY <1>1
<1>2. PICK r \in snap[t] : r[2] = v
  BY DEF Ids
<1>3. r \notin snap'[t]
  BY <1>2 DEF Ids
<1>4. CASE ReplayFilter(t)
  <2>1. snap'[t] = {s \in snap[t] : s[2] \notin claims}
    BY <1>4 DEF ReplayFilter, TypeOK, ReplayTypes
  <2>2. v \in claims
    BY <1>2, <1>3, <2>1
  <2>3. QED
    BY <2>2 DEF Covered, Circulates
<1>5. CASE ReplaySubmit(t)
  <2>1. PICK s \in snap[t] : Submit(s[2]) /\ snap' = [snap EXCEPT ![t] = @ \ {s}]
    BY <1>5 DEF ReplaySubmit
  <2>2. snap'[t] = snap[t] \ {s}
    BY <2>1 DEF TypeOK, ReplayTypes
  <2>3. s = r
    BY <1>2, <1>3, <2>2
  <2>4. Submit(v)
    BY <1>2, <2>1, <2>3
  <2>5. QED
    BY <2>4, SubmitCovers
<1>6. ASSUME NEW q \in Replayers, Replay(q), q # t
      PROVE  snap'[t] = snap[t]
  BY <1>6 DEF Replay, ReplaySnapshot, ReplayFilter, ReplaySubmit, TypeOK, ReplayTypes
<1>7. CASE Poller \/ Worker \/ UNCHANGED vars
  BY <1>1, <1>7 DEF Poller, GetUpdates, SkipProcessed, Reserve, ReserveFails, SaveOffset,
     PollerSubmit, PollerSubmitFails, MarkProcessed, Worker, Take, InjectTimesOut, HandleDelivers,
     HandleFails, DeleteRecord, ReleaseClaim, Unclaim, CountFailure, GiveUp, Bury, vars, replayVars
<1>8. QED
  BY <1>1, <1>4, <1>5, <1>6, <1>7 DEF Next, Replay, ReplaySubmitFails, SubmitFails

\* A fresh snapshot holds every pending record.
LEMMA SnapshotTaken ==
  ASSUME TypeOK, NEW t \in Replayers, ReplaySnapshot(t), \A k : ~Fault(k), NEW v \in Updates
  PROVE  v \in Ids(snap'[t]) \/ Covered(v)'
<1>1. snap'[t] = {<<born[u], u>> : u \in Pending} /\ Maintain({})
  BY DEF ReplaySnapshot, TypeOK, ReplayTypes
<1>2. CASE disk[v] = "pending"
  <2>1. v \in Pending
    BY <1>2 DEF Pending
  <2>2. <<born[v], v>> \in snap'[t] /\ <<born[v], v>>[2] = v
    BY <1>1, <2>1
  <2>3. QED
    BY <2>2 DEF Ids
<1>3. CASE disk[v] # "pending"
  <2>1. disk'[v] # "pending"
    BY <1>1, <1>3 DEF Maintain
  <2>2. QED
    BY <2>1 DEF Covered
<1>4. QED
  BY <1>2, <1>3

\* Where the records of a snapshot come from.
LEMMA SnapshotComes ==
  ASSUME TypeOK, [Next]_vars, ~Restart, NEW t \in Replayers
  PROVE  snap'[t] \subseteq snap[t] \/ ReplaySnapshot(t)
<1>1. ASSUME NEW q \in Replayers, Replay(q)
      PROVE  snap'[t] \subseteq snap[t] \/ ReplaySnapshot(t)
  <2>1. CASE q # t
    BY <1>1, <2>1 DEF Replay, ReplaySnapshot, ReplayFilter, ReplaySubmit, TypeOK, ReplayTypes
  <2>2. CASE q = t
    BY <1>1, <2>2 DEF Replay, ReplayFilter, ReplaySubmit, TypeOK, ReplayTypes
  <2>3. QED
    BY <2>1, <2>2
<1>2. CASE ReplaySubmitFails
  BY <1>2 DEF ReplaySubmitFails, TypeOK, ReplayTypes
<1>3. CASE Poller \/ Worker \/ UNCHANGED vars
  BY <1>3 DEF Poller, GetUpdates, SkipProcessed, Reserve, ReserveFails, SaveOffset, PollerSubmit,
     PollerSubmitFails, MarkProcessed, Worker, Take, InjectTimesOut, HandleDelivers, HandleFails,
     DeleteRecord, ReleaseClaim, Unclaim, CountFailure, GiveUp, Bury, vars, replayVars
<1>4. QED
  BY <1>1, <1>2, <1>3 DEF Next

LEMMA SnapshotsCompleteStep ==
  ASSUME TypeOK, WorkerKnowsRecord, OffsetsAgree, StoredInOrder, FailedIsAccounted,
         SnapshotsComplete, [Next]_vars, \A k : ~Fault(k)
  PROVE  SnapshotsComplete'
<1> SUFFICES ASSUME NEW t \in Replayers, NEW r \in snap'[t], NEW v \in Updates, v < r[2]
             PROVE  v \in Ids(snap'[t]) \/ Covered(v)'
  BY DEF SnapshotsComplete
<1>1. CASE Restart
  BY <1>1 DEF Restart
<1>2. CASE ReplaySnapshot(t)
  BY <1>2, SnapshotTaken
<1>3. CASE ~Restart /\ ~ReplaySnapshot(t)
  <2>1. r \in snap[t]
    BY <1>3, SnapshotComes
  <2>2. v \in Ids(snap[t]) \/ Covered(v)
    BY <2>1 DEF SnapshotsComplete
  <2>3. CASE Reserve /\ v = cur
    <3>1. r[2] \in Updates /\ r[2] <= MaxOf(1, offsetDisk)
      BY <2>1 DEF StoredInOrder, TypeOK, ReplayTypes, Stamps
    <3>2. v = MaxOf(1, offsetDisk)
      BY <2>3 DEF Reserve, OffsetsAgree
    <3>3. QED
      BY <3>1, <3>2 DEF Updates
  <2>4. CASE ~(Reserve /\ v = cur)
    <3>1. Covered(v) => Covered(v)'
      BY <1>3, <2>4, CoveredStable
    <3>2. v \in Ids(snap[t]) => v \in Ids(snap'[t]) \/ Covered(v)'
      BY <1>3, <3>1, SnapshotSheds
    <3>3. QED
      BY <2>2, <3>1, <3>2
  <2>5. QED
    BY <2>3, <2>4
<1>4. QED
  BY <1>1, <1>2, <1>3

LEMMA PollerCompleteStep ==
  ASSUME TypeOK, WorkerKnowsRecord, OffsetsAgree, FailedIsAccounted, PollerComplete,
         [Next]_vars, \A k : ~Fault(k)
  PROVE  PollerComplete'
<1> SUFFICES ASSUME rpc'["poller"] # "ready", NEW v \in Updates
             PROVE  \/ v \in Ids(snap'["poller"]) \/ Covered(v)'
                    \/ (ppc' \in {"save", "submit"} /\ v = cur')
  BY DEF PollerComplete
<1>1. CASE Restart
  BY <1>1 DEF Restart, Replayers
<1>2. CASE ReplaySnapshot("poller")
  BY <1>2, SnapshotTaken DEF Replayers
<1>3. CASE ~Restart /\ ~ReplaySnapshot("poller")
  <2>1. rpc["poller"] # "ready"
    <3>1. ASSUME NEW q \in Replayers, Replay(q)
          PROVE  rpc["poller"] # "ready"
      <4>1. CASE q = "poller"
        BY <1>3, <3>1, <4>1 DEF Replay, ReplayFilter, ReplaySubmit
      <4>2. CASE q # "poller"
        BY <3>1, <4>2 DEF Replay, ReplaySnapshot, ReplayFilter, ReplaySubmit, Replayers, TypeOK, ReplayTypes
      <4>3. QED
        BY <4>1, <4>2
    <3>2. CASE ReplaySubmitFails
      BY <3>2 DEF ReplaySubmitFails, SubmitFails
    <3>3. CASE Poller \/ Worker \/ UNCHANGED vars
      BY <3>3 DEF Poller, GetUpdates, SkipProcessed, Reserve, ReserveFails, SaveOffset,
         PollerSubmit, PollerSubmitFails, MarkProcessed, Worker, Take, InjectTimesOut,
         HandleDelivers, HandleFails, DeleteRecord, ReleaseClaim, Unclaim, CountFailure, GiveUp,
         Bury, vars, replayVars
    <3>4. QED
      BY <1>3, <3>1, <3>2, <3>3 DEF Next
  <2>2. \/ v \in Ids(snap["poller"]) \/ Covered(v)
        \/ (ppc \in {"save", "submit"} /\ v = cur)
    BY <2>1 DEF PollerComplete
  <2>3. CASE Reserve /\ v = cur
    BY <2>3 DEF Reserve
  <2>4. CASE ~(Reserve /\ v = cur)
    <3>1. Covered(v) => Covered(v)'
      BY <1>3, <2>4, CoveredStable
    <3>2. v \in Ids(snap["poller"]) => v \in Ids(snap'["poller"]) \/ Covered(v)'
      BY <1>3, <3>1, SnapshotSheds DEF Replayers
    <3>3. ASSUME ppc \in {"save", "submit"}, v = cur
          PROVE  Covered(v)' \/ (ppc' \in {"save", "submit"} /\ v = cur')
      <4>1. CASE UNCHANGED <<ppc, cur, offset>>
        BY <3>3, <4>1
      <4>2. CASE SaveOffset
        BY <3>3, <4>2 DEF SaveOffset
      <4>3. CASE PollerSubmit
        BY <3>3, <4>3, SubmitCovers DEF PollerSubmit
      <4>4. QED
        BY <1>3, <3>3, <4>1, <4>2, <4>3, PollerPlace DEF Poller, GetUpdates, SkipProcessed, Reserve,
           ReserveFails, PollerSubmitFails, SubmitFails, MarkProcessed
    <3>4. QED
      BY <2>2, <3>1, <3>2, <3>3
  <2>5. QED
    BY <2>3, <2>4
<1>4. QED
  BY <1>1, <1>2, <1>3

\* What comes before a stored record and is covered may be overtaken, is in the worker's
\* hand or is in the queue.
LEMMA EarlierIsQueued ==
  ASSUME TypeOK, CustodyInv, Exhausted, ClaimsCirculateOnce, OffsetsAgree, StoredInOrder,
         FailedIsAccounted, NEW u \in Updates, disk[u] # "none",
         NEW v \in Updates, v < u, Covered(v)
  PROVE  MayBeOvertaken(v) \/ InHand(v) \/ \E i \in DOMAIN queue : queue[i] = v
<1>1. CASE disk[v] = "none"
  <2>1. u <= MaxOf(1, offsetDisk)
    BY DEF StoredInOrder
  <2>2. v < offsetDisk
    BY <2>1 DEF MaxOf, Updates, TypeOK, PollerTypes
  <2>3. Settled(v)
    BY <2>2 DEF CustodyInv, OffsetsSettled
  <2>4. Accounted(v)
    BY <2>3 DEF Settled, OffsetsAgree
  <2>5. QED
    BY <1>1, <2>4 DEF Accounted, MayBeOvertaken
<1>2. CASE disk[v] = "dying"
  <2>1. attempts[v] >= MaxAttempts
    BY <1>2 DEF Exhausted
  <2>2. attempts[v] > 0
    BY <2>1, ConstantsAssumption DEF TypeOK, DiskTypes
  <2>3. QED
    BY <2>2 DEF MayBeOvertaken
<1>3. CASE disk[v] = "pending"
  <2>1. MayBeOvertaken(v) \/ Circulates(v)
    BY <1>3 DEF Covered
  <2>2. CASE v \in claims
    <3>1. v \in Range(queue) \/ v \in HeldByWorker
      BY <2>2 DEF ClaimsCirculateOnce
    <3>2. CASE v \in Range(queue)
      BY <3>2 DEF Range
    <3>3. CASE v \in HeldByWorker
      BY <3>3 DEF HeldByWorker, InHand, MayBeOvertaken, CustodyInv, WorkerKnowsRecord,
         FailedIsAccounted
    <3>4. QED
      BY <3>1, <3>2, <3>3
  <2>3. CASE wpc = "count" /\ v = wcur
    BY <2>3 DEF InHand
  <2>4. QED
    BY <2>1, <2>2, <2>3 DEF Circulates
<1>4. QED
  BY <1>1, <1>2, <1>3 DEF TypeOK, DiskTypes

\* What precedes by right keeps doing so while the worker rests.
LEMMA PrecededStable ==
  ASSUME TypeOK, FailedIsAccounted, QueueInOrder, [Next]_vars, UNCHANGED <<wpc, wcur>>,
         \/ queue' = queue
         \/ \E x \in Updates : queue' = Append(queue, x)
  PROVE  /\ \A j \in DOMAIN queue : \A v \in Updates :
              j \in DOMAIN queue' /\ queue'[j] = queue[j] /\ (v < queue[j] => Preceded(v, j)')
         /\ wpc' = "handle" => \A v \in Updates : v < wcur' => MayBeOvertaken(v)'
<1>1. queue \in Seq(Updates)
  BY DEF TypeOK, WorkerTypes
<1>2. \A i \in DOMAIN queue : i \in DOMAIN queue' /\ queue'[i] = queue[i]
  <2>1. CASE queue' = queue
    BY <2>1
  <2>2. ASSUME NEW x \in Updates, queue' = Append(queue, x)
        PROVE  \A i \in DOMAIN queue : i \in DOMAIN queue' /\ queue'[i] = queue[i]
    BY <1>1, <2>2, AppendIndices
  <2>3. QED
    BY <2>1, <2>2
<1>3. \A v \in Updates : MayBeOvertaken(v) => MayBeOvertaken(v)'
  BY MayBeOvertakenStable
<1>4. ASSUME NEW j \in DOMAIN queue, NEW v \in Updates, v < queue[j]
      PROVE  Preceded(v, j)'
  <2>1. Preceded(v, j)
    BY <1>4 DEF QueueInOrder
  <2>2. CASE MayBeOvertaken(v) \/ InHand(v)
    BY <1>3, <2>2 DEF Preceded, InHand
  <2>3. ASSUME NEW i \in DOMAIN queue, i < j, queue[i] = v
        PROVE  Preceded(v, j)'
    BY <1>2, <2>3 DEF Preceded
  <2>4. QED
    BY <2>1, <2>2, <2>3 DEF Preceded
<1>5. QED
  BY <1>2, <1>3, <1>4 DEF QueueInOrder

\* A submission keeps the queue in order if what is earlier is covered.
LEMMA SubmitInOrder ==
  ASSUME TypeOK, CustodyInv, Exhausted, ClaimsCirculateOnce, InOrder, [Next]_vars,
         NEW u \in Updates, Submit(u), UNCHANGED <<wpc, wcur>>,
         \A v \in Updates : v < u => Covered(v)
  PROVE  QueueInOrder'
<1>1. CASE queue' = queue
  BY <1>1, PrecededStable DEF InOrder, QueueInOrder
<1>2. CASE disk[u] = "pending" /\ queue' = Append(queue, u)
  <2>1. queue \in Seq(Updates)
    BY DEF TypeOK, WorkerTypes
  <2>2. /\ DOMAIN queue = 1 .. Len(queue) /\ Len(queue) \in Nat
        /\ DOMAIN queue' = 1 .. Len(queue) + 1
        /\ \A i \in DOMAIN queue : queue'[i] = queue[i]
        /\ queue'[Len(queue) + 1] = u
    BY <1>2, <2>1, AppendIndices
  <2>3. /\ \A j \in DOMAIN queue : \A v \in Updates :
             j \in DOMAIN queue' /\ queue'[j] = queue[j] /\ (v < queue[j] => Preceded(v, j)')
        /\ wpc' = "handle" => \A v \in Updates : v < wcur' => MayBeOvertaken(v)'
    BY <1>2, PrecededStable DEF InOrder
  <2>4. PICK n \in Nat : n = Len(queue) + 1
    BY <2>2
  <2>5. ASSUME NEW v \in Updates, v < u
        PROVE  Preceded(v, n)'
    <3>1. MayBeOvertaken(v) \/ InHand(v) \/ \E i \in DOMAIN queue : queue[i] = v
      BY <1>2, <2>5, EarlierIsQueued DEF InOrder
    <3>2. CASE MayBeOvertaken(v)
      BY <3>2, MayBeOvertakenStable DEF InOrder, Preceded
    <3>3. CASE InHand(v)
      BY <3>3 DEF InHand, Preceded
    <3>4. ASSUME NEW i \in DOMAIN queue, queue[i] = v
          PROVE  Preceded(v, n)'
      <4>1. i \in DOMAIN queue' /\ queue'[i] = v /\ i < n
        BY <2>2, <2>4, <3>4
      <4>2. QED
        BY <4>1 DEF Preceded
    <3>5. QED
      BY <3>1, <3>2, <3>3, <3>4
  <2>6. ASSUME NEW j \in DOMAIN queue', NEW v \in Updates, v < queue'[j]
        PROVE  Preceded(v, j)'
    <3>1. CASE j \in DOMAIN queue
      BY <2>3, <2>6, <3>1
    <3>2. CASE j = n
      BY <2>2, <2>4, <2>5, <2>6, <3>2
    <3>3. QED
      BY <2>2, <2>4, <3>1, <3>2
  <2>7. QED
    BY <2>3, <2>6 DEF QueueInOrder
<1>3. QED
  BY <1>1, <1>2 DEF Submit

\* The worker takes the first of the queue: nothing earlier is left that may not be overtaken.
LEMMA TakeInOrder ==
  ASSUME TypeOK, FailedIsAccounted, QueueInOrder, [Next]_vars, Take
  PROVE  QueueInOrder'
<1>1. queue \in Seq(Updates) /\ queue # <<>>
  BY DEF Take, TypeOK, WorkerTypes
<1>2. /\ DOMAIN queue = 1 .. Len(queue) /\ Len(queue) \in Nat /\ 1 \in DOMAIN queue
      /\ wcur' = queue[1] /\ wpc' = "handle" /\ wpc = "idle"
      /\ DOMAIN queue' = 1 .. Len(queue) - 1
      /\ \A i \in 1 .. Len(queue) - 1 : i + 1 \in DOMAIN queue /\ queue'[i] = queue[i + 1]
  BY <1>1, TailIndices DEF Take
<1>3. \A v \in Updates : ~InHand(v)
  BY <1>2 DEF InHand
<1>4. \A v \in Updates : MayBeOvertaken(v) => MayBeOvertaken(v)'
  BY MayBeOvertakenStable
<1>5. ASSUME NEW v \in Updates, v < wcur'
      PROVE  MayBeOvertaken(v)'
  <2>1. Preceded(v, 1)
    BY <1>2, <1>5 DEF QueueInOrder
  <2>2. MayBeOvertaken(v)
    BY <1>2, <1>3, <2>1 DEF Preceded
  <2>3. QED
    BY <1>4, <2>2
<1>6. ASSUME NEW j \in DOMAIN queue', NEW v \in Updates, v < queue'[j]
      PROVE  Preceded(v, j)'
  <2>1. PICK k \in DOMAIN queue : k = j + 1
    BY <1>2
  <2>2. v < queue[k]
    BY <1>2, <1>6, <2>1
  <2>3. Preceded(v, k)
    BY <2>2 DEF QueueInOrder
  <2>4. CASE MayBeOvertaken(v)
    BY <1>4, <2>4 DEF Preceded
  <2>5. ASSUME NEW i \in DOMAIN queue, i < k, queue[i] = v
        PROVE  Preceded(v, j)'
    <3>1. CASE i = 1
      BY <1>2, <2>5, <3>1 DEF Preceded, InHand
    <3>2. CASE i # 1
      <4>1. i \in 1 .. Len(queue) /\ Len(queue) \in Nat
        BY <1>2
      <4>2. PICK h \in 1 .. Len(queue) - 1 : i = h + 1
        BY <3>2, <4>1
      <4>3. h \in DOMAIN queue' /\ h < j /\ queue'[h] = v
        BY <1>2, <2>1, <2>5, <4>2
      <4>4. QED
        BY <4>3 DEF Preceded
    <3>3. QED
      BY <3>1, <3>2
  <2>6. QED
    BY <1>3, <2>3, <2>4, <2>5 DEF Preceded
<1>7. QED
  BY <1>5, <1>6 DEF QueueInOrder

\* What the worker puts out of its hand was handled, buried or has failed.
LEMMA HandEmpties ==
  ASSUME TypeOK, CustodyInv, Exhausted, FailedIsAccounted, [Next]_vars, Worker, ~Take,
         \A k : ~Fault(k), NEW v \in Updates, InHand(v)
  PROVE  InHand(v)' \/ MayBeOvertaken(v)'
<1>1. CASE HandleFails \/ Unclaim
  BY <1>1 DEF HandleFails, Unclaim, InHand
<1>2. CASE HandleDelivers
  BY <1>2 DEF HandleDelivers, InHand, MayBeOvertaken, TypeOK, HistoryTypes
<1>3. CASE CountFailure
  <2>1. v = wcur /\ wpc = "count"
    BY <1>3 DEF CountFailure, InHand
  <2>2. CASE disk[v] = "pending"
    <3>1. attempts'[v] > 0
      BY <1>3, <2>1, <2>2 DEF CountFailure, TypeOK, DiskTypes
    <3>2. QED
      BY <3>1 DEF MayBeOvertaken
  <2>3. CASE disk[v] = "dying"
    <3>1. attempts[v] >= MaxAttempts
      BY <2>3 DEF Exhausted
    <3>2. attempts[v] > 0
      BY <3>1, ConstantsAssumption DEF TypeOK, DiskTypes
    <3>3. QED
      BY <3>2, MayBeOvertakenStable DEF MayBeOvertaken
  <2>4. CASE disk[v] = "none"
    <3>1. Accounted(v)
      BY <2>1 DEF CustodyInv, CirculationAccounted
    <3>2. MayBeOvertaken(v)
      BY <2>4, <3>1 DEF Accounted, MayBeOvertaken
    <3>3. QED
      BY <3>2, MayBeOvertakenStable
  <2>5. QED
    BY <2>2, <2>3, <2>4 DEF TypeOK, DiskTypes
<1>4. QED
  BY <1>1, <1>2, <1>3 DEF Worker, InjectTimesOut, DeleteRecord, ReleaseClaim, GiveUp, Bury, InHand

LEMMA QueueInOrderStep ==
  ASSUME TypeOK, CustodyInv, Exhausted, ClaimsCirculateOnce, InOrder, [Next]_vars, \A k : ~Fault(k)
  PROVE  QueueInOrder'
<1>1. CASE UNCHANGED <<claims, queue, wpc, wcur>>
  BY <1>1, PrecededStable DEF InOrder, QueueInOrder
<1>2. CASE PollerSubmit
  <2>1. cur \in Updates /\ rpc["poller"] = "done" /\ snap["poller"] = {} /\ ppc = "submit"
    BY <1>2, CurrentIsUpdate DEF PollerSubmit, InOrder, OffsetsAgree
  <2>2. \A v \in Updates : v < cur => Covered(v)
    BY <2>1 DEF InOrder, PollerComplete, Ids, Updates
  <2>3. QED
    BY <1>2, <2>1, <2>2, SubmitInOrder DEF PollerSubmit, workVars
<1>3. ASSUME NEW t \in Replayers, ReplaySubmit(t)
      PROVE  QueueInOrder'
  <2>1. PICK r \in snap[t] : Submit(r[2]) /\ \A s \in snap[t] : Before(r, s)
    BY <1>3 DEF ReplaySubmit
  <2>2. r[2] \in Updates /\ r[1] \in Nat
    BY <2>1 DEF TypeOK, ReplayTypes, Stamps
  <2>3. ASSUME NEW v \in Updates, v < r[2], v \in Ids(snap[t])
        PROVE  FALSE
    <3>1. PICK s \in snap[t] : s[2] = v
      BY <2>3 DEF Ids
    <3>2. s[1] \in Nat /\ s[1] < r[1]
      BY <2>3, <3>1 DEF InOrder, StoredInOrder, TypeOK, ReplayTypes, Stamps
    <3>3. r[1] < s[1] \/ r[1] = s[1]
      BY <2>1, <3>1 DEF Before
    <3>4. QED
      BY <2>2, <3>2, <3>3
  <2>4. \A v \in Updates : v < r[2] => Covered(v)
    BY <2>1, <2>3 DEF InOrder, SnapshotsComplete
  <2>5. UNCHANGED <<wpc, wcur>>
    BY <1>3 DEF ReplaySubmit, workVars
  <2>6. QED
    BY <2>1, <2>2, <2>4, <2>5, SubmitInOrder
<1>4. CASE Take
  BY <1>4, TakeInOrder DEF InOrder
<1>5. CASE Worker /\ ~Take
  <2>1. queue' = queue
    BY <1>5 DEF Worker, InjectTimesOut, HandleDelivers, HandleFails, DeleteRecord,
       ReleaseClaim, Unclaim, CountFailure, GiveUp, Bury, memVars
  <2>2. \A v \in Updates : MayBeOvertaken(v) => MayBeOvertaken(v)'
    BY MayBeOvertakenStable DEF InOrder
  <2>3. \A v \in Updates : InHand(v) => InHand(v)' \/ MayBeOvertaken(v)'
    BY <1>5, HandEmpties DEF InOrder
  <2>4. ASSUME NEW j \in DOMAIN queue, NEW v \in Updates, v < queue[j]
        PROVE  Preceded(v, j)'
    <3>1. Preceded(v, j)
      BY <2>4 DEF InOrder, QueueInOrder
    <3>2. CASE MayBeOvertaken(v) \/ InHand(v)
      BY <2>2, <2>3, <3>2 DEF Preceded
    <3>3. CASE \E i \in DOMAIN queue : i < j /\ queue[i] = v
      BY <2>1, <3>3 DEF Preceded
    <3>4. QED
      BY <3>1, <3>2, <3>3 DEF Preceded
  <2>5. wpc' = "handle" => wpc = "handle" /\ wcur' = wcur
    BY <1>5 DEF Worker, InjectTimesOut, HandleDelivers, HandleFails, DeleteRecord,
       ReleaseClaim, Unclaim, CountFailure, GiveUp, Bury, Rest, workVars
  <2>6. QED
    BY <2>1, <2>2, <2>4, <2>5 DEF InOrder, QueueInOrder
<1>6. CASE Restart
  <2>1. queue' = <<>> /\ wpc' = "idle"
    BY <1>6 DEF Restart
  <2>2. QED
    BY <2>1 DEF QueueInOrder
<1>7. CASE GetUpdates \/ SkipProcessed \/ Reserve \/ ReserveFails \/ SaveOffset
           \/ PollerSubmitFails \/ MarkProcessed \/ ReplaySubmitFails \/ UNCHANGED vars
  BY <1>1, <1>7 DEF GetUpdates, SkipProcessed, Reserve, ReserveFails, SaveOffset,
     PollerSubmitFails, MarkProcessed, ReplaySubmitFails, memVars, workVars, vars
<1>8. CASE \E t \in Replayers : ReplaySnapshot(t) \/ ReplayFilter(t)
  BY <1>1, <1>8 DEF ReplaySnapshot, ReplayFilter, memVars, workVars
<1>9. QED
  BY <1>2, <1>3, <1>4, <1>5, <1>6, <1>7, <1>8 DEF Next, Poller, Replay

LEMMA HandledInOrderStep ==
  ASSUME TypeOK, InOrder, [Next]_vars, \A k : ~Fault(k)
  PROVE  HandledInOrder'
<1> SUFFICES ASSUME NEW u \in Updates, NEW v \in Updates, v < u, handled'[u] > 0
             PROVE  MayBeOvertaken(v)'
  BY DEF HandledInOrder
<1>1. handled[u] > 0 \/ (wpc = "handle" /\ u = wcur)
  <2>1. CASE handled' = handled
    BY <2>1
  <2>2. CASE HandleDelivers
    BY <2>2 DEF HandleDelivers, TypeOK, HistoryTypes
  <2>3. QED
    BY <2>1, <2>2 DEF Next, Poller, GetUpdates, SkipProcessed, Reserve, ReserveFails, SaveOffset,
       PollerSubmit, PollerSubmitFails, MarkProcessed, Replay, ReplaySnapshot, ReplayFilter,
       ReplaySubmit, ReplaySubmitFails, Worker, Take, InjectTimesOut, HandleFails, DeleteRecord,
       ReleaseClaim, Unclaim, CountFailure, GiveUp, Bury, Restart, vars, histVars
<1>2. MayBeOvertaken(v)
  BY <1>1 DEF InOrder, HandledInOrder, QueueInOrder
<1>3. QED
  BY <1>2, MayBeOvertakenStable DEF InOrder

\* Order is inductive, given that custody, claims and burials are.
LEMMA OrderStep ==
  ASSUME TypeOK, CustodyInv, Exhausted, ClaimsCirculateOnce, Order, [Next]_vars
  PROVE  Order'
<1> SUFFICES ASSUME faults' = 0
             PROVE  InOrder'
  BY DEF Order
<1>1. InOrder /\ \A k : ~Fault(k)
  BY FaultlessBefore DEF Order
<1>2. WorkerKnowsRecord
  BY DEF CustodyInv
<1>3. OffsetsAgree' /\ StoredInOrder'
  BY <1>1, <1>2, OffsetsAgreeStep, StoredInOrderStep DEF InOrder
<1>4. FailedIsAccounted'
  BY <1>1, <1>2, FailedIsAccountedStep DEF InOrder
<1>5. SnapshotsComplete' /\ PollerComplete'
  BY <1>1, <1>2, SnapshotsCompleteStep, PollerCompleteStep DEF InOrder
<1>6. QueueInOrder' /\ HandledInOrder'
  BY <1>1, QueueInOrderStep, HandledInOrderStep
<1>7. QED
  BY <1>3, <1>4, <1>5, <1>6 DEF InOrder

\* As long as no operation fails, the session sees the messages in the order they were
\* sent, through every interleaving and every restart: an update is handled before an
\* earlier one only when that one has failed once or was given up.
THEOREM MessagesInOrder == Spec => []FifoDelivery
<1>1. Init => Order
  <2> SUFFICES ASSUME Init
               PROVE  InOrder
    BY DEF Order
  <2>1. OffsetsAgree /\ StoredInOrder
    BY DEF Init, OffsetsAgree, StoredInOrder, Replayers
  <2>2. FailedIsAccounted /\ SnapshotsComplete /\ PollerComplete
    BY DEF Init, FailedIsAccounted, SnapshotsComplete, PollerComplete, Replayers
  <2>3. QueueInOrder /\ HandledInOrder
    BY DEF Init, QueueInOrder, HandledInOrder
  <2>4. QED
    BY <2>1, <2>2, <2>3 DEF InOrder
<1>2. TypeOK /\ CustodyInv /\ Exhausted /\ ClaimsCirculateOnce /\ Order /\ [Next]_vars => Order'
  BY OrderStep
<1>3. Order => FifoDelivery
  BY DEF Order, InOrder, HandledInOrder, MayBeOvertaken, FifoDelivery
<1>4. QED
  BY <1>1, <1>2, <1>3, TypeCorrect, CustodyKept, ExhaustedInvariant, ClaimsCirculate, PTL DEF Spec
=============================================================================
