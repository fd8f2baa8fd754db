---------------------------- MODULE OutboxProofs -----------------------------
(***************************************************************************)
(* Proofs about Outbox.tla for every number of replies, chunks and         *)
(* attachments, with and without voice replies, and any number of failures *)
(* and crashes.                                                            *)
(***************************************************************************)
EXTENDS OutboxProperties, SequenceTheorems, FiniteSetTheorems, TLAPS

-----------------------------------------------------------------------------
(* The parts of a reply and the record at the head of the queue *)

LEMMA ReplyParts ==
  ASSUME NEW r \in Replies
  PROVE  /\ Chunks[r] \in Nat /\ Files[r] \in Nat
         /\ \A k \in 1 .. Chunks[r] : <<r, k>> \in TextParts(r) /\ <<r, k>> \in Parts
         /\ TextParts(r) \subseteq Parts
         /\ OwnFiles(r) \in Seq(Parts)
<1>1. Chunks[r] \in Nat /\ Files[r] \in Nat
  BY ConstantsAssumption
<1>2. \A k \in 1 .. Chunks[r] + Files[r] : <<r, k>> \in Parts
  BY <1>1 DEF Parts
<1>3. \A k \in 1 .. Chunks[r] : k \in 1 .. Chunks[r] + Files[r]
  BY <1>1
<1>4. \A i \in 1 .. Files[r] : Chunks[r] + i \in 1 .. Chunks[r] + Files[r]
  BY <1>1
<1>5. OwnFiles(r) \in [1 .. Files[r] -> Parts]
  BY <1>2, <1>4 DEF OwnFiles
<1>6. OwnFiles(r) \in Seq(Parts)
  BY <1>1, <1>5, SeqDef
<1>7. \A k \in 1 .. Chunks[r] : <<r, k>> \in TextParts(r)
  BY DEF TextParts
<1>8. TextParts(r) \subseteq Parts
  BY <1>2, <1>3 DEF TextParts
<1>9. QED
  BY <1>1, <1>2, <1>3, <1>6, <1>7, <1>8

LEMMA HeadRecord ==
  ASSUME TypeOK, box # <<>>
  PROVE  /\ 1 \in DOMAIN box /\ Rec = box[1] /\ Rec \in Records
         /\ Rec.sent <= Chunks[Rec.reply] /\ Rec.filesSent <= Len(Rec.files)
         /\ Tail(box) \in Seq(Records)
         /\ Len(Tail(box)) = Len(box) - 1
         /\ \A i \in DOMAIN Tail(box) : i + 1 \in DOMAIN box /\ Tail(box)[i] = box[i + 1]
         /\ \A i \in DOMAIN box : i = 1 \/ i - 1 \in DOMAIN Tail(box)
<1>1. box \in Seq(Records)
  BY DEF TypeOK, DiskTypes
<1>2. Len(box) \in Nat /\ DOMAIN box = 1 .. Len(box) /\ Len(box) # 0
  BY <1>1, EmptySeq, LenProperties
<1>3. Rec = box[1]
  BY <1>1, <1>2, HeadTailProperties DEF Rec
<1>4. /\ Tail(box) \in Seq(Records) /\ Len(Tail(box)) = Len(box) - 1
      /\ \A i \in 1 .. Len(Tail(box)) : Tail(box)[i] = box[i + 1]
  BY <1>1, <1>2, HeadTailProperties
<1>5. DOMAIN Tail(box) = 1 .. Len(box) - 1
  BY <1>4, LenProperties
<1>6. 1 \in DOMAIN box /\ box[1] \in Records
  BY <1>1, <1>2, ElementOfSeq
<1>7. Rec.sent <= Chunks[Rec.reply] /\ Rec.filesSent <= Len(Rec.files)
  BY <1>3, <1>6 DEF TypeOK, DiskTypes
<1>8. QED
  BY <1>2, <1>3, <1>4, <1>5, <1>6, <1>7

\* The next part is a part, and confirming it keeps the counters within the record.
LEMMA RecordProgress ==
  ASSUME TypeOK, box # <<>>, ~Complete(Rec)
  PROVE  /\ NextPart(Rec) \in Parts
         /\ Confirmed(Rec) \in Records
         /\ Confirmed(Rec).reply = Rec.reply
         /\ Confirmed(Rec).files = Rec.files
         /\ Confirmed(Rec).sent <= Chunks[Rec.reply]
         /\ Confirmed(Rec).filesSent <= Len(Rec.files)
<1>1. Rec \in Records /\ Rec.sent <= Chunks[Rec.reply] /\ Rec.filesSent <= Len(Rec.files)
  BY HeadRecord
<1>2. /\ Rec.reply \in Replies /\ Rec.sent \in Nat /\ Rec.filesSent \in Nat
      /\ Rec.files \in Seq(Parts)
  BY <1>1 DEF Records
<1>3. Chunks[Rec.reply] \in Nat
  BY <1>2, ReplyParts
<1>4. Len(Rec.files) \in Nat
  BY <1>2, LenProperties
<1>5. CASE TextLeft(Rec)
  <2>1. Rec.sent < Chunks[Rec.reply]
    BY <1>5 DEF TextLeft
  <2>2. Rec.sent + 1 \in 1 .. Chunks[Rec.reply]
    BY <2>1, <1>2, <1>3
  <2>3. NextPart(Rec) \in Parts
    BY <1>5, <2>2, <1>2, ReplyParts DEF NextPart
  <2>4. Confirmed(Rec) = [Rec EXCEPT !.sent = @ + 1]
    BY <1>5 DEF Confirmed
  <2>5. QED
    BY <2>1, <2>3, <2>4, <1>1, <1>2, <1>3, <1>4 DEF Records
<1>6. CASE ~TextLeft(Rec)
  <2>1. Rec.filesSent < Len(Rec.files)
    BY <1>6, <1>1, <1>2, <1>4 DEF Complete
  <2>2. Rec.filesSent + 1 \in 1 .. Len(Rec.files)
    BY <2>1, <1>2, <1>4
  <2>3. NextPart(Rec) \in Parts
    BY <1>6, <2>2, <1>2, ElementOfSeq DEF NextPart
  <2>4. Confirmed(Rec) = [Rec EXCEPT !.filesSent = @ + 1]
    BY <1>6 DEF Confirmed
  <2>5. QED
    BY <2>1, <2>3, <2>4, <1>1, <1>2, <1>3, <1>4 DEF Records
<1>7. QED
  BY <1>5, <1>6

-----------------------------------------------------------------------------
(* The building blocks of the actions keep the types *)

LEMMA FaultType ==
  ASSUME TypeOK, NEW k, Fault(k)
  PROVE  faults' \in 0 .. MaxFaults
BY ConstantsAssumption DEF Fault, TypeOK, HistoryTypes

LEMMA ShownType ==
  ASSUME TypeOK, NEW ps, Appears(ps)
  PROVE  /\ shown' \in [Parts -> Nat]
         /\ \A p \in Parts : shown'[p] >= shown[p]
         /\ \A p \in Parts \cap ps : shown'[p] > 0
BY DEF Appears, TypeOK, HistoryTypes

LEMMA MarkType ==
  ASSUME TypeOK, NEW r \in Replies, MarkSent(r) \/ MarkSentFails(r)
  PROVE  /\ sentMem' \in SUBSET Replies /\ sentDisk' \in SUBSET Replies
         /\ faults' \in 0 .. MaxFaults
         /\ sentMem' \subseteq sentMem \cup {r} /\ sentDisk' \subseteq sentDisk \cup {r}
BY ConstantsAssumption
   DEF MarkSent, MarkSentFails, Fault, TypeOK, DiskTypes, MemoryTypes, HistoryTypes

LEMMA PersistType ==
  ASSUME TypeOK, legacy' \in Seq(Replies), Persist
  PROVE  legacyDisk' \in Seq(Replies) /\ faults' \in 0 .. MaxFaults
BY FaultType DEF Persist, TypeOK, DiskTypes, HistoryTypes

LEMMA ReplyAtHand ==
  ASSUME TypeOK, PlacesOK, pc \in HandlingPlaces
  PROVE  todo \in Replies /\ todo < tpos /\ todo + 1 <= tpos
BY ConstantsAssumption DEF TypeOK, PlacesOK, AgentTypes, ReadTypes, Replies

\* A step that leaves a group of variables alone keeps its types.
LEMMA FrameTypes ==
  ASSUME TypeOK
  PROVE  /\ UNCHANGED agentVars => AgentTypes'
         /\ UNCHANGED diskVars => DiskTypes'
         /\ UNCHANGED memVars => MemoryTypes'
         /\ UNCHANGED <<histVars, faults, crashes>> => HistoryTypes'
BY DEF TypeOK, AgentTypes, DiskTypes, MemoryTypes, HistoryTypes, agentVars, diskVars,
       memVars, histVars

\* The counters of a record stay within the record.
Fits(rec) == rec.sent <= Chunks[rec.reply] /\ rec.filesSent <= Len(rec.files)
BoxOK(b) == b \in Seq(Records) /\ \A i \in DOMAIN b : Fits(b[i])

LEMMA BoxOf == DiskTypes => BoxOK(box)
BY DEF DiskTypes, BoxOK, Fits

\* An update of the head record ...
LEMMA HeadUpdate ==
  ASSUME TypeOK, box # <<>>, NEW rec \in Records, Fits(rec), box' = [box EXCEPT ![1] = rec]
  PROVE  /\ BoxOK(box') /\ DOMAIN box' = DOMAIN box /\ Head(box') = rec /\ box' # <<>>
         /\ \A i \in DOMAIN box : box'[i] = IF i = 1 THEN rec ELSE box[i]
<1>1. box \in Seq(Records) /\ 1 \in DOMAIN box
  BY HeadRecord DEF TypeOK, DiskTypes
<1>2. Len(box) \in Nat /\ DOMAIN box = 1 .. Len(box)
  BY <1>1, LenProperties
<1>3. box' \in Seq(Records) /\ Len(box') = Len(box)
  BY <1>1, <1>2, ExceptSeq
<1>4. DOMAIN box' = DOMAIN box
  OBVIOUS
<1>5. \A i \in DOMAIN box : box'[i] = IF i = 1 THEN rec ELSE box[i]
  OBVIOUS
<1>6. box' # <<>> /\ Head(box') = rec
  BY <1>1, <1>2, <1>3, <1>4, <1>5, EmptySeq, HeadTailProperties
<1>7. \A i \in DOMAIN box' : Fits(box'[i])
  BY <1>4, <1>5 DEF TypeOK, DiskTypes, Fits
<1>8. QED
  BY <1>3, <1>4, <1>5, <1>6, <1>7 DEF BoxOK

\* ... its removal ...
LEMMA HeadRemoval ==
  ASSUME TypeOK, box # <<>>, box' = Tail(box)
  PROVE  BoxOK(box')
BY HeadRecord DEF BoxOK, Fits, TypeOK, DiskTypes

\* ... and a new record at the end keep the outbox a queue of records.
LEMMA RecordAppended ==
  ASSUME TypeOK, NEW rec \in Records, Fits(rec), box' = Append(box, rec)
  PROVE  /\ BoxOK(box') /\ DOMAIN box' = DOMAIN box \cup {Len(box) + 1}
         /\ Len(box) + 1 \notin DOMAIN box
         /\ \A i \in DOMAIN box : box'[i] = box[i]
         /\ box'[Len(box) + 1] = rec /\ Head(box') = (IF box = <<>> THEN rec ELSE Head(box))
         /\ box' # <<>>
<1>1. box \in Seq(Records)
  BY DEF TypeOK, DiskTypes
<1>2. Len(box) \in Nat /\ DOMAIN box = 1 .. Len(box)
  BY <1>1, LenProperties
<1>3. /\ box' \in Seq(Records) /\ Len(box') = Len(box) + 1
      /\ \A i \in 1 .. Len(box) : box'[i] = box[i]
      /\ box'[Len(box) + 1] = rec
  BY <1>1, AppendProperties
<1>4. DOMAIN box' = 1 .. Len(box) + 1
  BY <1>3, LenProperties
<1>5. \A i \in DOMAIN box' : Fits(box'[i])
  BY <1>2, <1>3, <1>4 DEF TypeOK, DiskTypes, Fits
<1>6. box' # <<>> /\ Head(box') = box'[1]
  BY <1>2, <1>3, EmptySeq, HeadTailProperties
<1>7. Head(box') = (IF box = <<>> THEN rec ELSE Head(box))
  <2>1. CASE box = <<>>
    BY <2>1, <1>3, <1>6, EmptySeq
  <2>2. CASE box # <<>>
    BY <2>2, <1>1, <1>2, <1>3, <1>6, EmptySeq, HeadTailProperties
  <2>3. QED
    BY <2>1, <2>2
<1>8. QED
  BY <1>2, <1>3, <1>4, <1>5, <1>6, <1>7 DEF BoxOK

LEMMA NewRecord ==
  ASSUME TypeOK, PlacesOK, pc \in HandlingPlaces
  PROVE  /\ FilesNow \in Seq(Parts)
         /\ Record(todo, FilesNow) \in Records /\ Fits(Record(todo, FilesNow))
<1>1. todo \in Replies
  BY ReplyAtHand
<1>2. FilesNow \in Seq(Parts)
  BY <1>1, ReplyParts, ConcatProperties DEF FilesNow, TypeOK, MemoryTypes
<1>3. Len(FilesNow) \in Nat /\ Chunks[todo] \in Nat
  BY <1>1, <1>2, LenProperties, ReplyParts
<1>4. QED
  BY <1>1, <1>2, <1>3 DEF Record, Records, Fits

\* The reply at hand is dealt with.
LEMMA NextReplyPlace ==
  ASSUME TypeOK, PlacesOK, pc \in HandlingPlaces, NextReply, UNCHANGED <<written, tpos>>
  PROVE  /\ ReadTypes'
         /\ \/ pc' = "flush" /\ todo' = tpos
            \/ pc' = "store" /\ todo' < tpos
         /\ todo \in Replies /\ todo' = todo + 1
BY ReplyAtHand DEF NextReply, TypeOK, ReadTypes

-----------------------------------------------------------------------------
(* TypeOK is inductive: one case for each operation of the outbound thread, the agent's *)
(* steps and a restart.                                                                 *)

\* The steps at the head of the outbox.
LEMMA FlushOutboxTypes == TypeOK /\ PlacesOK /\ FlushOutbox => TypeOK'
<1> SUFFICES ASSUME TypeOK, PlacesOK, FlushOutbox
             PROVE  TypeOK'
  OBVIOUS
<1>1. AgentTypes'
  BY FrameTypes
     DEF FlushOutbox, HeadOfQueue, SendPart, AnswerLost, ChunkFails, AttachmentFails,
         AttachmentRefused, ConfirmPart, CountAttempt, GiveUp, RecordDelivered, RemoveRecord
<1>2. ReadTypes'
  BY DEF FlushOutbox, HeadOfQueue, SendPart, AnswerLost, ChunkFails, AttachmentFails,
         AttachmentRefused, ConfirmPart, CountAttempt, GiveUp, RecordDelivered, RemoveRecord,
         Abort, TypeOK, ReadTypes, readVars, agentVars
<1>3. HistoryTypes'
  <2>1. CASE HeadOfQueue \/ ConfirmPart \/ GiveUp \/ RemoveRecord
    BY <2>1, FaultType
       DEF HeadOfQueue, ConfirmPart, GiveUp, RemoveRecord, Abort, TypeOK, HistoryTypes, histVars
  <2>2. CASE SendPart \/ AnswerLost
    BY <2>2, FaultType, ShownType DEF SendPart, AnswerLost, TypeOK, HistoryTypes
  <2>3. CASE ChunkFails \/ AttachmentFails
    BY <2>3, FaultType DEF ChunkFails, AttachmentFails, TypeOK, HistoryTypes, histVars
  <2>4. CASE AttachmentRefused
    BY <2>4, RecordProgress
       DEF AttachmentRefused, PlacesOK, RecordPlaces, TypeOK, HistoryTypes
  <2>5. CASE CountAttempt
    <3>1. NextPart(Rec) \in Parts
      BY <2>5, RecordProgress DEF CountAttempt, PlacesOK, RecordPlaces
    <3>2. refused' \in SUBSET Parts
      BY <2>5, <3>1 DEF CountAttempt, TypeOK, HistoryTypes
    <3>3. faults' \in 0 .. MaxFaults
      BY <2>5, FaultType DEF CountAttempt, Abort, TypeOK, HistoryTypes
    <3>4. QED
      BY <2>5, <3>2, <3>3 DEF CountAttempt, TypeOK, HistoryTypes
  <2>6. CASE RecordDelivered
    <3>1. Rec.reply \in Replies
      BY <2>6, HeadRecord DEF RecordDelivered, PlacesOK, RecordPlaces, Records
    <3>2. faults' \in 0 .. MaxFaults
      BY <2>6, <3>1, MarkType DEF RecordDelivered
    <3>3. QED
      BY <2>6, <3>2 DEF RecordDelivered, TypeOK, HistoryTypes, histVars
  <2>7. QED
    BY <2>1, <2>2, <2>3, <2>4, <2>5, <2>6 DEF FlushOutbox
<1>4. MemoryTypes'
  <2>1. CASE RecordDelivered
    <3>1. Rec.reply \in Replies
      BY <2>1, HeadRecord DEF RecordDelivered, PlacesOK, RecordPlaces, Records
    <3>2. QED
      BY <2>1, <3>1, MarkType DEF RecordDelivered, TypeOK, MemoryTypes
  <2>2. CASE ~RecordDelivered
    BY <2>2, FrameTypes
       DEF FlushOutbox, HeadOfQueue, SendPart, AnswerLost, ChunkFails, AttachmentFails,
           AttachmentRefused, ConfirmPart, CountAttempt, GiveUp, RemoveRecord
  <2>3. QED
    BY <2>1, <2>2
<1>5. DiskTypes'
  <2>1. CASE HeadOfQueue \/ SendPart \/ AnswerLost \/ ChunkFails \/ AttachmentFails
                \/ AttachmentRefused
    BY <2>1, FrameTypes
       DEF HeadOfQueue, SendPart, AnswerLost, ChunkFails, AttachmentFails, AttachmentRefused
  <2>2. CASE ConfirmPart
    <3>1. BoxOK(box')
      <4>1. box # <<>> /\ ~Complete(Rec)
        BY <2>2 DEF ConfirmPart, PlacesOK, RecordPlaces
      <4>2. Confirmed(Rec) \in Records /\ Fits(Confirmed(Rec))
        BY <4>1, RecordProgress DEF Fits
      <4>3. box' = [box EXCEPT ![1] = Confirmed(Rec)] \/ box' = box
        BY <2>2, <4>1, HeadRecord DEF ConfirmPart
      <4>4. QED
        BY <4>1, <4>2, <4>3, HeadUpdate, BoxOf DEF TypeOK
    <3>2. QED
      BY <2>2, <3>1 DEF ConfirmPart, BoxOK, Fits, TypeOK, DiskTypes
  <2>3. CASE CountAttempt
    <3>1. BoxOK(box')
      <4>1. box # <<>>
        BY <2>3 DEF CountAttempt, PlacesOK, RecordPlaces
      <4> DEFINE counted == [Rec EXCEPT !.attempts = @ + 1]
      <4>2. Rec \in Records /\ Fits(Rec)
        BY <4>1, HeadRecord DEF Fits
      <4>3. counted \in Records /\ Fits(counted)
        BY <4>2 DEF Records, Fits
      <4>4. box' = [box EXCEPT ![1] = counted] \/ box' = box
        BY <2>3, <4>1, HeadRecord DEF CountAttempt
      <4>5. QED
        BY <4>1, <4>3, <4>4, HeadUpdate, BoxOf DEF TypeOK
    <3>2. QED
      BY <2>3, <3>1 DEF CountAttempt, BoxOK, Fits, TypeOK, DiskTypes
  <2>4. CASE GiveUp
    <3>1. box # <<>> /\ Rec.reply \in Replies
      BY <2>4, HeadRecord DEF GiveUp, PlacesOK, RecordPlaces, Records
    <3>2. BoxOK(box')
      BY <2>4, <3>1, HeadRemoval, BoxOf DEF GiveUp, TypeOK
    <3>3. QED
      BY <2>4, <3>1, <3>2 DEF GiveUp, BoxOK, Fits, TypeOK, DiskTypes
  <2>5. CASE RecordDelivered
    <3>1. Rec.reply \in Replies
      BY <2>5, HeadRecord DEF RecordDelivered, PlacesOK, RecordPlaces, Records
    <3>2. sentDisk' \in SUBSET Replies
      BY <2>5, <3>1, MarkType DEF RecordDelivered
    <3>3. QED
      BY <2>5, <3>2 DEF RecordDelivered, TypeOK, DiskTypes
  <2>6. CASE RemoveRecord
    <3>1. BoxOK(box')
      BY <2>6, HeadRemoval, BoxOf DEF RemoveRecord, PlacesOK, RecordPlaces, TypeOK
    <3>2. QED
      BY <2>6, <3>1 DEF RemoveRecord, BoxOK, Fits, TypeOK, DiskTypes
  <2>7. QED
    BY <2>1, <2>2, <2>3, <2>4, <2>5, <2>6 DEF FlushOutbox
<1>6. QED
  BY <1>1, <1>2, <1>3, <1>4, <1>5 DEF TypeOK

\* The steps on the old queue.
LEMMA FlushLegacyTypes == TypeOK /\ PlacesOK /\ FlushLegacy => TypeOK'
<1> SUFFICES ASSUME TypeOK, PlacesOK, FlushLegacy
             PROVE  TypeOK'
  OBVIOUS
<1>1. AgentTypes'
  BY FrameTypes DEF FlushLegacy, LegacySend, LegacyPop, LegacyMark
<1>2. ReadTypes'
  BY DEF FlushLegacy, LegacySend, LegacyPop, LegacyMark, TypeOK, ReadTypes, readVars, agentVars
<1>3. CASE LegacySend
  <2>1. HistoryTypes'
    BY <1>3, FaultType, ShownType DEF LegacySend, TypeOK, HistoryTypes
  <2>2. QED
    BY <1>1, <1>2, <1>3, <2>1, FrameTypes DEF LegacySend, TypeOK
<1>4. CASE LegacyPop
  <2>1. legacy \in Seq(Replies) /\ legacy # <<>>
    BY <1>4 DEF LegacyPop, PlacesOK, TypeOK, MemoryTypes
  <2>2. Tail(legacy) \in Seq(Replies) /\ Head(legacy) \in Replies
    BY <2>1, HeadTailProperties
  <2>3. legacy' \in Seq(Replies) /\ popped' \in 0 .. LastReply
    BY <1>4, <2>2, ConstantsAssumption DEF LegacyPop, Replies
  <2>4. legacyDisk' \in Seq(Replies) /\ faults' \in 0 .. MaxFaults
    BY <1>4, <2>3, PersistType DEF LegacyPop
  <2>5. DiskTypes' /\ MemoryTypes' /\ HistoryTypes'
    BY <1>4, <2>3, <2>4
       DEF LegacyPop, TypeOK, DiskTypes, MemoryTypes, HistoryTypes, histVars
  <2>6. QED
    BY <1>1, <1>2, <2>5 DEF TypeOK
<1>5. CASE LegacyMark
  <2>1. popped \in Replies
    BY <1>5 DEF LegacyMark, PlacesOK
  <2>2. /\ sentMem' \in SUBSET Replies /\ sentDisk' \in SUBSET Replies
        /\ faults' \in 0 .. MaxFaults
    BY <1>5, <2>1, MarkType DEF LegacyMark
  <2>3. DiskTypes' /\ MemoryTypes' /\ HistoryTypes'
    BY <1>5, <2>2, ConstantsAssumption
       DEF LegacyMark, TypeOK, DiskTypes, MemoryTypes, HistoryTypes, histVars
  <2>4. QED
    BY <1>1, <1>2, <2>3 DEF TypeOK
<1>6. QED
  BY <1>3, <1>4, <1>5 DEF FlushLegacy

\* The steps on what was read from the transcript.
LEMMA DrainTypes == TypeOK /\ PlacesOK /\ DrainTranscript => TypeOK'
<1> SUFFICES ASSUME TypeOK, PlacesOK, DrainTranscript
             PROVE  TypeOK'
  OBVIOUS
<1>1. AgentTypes'
  BY FrameTypes
     DEF DrainTranscript, Drain, DrainAborts, SkipSent, Speak, SpeakFails, MarkSpoken, Enqueue,
         EnqueueFails, DirectSend, LegacyAppend, DirectMark, FlushFiles
<1>2. CASE Drain
  <2>1. ReadTypes'
    BY <1>2 DEF Drain, TypeOK, ReadTypes, AgentTypes, agentVars
  <2>2. QED
    BY <1>1, <1>2, <2>1, FrameTypes DEF Drain, TypeOK
<1>3. CASE DrainAborts
  <2>1. ReadTypes'
    BY <1>3 DEF DrainAborts, Abort, TypeOK, ReadTypes, agentVars
  <2>2. todo .. tpos - 1 \subseteq Replies
    BY <1>3, ConstantsAssumption DEF TypeOK, ReadTypes, AgentTypes, Replies
  <2>3. HistoryTypes'
    BY <1>3, <2>2, FaultType DEF DrainAborts, Abort, TypeOK, HistoryTypes
  <2>4. QED
    BY <1>1, <1>3, <2>1, <2>3, FrameTypes DEF DrainAborts, TypeOK
<1>4. CASE SkipSent
  <2>1. ReadTypes'
    BY <1>4, NextReplyPlace DEF SkipSent, HandlingPlaces, agentVars
  <2>2. QED
    BY <1>1, <1>4, <2>1, FrameTypes DEF SkipSent, TypeOK
<1>5. CASE Speak \/ SpeakFails \/ DirectSend
  <2>1. ReadTypes'
    BY <1>5 DEF Speak, SpeakFails, DirectSend, TypeOK, ReadTypes, readVars, agentVars
  <2>2. HistoryTypes'
    BY <1>5, ShownType, FaultType DEF Speak, SpeakFails, DirectSend, TypeOK, HistoryTypes
  <2>3. QED
    BY <1>1, <1>5, <2>1, <2>2, FrameTypes DEF Speak, SpeakFails, DirectSend, TypeOK
<1>6. CASE MarkSpoken \/ DirectMark
  <2>1. todo \in Replies
    BY <1>6, ReplyAtHand DEF MarkSpoken, DirectMark, HandlingPlaces
  <2>2. /\ sentMem' \in SUBSET Replies /\ sentDisk' \in SUBSET Replies
        /\ faults' \in 0 .. MaxFaults
    BY <1>6, <2>1, MarkType DEF MarkSpoken, DirectMark
  <2>3. ReadTypes'
    <3>1. CASE MarkSpoken
      BY <3>1, NextReplyPlace DEF MarkSpoken, HandlingPlaces, agentVars
    <3>2. CASE DirectMark
      BY <3>2 DEF DirectMark, TypeOK, ReadTypes, readVars, agentVars
    <3>3. QED
      BY <1>6, <3>1, <3>2
  <2>4. DiskTypes' /\ MemoryTypes' /\ HistoryTypes'
    BY <1>6, <2>2
       DEF MarkSpoken, DirectMark, TypeOK, DiskTypes, MemoryTypes, HistoryTypes, histVars
  <2>5. QED
    BY <1>1, <2>3, <2>4 DEF TypeOK
<1>7. CASE Enqueue
  <2>1. pc \in HandlingPlaces
    BY <1>7 DEF Enqueue, Storing, HandlingPlaces
  <2>2. ReadTypes'
    BY <1>7, <2>1, NextReplyPlace DEF Enqueue, agentVars
  <2>3. BoxOK(box')
    <3>1. Record(todo, FilesNow) \in Records /\ Fits(Record(todo, FilesNow))
      BY <2>1, NewRecord
    <3>2. box' = Append(box, Record(todo, FilesNow)) \/ box' = box
      BY <1>7 DEF Enqueue
    <3>3. QED
      BY <3>1, <3>2, RecordAppended, BoxOf DEF TypeOK
  <2>4. DiskTypes'
    BY <1>7, <2>3 DEF Enqueue, BoxOK, Fits, TypeOK, DiskTypes
  <2>5. MemoryTypes'
    BY <1>7, EmptySeq DEF Enqueue, TypeOK, MemoryTypes
  <2>6. QED
    BY <1>1, <1>7, <2>2, <2>4, <2>5, FrameTypes DEF Enqueue, TypeOK
<1>8. CASE EnqueueFails
  <2>1. FilesNow \in Seq(Parts)
    BY <1>8, NewRecord DEF EnqueueFails, Storing, HandlingPlaces
  <2>2. MemoryTypes'
    BY <1>8, <2>1 DEF EnqueueFails, TypeOK, MemoryTypes
  <2>3. ReadTypes'
    BY <1>8 DEF EnqueueFails, TypeOK, ReadTypes, readVars, agentVars
  <2>4. faults' \in 0 .. MaxFaults
    BY <1>8, FaultType DEF EnqueueFails, TypeOK, HistoryTypes
  <2>5. HistoryTypes'
    BY <1>8, <2>4 DEF EnqueueFails, TypeOK, HistoryTypes, histVars
  <2>6. QED
    BY <1>1, <1>8, <2>2, <2>3, <2>5, FrameTypes DEF EnqueueFails, TypeOK
<1>9. CASE LegacyAppend
  <2>1. ReadTypes' /\ todo \in Replies
    BY <1>9, NextReplyPlace DEF LegacyAppend, HandlingPlaces, agentVars
  <2>2. legacy' \in Seq(Replies)
    BY <1>9, <2>1, AppendProperties DEF LegacyAppend, TypeOK, MemoryTypes
  <2>3. legacyDisk' \in Seq(Replies) /\ faults' \in 0 .. MaxFaults
    BY <1>9, <2>2, PersistType DEF LegacyAppend
  <2>4. DiskTypes' /\ MemoryTypes' /\ HistoryTypes'
    BY <1>9, <2>2, <2>3
       DEF LegacyAppend, TypeOK, DiskTypes, MemoryTypes, HistoryTypes, histVars
  <2>5. QED
    BY <1>1, <2>1, <2>4 DEF TypeOK
<1>10. CASE FlushFiles
  <2>1. ReadTypes'
    BY <1>10, NextReplyPlace DEF FlushFiles, HandlingPlaces, agentVars
  <2>2. Range(carried) \subseteq Parts
    BY ElementOfSeq, LenProperties DEF TypeOK, MemoryTypes, Range
  <2>3. shown' \in [Parts -> Nat]
    BY <1>10, ShownType DEF FlushFiles
  <2>4. refused' \in SUBSET Parts
    BY <1>10, <2>2 DEF FlushFiles, TypeOK, HistoryTypes
  <2>5. HistoryTypes'
    BY <1>10, <2>3, <2>4 DEF FlushFiles, TypeOK, HistoryTypes
  <2>6. MemoryTypes'
    BY <1>10, EmptySeq DEF FlushFiles, TypeOK, MemoryTypes
  <2>7. QED
    BY <1>1, <1>10, <2>1, <2>5, <2>6, FrameTypes DEF FlushFiles, TypeOK
<1>11. QED
  BY <1>2, <1>3, <1>4, <1>5, <1>6, <1>7, <1>8, <1>9, <1>10 DEF DrainTranscript

\* A restart takes memory from the disk and drops only replies.
LEMMA RestartTypes == TypeOK /\ Restart => TypeOK'
<1> SUFFICES ASSUME TypeOK, Restart
             PROVE  TypeOK'
  OBVIOUS
<1>1. Resume \in 1 .. written + 1 /\ written \in Nat
  BY ConstantsAssumption DEF Resume, TypeOK, AgentTypes
<1>2. ReadTypes'
  BY <1>1 DEF Restart, TypeOK, AgentTypes, ReadTypes, agentVars
<1>3. MemoryTypes'
  BY EmptySeq, ConstantsAssumption DEF Restart, TypeOK, DiskTypes, MemoryTypes
<1>4. todo .. written \subseteq Replies
  BY <1>1, ConstantsAssumption DEF TypeOK, ReadTypes, AgentTypes, Replies
<1>5. Range(legacy) \subseteq Replies
  BY ElementOfSeq, LenProperties DEF TypeOK, MemoryTypes, Range
<1>6. skipped' \in SUBSET Replies
  BY <1>4, <1>5 DEF Restart, TypeOK, HistoryTypes
<1>7. crashes' \in 0 .. MaxCrashes
  BY ConstantsAssumption DEF Restart, TypeOK, HistoryTypes
<1>8. HistoryTypes'
  BY <1>6, <1>7 DEF Restart, TypeOK, HistoryTypes
<1>9. QED
  BY <1>2, <1>3, <1>8, FrameTypes DEF Restart, TypeOK

LEMMA TypeStep == TypeOK /\ PlacesOK /\ [Next]_vars => TypeOK'
<1> SUFFICES ASSUME TypeOK, PlacesOK, [Next]_vars
             PROVE  TypeOK'
  OBVIOUS
<1>1. CASE AgentReplies \/ NewTurn
  <2>1. AgentTypes'
    BY <1>1, ConstantsAssumption DEF AgentReplies, NewTurn, TypeOK, AgentTypes
  <2>2. ReadTypes'
    BY <1>1 DEF AgentReplies, NewTurn, TypeOK, AgentTypes, ReadTypes, readVars
  <2>3. QED
    BY <1>1, <2>1, <2>2, FrameTypes DEF AgentReplies, NewTurn, TypeOK
<1>2. CASE UNCHANGED vars
  BY <1>2, FrameTypes DEF vars, TypeOK, ReadTypes, readVars, agentVars
<1>3. QED
  BY <1>1, <1>2, FlushOutboxTypes, FlushLegacyTypes, DrainTypes, RestartTypes
     DEF Next, Outbound

-----------------------------------------------------------------------------
(* What the place of the thread says stays true. *)

LEMMA HeadUnchanged ==
  UNCHANGED box => (Complete(Rec)' = Complete(Rec)) /\ (TextLeft(Rec)' = TextLeft(Rec))
BY DEF Rec, Complete, TextLeft

LEMMA PlacesStep == TypeOK /\ PlacesOK /\ [Next]_vars => PlacesOK'
<1> SUFFICES ASSUME TypeOK, PlacesOK, [Next]_vars
             PROVE  PlacesOK'
  OBVIOUS
<1>1. CASE AgentReplies \/ NewTurn \/ UNCHANGED vars
  BY <1>1, HeadUnchanged
     DEF AgentReplies, NewTurn, vars, diskVars, memVars, readVars, PlacesOK
<1>2. CASE FlushOutbox
  <2>1. CASE HeadOfQueue
    BY <2>1 DEF HeadOfQueue, Abort, PlacesOK, RecordPlaces, HandlingPlaces, diskVars, readVars
  <2>2. CASE SendPart \/ AnswerLost \/ ChunkFails \/ AttachmentFails \/ AttachmentRefused
    BY <2>2, HeadUnchanged
       DEF SendPart, AnswerLost, ChunkFails, AttachmentFails, AttachmentRefused, PlacesOK,
           RecordPlaces, HandlingPlaces, diskVars, readVars
  <2>3. CASE ConfirmPart
    <3>1. box # <<>> /\ ~Complete(Rec)
      BY <2>3 DEF ConfirmPart, PlacesOK, RecordPlaces
    <3>2. pc' = "send" => box' # <<>>
      <4>1. Confirmed(Rec) \in Records /\ Fits(Confirmed(Rec))
        BY <3>1, RecordProgress DEF Fits
      <4>2. pc' = "send" => box' = [box EXCEPT ![1] = Confirmed(Rec)]
        BY <2>3, <3>1, HeadRecord DEF ConfirmPart, Abort
      <4>3. QED
        BY <3>1, <4>1, <4>2, HeadUpdate
    <3>3. QED
      BY <2>3, <3>2 DEF ConfirmPart, Abort, PlacesOK, RecordPlaces, HandlingPlaces, readVars
  <2>4. CASE CountAttempt
    <3>1. box # <<>>
      BY <2>4 DEF CountAttempt, PlacesOK, RecordPlaces
    <3> DEFINE counted == [Rec EXCEPT !.attempts = @ + 1]
    <3>2. counted \in Records /\ Fits(counted)
      <4>1. Rec \in Records /\ Fits(Rec)
        BY <3>1, HeadRecord DEF Fits
      <4>2. QED
        BY <4>1 DEF Records, Fits
    <3>3. pc' # "flush" => box' = [box EXCEPT ![1] = counted]
      BY <2>4, <3>1, HeadRecord DEF CountAttempt, Abort
    <3>4. pc' # "flush" => box' # <<>>
      BY <3>1, <3>2, <3>3, HeadUpdate
    <3>5. QED
      BY <2>4, <3>4 DEF CountAttempt, Abort, PlacesOK, RecordPlaces, HandlingPlaces, readVars
  <2>5. CASE GiveUp \/ RemoveRecord
    BY <2>5 DEF GiveUp, RemoveRecord, Abort, PlacesOK, RecordPlaces, HandlingPlaces, readVars,
                diskVars
  <2>6. CASE RecordDelivered
    BY <2>6, HeadUnchanged
       DEF RecordDelivered, PlacesOK, RecordPlaces, HandlingPlaces, readVars
  <2>7. QED
    BY <1>2, <2>1, <2>2, <2>3, <2>4, <2>5, <2>6 DEF FlushOutbox
<1>3. CASE FlushLegacy
  <2>1. CASE LegacySend
    BY <2>1 DEF LegacySend, PlacesOK, RecordPlaces, HandlingPlaces, readVars, memVars
  <2>2. CASE LegacyPop
    <3>1. Head(legacy) \in Replies
      BY <2>2, HeadTailProperties DEF LegacyPop, PlacesOK, TypeOK, MemoryTypes
    <3>2. QED
      BY <2>2, <3>1 DEF LegacyPop, PlacesOK, RecordPlaces, HandlingPlaces, readVars
  <2>3. CASE LegacyMark
    BY <2>3 DEF LegacyMark, PlacesOK, RecordPlaces, HandlingPlaces, readVars
  <2>4. QED
    BY <1>3, <2>1, <2>2, <2>3 DEF FlushLegacy
<1>4. CASE DrainTranscript
  <2>1. CASE Drain
    BY <2>1 DEF Drain, TypeOK, ReadTypes, AgentTypes, PlacesOK, RecordPlaces, HandlingPlaces
  <2>2. CASE DrainAborts
    BY <2>2 DEF DrainAborts, Abort, PlacesOK, RecordPlaces, HandlingPlaces
  <2>3. CASE SkipSent \/ MarkSpoken \/ Enqueue \/ LegacyAppend \/ FlushFiles
    <3>1. pc \in HandlingPlaces /\ NextReply /\ UNCHANGED <<written, tpos>>
      BY <2>3 DEF SkipSent, MarkSpoken, Enqueue, LegacyAppend, FlushFiles, Storing,
                  HandlingPlaces, agentVars
    <3>2. (pc' = "flush" /\ todo' = tpos) \/ (pc' = "store" /\ todo' < tpos)
      BY <3>1, NextReplyPlace
    <3>3. QED
      BY <3>1, <3>2 DEF PlacesOK, RecordPlaces, HandlingPlaces
  <2>4. CASE Speak \/ SpeakFails \/ EnqueueFails \/ DirectSend \/ DirectMark
    BY <2>4 DEF Speak, SpeakFails, EnqueueFails, DirectSend, DirectMark, Storing, PlacesOK,
                RecordPlaces, HandlingPlaces, readVars
  <2>5. QED
    BY <1>4, <2>1, <2>2, <2>3, <2>4 DEF DrainTranscript
<1>5. CASE Restart
  BY <1>5 DEF Restart, PlacesOK, RecordPlaces, HandlingPlaces
<1>6. QED
  BY <1>1, <1>2, <1>3, <1>4, <1>5 DEF Next, Outbound

-----------------------------------------------------------------------------
(* Shown parts stay shown, so what the queues and the ledger say of them stays true. *)

LEMMA ShownGrows ==
  ASSUME TypeOK, [Next]_vars
  PROVE  \A p \in Parts : shown[p] \in Nat /\ shown'[p] \in Nat /\ shown'[p] >= shown[p]
<1>1. CASE UNCHANGED shown
  BY <1>1 DEF TypeOK, HistoryTypes
<1>2. CASE \E ps : Appears(ps)
  BY <1>2, ShownType DEF TypeOK, HistoryTypes
<1>3. UNCHANGED shown \/ \E ps : Appears(ps)
  <2>1. CASE AgentReplies \/ NewTurn \/ Restart \/ UNCHANGED vars
    BY <2>1 DEF AgentReplies, NewTurn, Restart, vars, histVars
  <2>2. CASE FlushOutbox
    BY <2>2 DEF FlushOutbox, HeadOfQueue, SendPart, AnswerLost, ChunkFails, AttachmentFails,
                AttachmentRefused, ConfirmPart, CountAttempt, GiveUp, RecordDelivered,
                RemoveRecord, histVars
  <2>3. CASE FlushLegacy
    BY <2>3 DEF FlushLegacy, LegacySend, LegacyPop, LegacyMark, histVars
  <2>4. CASE DrainTranscript
    BY <2>4 DEF DrainTranscript, Drain, DrainAborts, SkipSent, Speak, SpeakFails, MarkSpoken,
                Enqueue, EnqueueFails, DirectSend, LegacyAppend, DirectMark, FlushFiles,
                histVars
  <2>5. QED
    BY <2>1, <2>2, <2>3, <2>4 DEF Next, Outbound
<1>4. QED
  BY <1>1, <1>2, <1>3

LEMMA TextStaysShown ==
  ASSUME TypeOK, [Next]_vars, NEW r \in Replies, TextShown(r)
  PROVE  TextShown(r)'
BY ShownGrows, ReplyParts DEF TextShown

\* A record that is complete has had its whole text shown.
LEMMA CompleteShown ==
  ASSUME TypeOK, ConfirmedShown, box # <<>>, Complete(Rec)
  PROVE  Rec.reply \in Replies /\ TextShown(Rec.reply)
<1>1. /\ 1 \in DOMAIN box /\ Rec = box[1] /\ Rec \in Records
      /\ Rec.sent <= Chunks[Rec.reply]
  BY HeadRecord
<1>2. Rec.reply \in Replies /\ Rec.sent \in Nat
  BY <1>1 DEF Records
<1>3. Rec.sent = Chunks[Rec.reply]
  BY <1>1, <1>2, ReplyParts DEF Complete, TextLeft
<1>4. \A k \in 1 .. Chunks[Rec.reply] : shown[<<Rec.reply, k>>] > 0
  BY <1>1, <1>3 DEF ConfirmedShown
<1>5. QED
  BY <1>2, <1>4 DEF TextShown, TextParts

\* A queue whose records are old ones, as far as chunks are concerned, or new ones.
LEMMA ConfirmedStep ==
  DeliveryInv /\ [Next]_vars => ConfirmedShown'
<1> SUFFICES ASSUME DeliveryInv, [Next]_vars
             PROVE  ConfirmedShown'
  OBVIOUS
<1>1. TypeOK /\ PlacesOK /\ ConfirmedShown /\ PlaceShown
  BY DEF DeliveryInv
<1>2. /\ \A i \in DOMAIN box : box[i].reply \in Replies /\ box[i].sent \in Nat
                               /\ box[i].sent <= Chunks[box[i].reply]
      /\ \A r \in Replies : Chunks[r] \in Nat
  <2>1. box \in Seq(Records) /\ DOMAIN box = 1 .. Len(box)
    BY <1>1, LenProperties DEF TypeOK, DiskTypes
  <2>2. \A i \in DOMAIN box : box[i] \in Records
    BY <2>1, ElementOfSeq
  <2>3. QED
    BY <1>1, <2>2, ReplyParts DEF TypeOK, DiskTypes, Records
<1>3. \A p \in Parts : shown[p] \in Nat /\ shown'[p] \in Nat /\ shown'[p] >= shown[p]
  BY <1>1, ShownGrows
<1>4. \A i \in DOMAIN box : \A k \in 1 .. box[i].sent : shown'[<<box[i].reply, k>>] > 0
  <2> SUFFICES ASSUME NEW i \in DOMAIN box, NEW k \in 1 .. box[i].sent
               PROVE  shown'[<<box[i].reply, k>>] > 0
    OBVIOUS
  <2>1. k \in 1 .. Chunks[box[i].reply]
    BY <1>2
  <2>2. <<box[i].reply, k>> \in Parts
    BY <2>1, <1>2, ReplyParts
  <2>3. shown[<<box[i].reply, k>>] > 0
    BY <1>1 DEF ConfirmedShown
  <2>4. QED
    BY <2>2, <2>3, <1>3
<1>5. CASE UNCHANGED box
  BY <1>4, <1>5 DEF ConfirmedShown
<1>6. CASE ConfirmPart
  <2>1. box # <<>> /\ ~Complete(Rec) /\ pc = "confirm"
    BY <1>1, <1>6 DEF ConfirmPart, PlacesOK, RecordPlaces
  <2>2. 1 \in DOMAIN box /\ Rec = box[1]
    BY <1>1, <2>1, HeadRecord
  <2>3. CASE box' = [box EXCEPT ![1] = Confirmed(Rec)]
    <3>1. /\ Confirmed(Rec) \in Records /\ Fits(Confirmed(Rec))
          /\ Confirmed(Rec).reply = Rec.reply
      BY <1>1, <2>1, RecordProgress DEF Fits
    <3>2. /\ DOMAIN box' = DOMAIN box
          /\ \A i \in DOMAIN box : box'[i] = IF i = 1 THEN Confirmed(Rec) ELSE box[i]
      BY <1>1, <2>1, <2>3, <3>1, HeadUpdate
    <3>3. Rec \in Records
      BY <1>1, <2>1, HeadRecord
    <3>4. CASE TextLeft(Rec)
      <4>1. Confirmed(Rec).sent = Rec.sent + 1
        BY <3>3, <3>4 DEF Confirmed, Records
      <4>2. shown[<<Rec.reply, Rec.sent + 1>>] > 0
        BY <1>1, <2>1, <3>4 DEF PlaceShown, NextPart
      <4>3. shown' = shown
        BY <1>6 DEF ConfirmPart, histVars
      <4>4. \A k \in 1 .. Confirmed(Rec).sent : shown'[<<Rec.reply, k>>] > 0
        BY <1>2, <1>4, <2>2, <4>1, <4>2, <4>3
      <4>5. QED
        BY <1>4, <2>2, <3>1, <3>2, <4>4 DEF ConfirmedShown
    <3>5. CASE ~TextLeft(Rec)
      <4>1. Confirmed(Rec).sent = Rec.sent
        BY <3>3, <3>5 DEF Confirmed, Records
      <4>2. QED
        BY <1>4, <2>2, <3>1, <3>2, <4>1 DEF ConfirmedShown
    <3>6. QED
      BY <3>4, <3>5
  <2>4. QED
    BY <1>5, <1>6, <2>1, <2>2, <2>3 DEF ConfirmPart
<1>7. CASE CountAttempt
  <2>1. box # <<>>
    BY <1>1, <1>7 DEF CountAttempt, PlacesOK, RecordPlaces
  <2> DEFINE counted == [Rec EXCEPT !.attempts = @ + 1]
  <2>2. 1 \in DOMAIN box /\ Rec = box[1] /\ Rec \in Records /\ Fits(Rec)
    BY <1>1, <2>1, HeadRecord DEF Fits
  <2>3. /\ counted \in Records /\ Fits(counted)
        /\ counted.reply = Rec.reply /\ counted.sent = Rec.sent
    BY <2>2 DEF Records, Fits
  <2>4. CASE box' = [box EXCEPT ![1] = counted]
    <3>1. /\ DOMAIN box' = DOMAIN box
          /\ \A i \in DOMAIN box : box'[i] = IF i = 1 THEN counted ELSE box[i]
      BY <1>1, <2>1, <2>3, <2>4, HeadUpdate
    <3>2. QED
      BY <1>4, <2>2, <2>3, <3>1 DEF ConfirmedShown
  <2>5. QED
    BY <1>5, <1>7, <2>1, <2>2, <2>4 DEF CountAttempt
<1>8. CASE GiveUp \/ RemoveRecord
  <2>1. box # <<>>
    BY <1>1, <1>8 DEF GiveUp, RemoveRecord, PlacesOK, RecordPlaces
  <2>2. CASE box' = Tail(box)
    <3>1. \A i \in DOMAIN box' : i + 1 \in DOMAIN box /\ box'[i] = box[i + 1]
      BY <1>1, <2>1, <2>2, HeadRecord
    <3>2. QED
      BY <1>4, <3>1 DEF ConfirmedShown
  <2>3. QED
    BY <1>5, <1>8, <2>2 DEF GiveUp, RemoveRecord
<1>9. CASE Enqueue
  <2>1. Record(todo, FilesNow) \in Records /\ Fits(Record(todo, FilesNow))
    BY <1>1, <1>9, NewRecord DEF Enqueue, Storing, HandlingPlaces
  <2>2. CASE box' = Append(box, Record(todo, FilesNow))
    <3>1. /\ DOMAIN box' = DOMAIN box \cup {Len(box) + 1}
          /\ \A i \in DOMAIN box : box'[i] = box[i]
          /\ box'[Len(box) + 1] = Record(todo, FilesNow)
      BY <1>1, <2>1, <2>2, RecordAppended
    <3>2. Record(todo, FilesNow).sent = 0
      BY DEF Record
    <3>3. QED
      BY <1>4, <3>1, <3>2 DEF ConfirmedShown
  <2>3. QED
    BY <1>5, <1>9, <2>2 DEF Enqueue
<1>10. QED
  <2>1. CASE AgentReplies \/ NewTurn \/ Restart \/ UNCHANGED vars
    BY <1>5, <2>1 DEF AgentReplies, NewTurn, Restart, vars, diskVars
  <2>2. CASE FlushOutbox
    BY <1>5, <1>6, <1>7, <1>8, <2>2
       DEF FlushOutbox, HeadOfQueue, SendPart, AnswerLost, ChunkFails, AttachmentFails,
           AttachmentRefused, RecordDelivered, diskVars
  <2>3. CASE FlushLegacy
    BY <1>5, <2>3 DEF FlushLegacy, LegacySend, LegacyPop, LegacyMark, diskVars
  <2>4. CASE DrainTranscript
    BY <1>5, <1>9, <2>4
       DEF DrainTranscript, Drain, DrainAborts, SkipSent, Speak, SpeakFails, MarkSpoken,
           EnqueueFails, DirectSend, LegacyAppend, DirectMark, FlushFiles, diskVars
  <2>5. QED
    BY <2>1, <2>2, <2>3, <2>4 DEF Next, Outbound

LEMMA PlaceShownStep == DeliveryInv /\ [Next]_vars => PlaceShown'
<1> SUFFICES ASSUME DeliveryInv, [Next]_vars
             PROVE  PlaceShown'
  OBVIOUS
<1>1. TypeOK /\ PlacesOK /\ PlaceShown /\ TypeOK' /\ PlacesOK'
  BY TypeStep, PlacesStep DEF DeliveryInv
<1>2. CASE AgentReplies \/ NewTurn \/ UNCHANGED vars
  BY <1>1, <1>2
     DEF AgentReplies, NewTurn, vars, diskVars, memVars, readVars, histVars, PlaceShown, Rec,
         TextLeft, NextPart, TextShown
<1>3. CASE SendPart
  <2>1. box # <<>> /\ ~Complete(Rec)
    BY <1>1, <1>3 DEF SendPart, PlacesOK, RecordPlaces
  <2>2. NextPart(Rec) \in Parts
    BY <1>1, <2>1, RecordProgress
  <2>3. shown'[NextPart(Rec)] > 0
    BY <1>1, <1>3, <2>2, ShownType DEF SendPart
  <2>4. QED
    BY <1>3, <2>3 DEF SendPart, PlaceShown, diskVars, Rec, TextLeft, NextPart
<1>4. CASE AttachmentRefused
  BY <1>4 DEF AttachmentRefused, PlaceShown, diskVars, Rec, TextLeft
<1>5. CASE LegacySend
  <2>1. CASE pc' = "pop"
    <3>1. legacy # <<>> /\ Appears(TextParts(Head(legacy)))
      BY <1>5, <2>1 DEF LegacySend
    <3>2. Head(legacy) \in Replies
      BY <1>1, <3>1, HeadTailProperties DEF TypeOK, MemoryTypes
    <3>3. \A p \in TextParts(Head(legacy)) : shown'[p] > 0
      BY <1>1, <3>1, <3>2, ShownType, ReplyParts
    <3>4. QED
      BY <1>5, <2>1, <3>3 DEF LegacySend, PlaceShown, TextShown, memVars
  <2>2. CASE pc' # "pop"
    BY <1>5, <2>2 DEF LegacySend, PlaceShown
  <2>3. QED
    BY <2>1, <2>2
<1>6. CASE LegacyPop
  <2>1. TextShown(Head(legacy))
    BY <1>1, <1>6 DEF LegacyPop, PlaceShown
  <2>2. QED
    BY <1>6, <2>1 DEF LegacyPop, PlaceShown, TextShown, histVars
<1>7. CASE Speak \/ (DirectSend /\ pc' = "directmark")
  <2>1. todo \in Replies
    BY <1>1, <1>7, ReplyAtHand DEF Speak, DirectSend, HandlingPlaces
  <2>2. Appears(TextParts(todo))
    BY <1>7 DEF Speak, DirectSend
  <2>3. \A p \in TextParts(todo) : shown'[p] > 0
    BY <1>1, <2>1, <2>2, ShownType, ReplyParts
  <2>4. QED
    BY <1>7, <2>3 DEF Speak, DirectSend, PlaceShown, TextShown, readVars
<1>8. CASE DirectMark
  BY <1>1, <1>8 DEF DirectMark, PlaceShown, TextShown, readVars, histVars
<1>9. CASE pc' \notin {"confirm", "pop", "popped", "spoken", "directmark", "attachments"}
  BY <1>9 DEF PlaceShown
<1>10. QED
  <2>1. CASE FlushOutbox
    BY <1>3, <1>4, <1>9, <2>1
       DEF FlushOutbox, HeadOfQueue, AnswerLost, ChunkFails, AttachmentFails, ConfirmPart,
           CountAttempt, GiveUp, RecordDelivered, RemoveRecord, Abort
  <2>2. CASE FlushLegacy
    BY <1>5, <1>6, <1>9, <2>2 DEF FlushLegacy, LegacyMark
  <2>3. CASE DrainTranscript
    BY <1>7, <1>8, <1>9, <2>3
       DEF DrainTranscript, Drain, DrainAborts, SkipSent, SpeakFails, MarkSpoken, Enqueue,
           EnqueueFails, DirectSend, LegacyAppend, FlushFiles, NextReply, Abort
  <2>4. CASE Restart
    BY <1>9, <2>4 DEF Restart
  <2>5. QED
    BY <1>2, <2>1, <2>2, <2>3, <2>4 DEF Next, Outbound

-----------------------------------------------------------------------------
(* The ledger: a key is marked only where the thread is known to have shown the text. *)

LEMMA MarkShown ==
  ASSUME TypeOK, [Next]_vars, LedgerMeansDelivered, NEW r \in Replies, TextShown(r),
         MarkSent(r) \/ MarkSentFails(r)
  PROVE  LedgerMeansDelivered'
<1>1. sentMem' \subseteq sentMem \cup {r} /\ sentDisk' \subseteq sentDisk \cup {r}
  BY MarkType
<1>2. sentMem \cup sentDisk \subseteq Replies
  BY DEF TypeOK, DiskTypes, MemoryTypes
<1>3. \A s \in sentMem \cup sentDisk \cup {r} : TextShown(s)'
  BY <1>2, TextStaysShown DEF LedgerMeansDelivered
<1>4. QED
  BY <1>1, <1>3 DEF LedgerMeansDelivered

LEMMA LedgerStep == DeliveryInv /\ [Next]_vars => LedgerMeansDelivered'
<1> SUFFICES ASSUME DeliveryInv, [Next]_vars
             PROVE  LedgerMeansDelivered'
  OBVIOUS
<1>1. TypeOK /\ PlacesOK /\ ConfirmedShown /\ PlaceShown /\ LedgerMeansDelivered
  BY DEF DeliveryInv
<1>2. CASE sentMem' \subseteq sentMem \cup sentDisk /\ sentDisk' = sentDisk
  <2>1. sentMem \cup sentDisk \subseteq Replies
    BY <1>1 DEF TypeOK, DiskTypes, MemoryTypes
  <2>2. \A s \in sentMem \cup sentDisk : TextShown(s)'
    BY <1>1, <2>1, TextStaysShown DEF LedgerMeansDelivered
  <2>3. QED
    BY <1>2, <2>2 DEF LedgerMeansDelivered
<1>3. CASE RecordDelivered
  <2>1. box # <<>> /\ Complete(Rec)
    BY <1>1, <1>3 DEF RecordDelivered, PlacesOK, RecordPlaces
  <2>2. Rec.reply \in Replies /\ TextShown(Rec.reply)
    BY <1>1, <2>1, CompleteShown
  <2>3. QED
    BY <1>1, <1>3, <2>2, MarkShown DEF RecordDelivered
<1>4. CASE LegacyMark
  BY <1>1, <1>4, MarkShown DEF LegacyMark, PlacesOK, PlaceShown
<1>5. CASE MarkSpoken \/ DirectMark
  <2>1. todo \in Replies
    BY <1>1, <1>5, ReplyAtHand DEF MarkSpoken, DirectMark, HandlingPlaces
  <2>2. TextShown(todo)
    BY <1>1, <1>5 DEF MarkSpoken, DirectMark, PlaceShown
  <2>3. QED
    BY <1>1, <1>5, <2>1, <2>2, MarkShown DEF MarkSpoken, DirectMark
<1>6. QED
  <2>1. CASE AgentReplies \/ NewTurn \/ Restart \/ UNCHANGED vars
    BY <1>2, <2>1 DEF AgentReplies, NewTurn, Restart, vars, diskVars, memVars
  <2>2. CASE FlushOutbox
    BY <1>2, <1>3, <2>2
       DEF FlushOutbox, HeadOfQueue, SendPart, AnswerLost, ChunkFails, AttachmentFails,
           AttachmentRefused, ConfirmPart, CountAttempt, GiveUp, RemoveRecord, diskVars,
           memVars
  <2>3. CASE FlushLegacy
    BY <1>2, <1>4, <2>3 DEF FlushLegacy, LegacySend, LegacyPop, diskVars, memVars
  <2>4. CASE DrainTranscript
    BY <1>2, <1>5, <2>4
       DEF DrainTranscript, Drain, DrainAborts, SkipSent, Speak, SpeakFails, Enqueue,
           EnqueueFails, DirectSend, LegacyAppend, FlushFiles, diskVars, memVars
  <2>5. QED
    BY <2>1, <2>2, <2>3, <2>4 DEF Next, Outbound

-----------------------------------------------------------------------------
(* No reply is lost: a reply leaves a queue only into the chat, the dead-letter directory *)
(* or the set of those dropped before they were stored.                                   *)

Kept(r) == \/ Stored(r) # {}
           \/ r \in Range(legacy)
           \/ TextShown(r)
           \/ r \in dead \cup skipped

LEMMA KeptFrame ==
  ASSUME TypeOK, [Next]_vars, NEW r \in Replies, Kept(r),
         dead \subseteq dead', skipped \subseteq skipped',
         r \in Range(legacy) => r \in Range(legacy)' \/ Kept(r)',
         Stored(r) # {} => Stored(r)' # {} \/ Kept(r)'
  PROVE  Kept(r)'
BY TextStaysShown DEF Kept

LEMMA StoredFrame ==
  ASSUME DOMAIN box' = DOMAIN box,
         \A i \in DOMAIN box : box'[i].reply = box[i].reply,
         NEW r
  PROVE  Stored(r)' = Stored(r)
BY DEF Stored

LEMMA KeptFlushOutbox ==
  ASSUME DeliveryInv, FlushOutbox, NEW r \in Replies, Kept(r)
  PROVE  Kept(r)'
<1>1. TypeOK /\ PlacesOK /\ ConfirmedShown /\ [Next]_vars
  BY DEF DeliveryInv, Next, Outbound
<1>2. dead \subseteq dead' /\ skipped \subseteq skipped' /\ legacy' = legacy
  BY DEF FlushOutbox, HeadOfQueue, SendPart, AnswerLost, ChunkFails, AttachmentFails,
         AttachmentRefused, ConfirmPart, CountAttempt, GiveUp, RecordDelivered, RemoveRecord,
         diskVars, memVars, histVars
<1>3. CASE UNCHANGED box
  BY <1>1, <1>2, <1>3, KeptFrame DEF Stored
<1>4. CASE ConfirmPart \/ CountAttempt
  <2>1. box # <<>> /\ 1 \in DOMAIN box /\ Rec = box[1] /\ Rec \in Records
    BY <1>1, <1>4, HeadRecord DEF ConfirmPart, CountAttempt, PlacesOK, RecordPlaces
  <2>2. /\ Confirmed(Rec).reply = Rec.reply
        /\ [Rec EXCEPT !.attempts = @ + 1].reply = Rec.reply
    BY <2>1 DEF Confirmed, Records
  <2>3. \/ UNCHANGED box
        \/ box' = [box EXCEPT ![1] = Confirmed(Rec)]
        \/ box' = [box EXCEPT ![1] = [Rec EXCEPT !.attempts = @ + 1]]
    BY <1>4, <2>1 DEF ConfirmPart, CountAttempt
  <2>4. /\ DOMAIN box' = DOMAIN box
        /\ \A i \in DOMAIN box : box'[i].reply = box[i].reply
    BY <2>1, <2>2, <2>3
  <2>5. Stored(r)' = Stored(r)
    BY <2>4, StoredFrame
  <2>6. QED
    BY <1>1, <1>2, <2>5, KeptFrame
<1>5. CASE GiveUp \/ RemoveRecord
  <2>1. box # <<>>
    BY <1>1, <1>5 DEF GiveUp, RemoveRecord, PlacesOK, RecordPlaces
  <2>2. CASE box' = Tail(box)
    <3>1. /\ Rec = box[1]
          /\ \A i \in DOMAIN box : i = 1 \/ i - 1 \in DOMAIN Tail(box)
          /\ \A i \in DOMAIN Tail(box) : Tail(box)[i] = box[i + 1]
      BY <1>1, <2>1, HeadRecord
    <3>2. DOMAIN box \subseteq Int
      BY <1>1, LenProperties DEF TypeOK, DiskTypes
    <3>3. Stored(r) # {} => r = Rec.reply \/ Stored(r)' # {}
      BY <2>2, <3>1, <3>2 DEF Stored
    <3>4. r = Rec.reply => Kept(r)'
      <4>1. CASE GiveUp
        BY <2>2, <4>1, <1>5, <2>1 DEF GiveUp, Kept
      <4>2. CASE RemoveRecord
        <5>1. r = Rec.reply => TextShown(r)
          BY <1>1, <2>1, <4>2, CompleteShown DEF RemoveRecord, PlacesOK
        <5>2. QED
          BY <1>1, <5>1, TextStaysShown DEF Kept
      <4>3. QED
        BY <1>5, <4>1, <4>2
    <3>5. QED
      BY <1>1, <1>2, <3>3, <3>4, KeptFrame
  <2>3. QED
    BY <1>3, <1>5, <2>2 DEF GiveUp, RemoveRecord
<1>6. QED
  BY <1>3, <1>4, <1>5
     DEF FlushOutbox, HeadOfQueue, SendPart, AnswerLost, ChunkFails, AttachmentFails,
         AttachmentRefused, RecordDelivered, diskVars

LEMMA KeptFlushLegacy ==
  ASSUME DeliveryInv, FlushLegacy, NEW r \in Replies, Kept(r)
  PROVE  Kept(r)'
<1>1. TypeOK /\ PlacesOK /\ PlaceShown /\ [Next]_vars
  BY DEF DeliveryInv, Next, Outbound
<1>2. UNCHANGED <<box, dead, skipped>>
  BY DEF FlushLegacy, LegacySend, LegacyPop, LegacyMark, diskVars, histVars
<1>3. Stored(r)' = Stored(r)
  BY <1>2 DEF Stored
<1>4. CASE LegacyPop
  <2>1. legacy # <<>> /\ legacy \in Seq(Replies) /\ TextShown(Head(legacy))
    BY <1>1, <1>4 DEF LegacyPop, PlacesOK, PlaceShown, TypeOK, MemoryTypes
  <2>2. /\ Len(legacy) \in Nat /\ DOMAIN legacy = 1 .. Len(legacy)
        /\ Head(legacy) = legacy[1]
        /\ Tail(legacy) \in Seq(Replies) /\ Len(Tail(legacy)) = Len(legacy) - 1
        /\ \A i \in 1 .. Len(Tail(legacy)) : Tail(legacy)[i] = legacy[i + 1]
    BY <2>1, HeadTailProperties, LenProperties
  <2>3. DOMAIN Tail(legacy) = 1 .. Len(legacy) - 1
    BY <2>2, LenProperties
  <2>4. \A i \in DOMAIN legacy : i = 1 \/ i - 1 \in DOMAIN Tail(legacy)
    BY <2>2, <2>3
  <2>5. r \in Range(legacy) => r = Head(legacy) \/ r \in Range(Tail(legacy))
    BY <2>2, <2>3, <2>4 DEF Range
  <2>6. r = Head(legacy) => TextShown(r)'
    BY <1>1, <2>1, TextStaysShown
  <2>7. legacy' = Tail(legacy)
    BY <1>4 DEF LegacyPop
  <2>8. QED
    BY <1>1, <1>2, <1>3, <2>5, <2>6, <2>7, KeptFrame DEF Kept
<1>5. CASE LegacySend \/ LegacyMark
  BY <1>1, <1>2, <1>3, <1>5, KeptFrame DEF LegacySend, LegacyMark, memVars
<1>6. QED
  BY <1>4, <1>5 DEF FlushLegacy

LEMMA KeptDrain ==
  ASSUME DeliveryInv, DrainTranscript
  PROVE  /\ \A r \in Replies : Kept(r) => Kept(r)'
         /\ \A r \in Int : todo <= r /\ r < todo' => r \in Replies /\ Kept(r)'
<1>1. TypeOK /\ PlacesOK /\ PlaceShown /\ LedgerMeansDelivered /\ [Next]_vars
  BY DEF DeliveryInv, Next, Outbound
<1>2. box \in Seq(Records) /\ legacy \in Seq(Replies)
  BY <1>1 DEF TypeOK, DiskTypes, MemoryTypes
<1>3. dead' = dead /\ skipped \subseteq skipped'
  BY DEF DrainTranscript, Drain, DrainAborts, SkipSent, Speak, SpeakFails, MarkSpoken,
         Enqueue, EnqueueFails, DirectSend, LegacyAppend, DirectMark, FlushFiles, diskVars,
         histVars
<1>4. \A r : Stored(r) \subseteq Stored(r)'
  <2>1. CASE UNCHANGED box
    BY <2>1 DEF Stored
  <2>2. CASE Enqueue
    <3>1. Record(todo, FilesNow) \in Records /\ Fits(Record(todo, FilesNow))
      BY <1>1, <2>2, NewRecord DEF Enqueue, Storing, HandlingPlaces
    <3>2. CASE box' = Append(box, Record(todo, FilesNow))
      BY <1>1, <3>1, <3>2, RecordAppended DEF Stored
    <3>3. QED
      BY <2>1, <2>2, <3>2 DEF Enqueue
  <2>3. QED
    BY <2>1, <2>2
       DEF DrainTranscript, Drain, DrainAborts, SkipSent, Speak, SpeakFails, MarkSpoken,
           EnqueueFails, DirectSend, LegacyAppend, DirectMark, FlushFiles, diskVars
<1>5. legacy' = legacy \/ (LegacyAppend /\ legacy' = Append(legacy, todo))
  BY DEF DrainTranscript, Drain, DrainAborts, SkipSent, Speak, SpeakFails, MarkSpoken,
         Enqueue, EnqueueFails, DirectSend, LegacyAppend, DirectMark, FlushFiles, memVars
<1>6. LegacyAppend => todo \in Replies
  BY <1>1, ReplyAtHand DEF LegacyAppend, HandlingPlaces
<1>7. Range(legacy) \subseteq Range(legacy') /\ (LegacyAppend => todo \in Range(legacy'))
  <2>1. CASE LegacyAppend
    <3>1. /\ legacy' = Append(legacy, todo) /\ legacy' \in Seq(Replies)
          /\ Len(legacy') = Len(legacy) + 1
          /\ \A i \in 1 .. Len(legacy) : legacy'[i] = legacy[i]
          /\ legacy'[Len(legacy) + 1] = todo
      BY <1>2, <1>6, <2>1, AppendProperties DEF LegacyAppend
    <3>2. Len(legacy) \in Nat /\ DOMAIN legacy = 1 .. Len(legacy)
      BY <1>2, LenProperties
    <3>3. DOMAIN legacy' = 1 .. Len(legacy) + 1
      BY <3>1, LenProperties
    <3>4. DOMAIN legacy \subseteq DOMAIN legacy' /\ Len(legacy) + 1 \in DOMAIN legacy'
      BY <3>2, <3>3
    <3>5. QED
      BY <3>1, <3>2, <3>4 DEF Range
  <2>2. CASE ~LegacyAppend
    BY <1>5, <2>2
  <2>3. QED
    BY <2>1, <2>2
<1>8. Range(legacy)' = Range(legacy')
  BY DEF Range
<1>9. ASSUME NEW r \in Replies, Kept(r)
      PROVE  Kept(r)'
  <2>1. Stored(r) # {} => Stored(r)' # {}
    BY <1>4
  <2>2. r \in Range(legacy) => r \in Range(legacy)'
    BY <1>7, <1>8
  <2>3. QED
    BY <1>1, <1>3, <1>9, <2>1, <2>2, KeptFrame
<1>10. ASSUME NEW r \in Int, todo <= r, r < todo'
       PROVE  r \in Replies /\ Kept(r)'
  <2>1. todo \in Nat /\ tpos \in Nat
    BY <1>1 DEF TypeOK, ReadTypes
  <2>2. CASE Drain
    BY <1>1, <1>10, <2>1, <2>2 DEF Drain, PlacesOK, HandlingPlaces
  <2>3. CASE DrainAborts
    <3>1. r \in todo .. tpos - 1
      BY <1>10, <2>1, <2>3 DEF DrainAborts
    <3>2. todo .. tpos - 1 \subseteq Replies
      BY <1>1, ConstantsAssumption DEF TypeOK, ReadTypes, AgentTypes, Replies
    <3>3. r \in skipped'
      BY <2>3, <3>1 DEF DrainAborts
    <3>4. QED
      BY <3>1, <3>2, <3>3 DEF Kept
  <2>4. CASE SkipSent \/ MarkSpoken \/ Enqueue \/ LegacyAppend \/ FlushFiles
    <3>1. pc \in HandlingPlaces /\ NextReply /\ UNCHANGED <<written, tpos>>
      BY <2>4 DEF SkipSent, MarkSpoken, Enqueue, LegacyAppend, FlushFiles, Storing,
                  HandlingPlaces, agentVars
    <3>2. todo \in Replies /\ todo' = todo + 1
      BY <1>1, <3>1, NextReplyPlace
    <3>3. r = todo
      BY <1>10, <2>1, <3>2
    <3>4. CASE SkipSent \/ MarkSpoken \/ FlushFiles
      <4>1. TextShown(todo)
        BY <1>1, <3>4 DEF SkipSent, MarkSpoken, FlushFiles, PlaceShown, LedgerMeansDelivered
      <4>2. QED
        BY <1>1, <3>2, <3>3, <4>1, TextStaysShown DEF Kept
    <3>5. CASE LegacyAppend
      BY <1>7, <1>8, <3>2, <3>3, <3>5 DEF Kept
    <3>6. CASE Enqueue
      <4>1. CASE Stored(todo) # {}
        BY <1>4, <3>2, <3>3, <4>1 DEF Kept
      <4>2. CASE Stored(todo) = {}
        <5>1. Record(todo, FilesNow) \in Records /\ Fits(Record(todo, FilesNow))
          BY <1>1, <3>1, NewRecord
        <5>2. box' = Append(box, Record(todo, FilesNow))
          BY <3>6, <4>2 DEF Enqueue
        <5>3. /\ Len(box) + 1 \in DOMAIN box'
              /\ box'[Len(box) + 1] = Record(todo, FilesNow)
          BY <1>1, <5>1, <5>2, RecordAppended
        <5>4. box'[Len(box) + 1].reply = r
          BY <3>3, <5>3 DEF Record
        <5>5. Stored(r)' # {}
          BY <5>3, <5>4 DEF Stored
        <5>6. QED
          BY <3>2, <3>3, <5>5 DEF Kept
      <4>3. QED
        BY <4>1, <4>2
    <3>7. QED
      BY <2>4, <3>4, <3>5, <3>6
  <2>5. CASE Speak \/ SpeakFails \/ EnqueueFails \/ DirectSend \/ DirectMark
    <3>1. todo' = todo
      BY <2>5 DEF Speak, SpeakFails, EnqueueFails, DirectSend, DirectMark, readVars
    <3>2. QED
      BY <1>10, <2>1, <3>1
  <2>6. QED
    BY <2>2, <2>3, <2>4, <2>5 DEF DrainTranscript
<1>11. QED
  BY <1>9, <1>10

LEMMA KeptRestart ==
  ASSUME DeliveryInv, Restart, NEW r \in Int, 1 <= r, r < todo'
  PROVE  Kept(r)'
<1>1. TypeOK /\ NoReplyLost /\ [Next]_vars
  BY DEF DeliveryInv, Next
<1>2. todo' = Resume /\ Resume \in 1 .. written + 1 /\ written \in Nat /\ todo \in Nat
  BY <1>1, ConstantsAssumption DEF Restart, Resume, TypeOK, AgentTypes, ReadTypes
<1>3. r < Resume /\ r \in 1 .. written
  BY <1>2
<1>4. r \in Replies
  BY <1>1, <1>3, ConstantsAssumption DEF TypeOK, AgentTypes, Replies
<1>5. UNCHANGED <<box, dead>> /\ skipped \subseteq skipped' /\ Range(legacy)' = Range(legacyDisk)
  BY DEF Restart, diskVars, Range
<1>6. CASE r >= todo
  <2>1. r \in skipped'
    BY <1>2, <1>3, <1>6 DEF Restart
  <2>2. QED
    BY <2>1 DEF Kept
<1>7. CASE r < todo
  <2>1. Kept(r)
    BY <1>1, <1>2, <1>3, <1>7 DEF NoReplyLost, Kept
  <2>2. r \in Range(legacy) => r \in Range(legacy)' \/ r \in skipped'
    BY <1>3, <1>5 DEF Restart
  <2>3. Stored(r)' = Stored(r)
    BY <1>5 DEF Stored
  <2>4. QED
    BY <1>1, <1>4, <1>5, <2>1, <2>2, <2>3, KeptFrame DEF Kept
<1>8. QED
  BY <1>2, <1>3, <1>6, <1>7

\* What lies below a bound (stated for a constant, cited for the next value of todo).
LEMMA Below ==
  ASSUME NEW n \in Int
  PROVE  \A r \in 1 .. n - 1 : r \in Int /\ 1 <= r /\ r < n
OBVIOUS

LEMMA NoReplyLostStep == DeliveryInv /\ [Next]_vars => NoReplyLost'
<1> SUFFICES ASSUME DeliveryInv, [Next]_vars
             PROVE  NoReplyLost'
  OBVIOUS
<1>0. TypeOK'
  BY TypeStep DEF DeliveryInv
<1> SUFFICES ASSUME NEW r \in Int, 1 <= r, r < todo'
             PROVE  Kept(r)'
  <2>1. todo' \in Int
    BY <1>0 DEF TypeOK, ReadTypes
  <2>2. \A r \in 1 .. todo' - 1 : r \in Int /\ 1 <= r /\ r < todo'
    BY <2>1, Below
  <2>3. QED
    BY <2>2 DEF NoReplyLost, Kept
<1>1. TypeOK /\ NoReplyLost
  BY DEF DeliveryInv
<1>2. todo \in Int
  BY <1>1 DEF TypeOK, ReadTypes
<1>3. r < todo => r \in Replies /\ Kept(r)
  <2>1. todo <= LastReply + 1
    BY <1>1, ConstantsAssumption DEF TypeOK, ReadTypes, AgentTypes
  <2>2. QED
    BY <1>1, <1>2, <2>1, ConstantsAssumption DEF NoReplyLost, Kept, Replies
<1>4. CASE AgentReplies \/ NewTurn \/ UNCHANGED vars
  <2>1. UNCHANGED <<box, dead, legacy, todo, shown, skipped>>
    BY <1>4 DEF AgentReplies, NewTurn, vars, diskVars, memVars, readVars, histVars
  <2>2. Kept(r)
    BY <1>2, <1>3, <2>1
  <2>3. QED
    BY <2>1, <2>2 DEF Kept, Stored, Range, TextShown
<1>5. CASE FlushOutbox \/ FlushLegacy
  <2>1. todo' = todo
    BY <1>5 DEF FlushOutbox, HeadOfQueue, SendPart, AnswerLost, ChunkFails, AttachmentFails,
                AttachmentRefused, ConfirmPart, CountAttempt, GiveUp, RecordDelivered,
                RemoveRecord, FlushLegacy, LegacySend, LegacyPop, LegacyMark, readVars
  <2>2. QED
    BY <1>2, <1>3, <1>5, <2>1, KeptFlushOutbox, KeptFlushLegacy
<1>6. CASE DrainTranscript
  BY <1>2, <1>3, <1>6, KeptDrain
<1>7. CASE Restart
  BY <1>7, KeptRestart
<1>8. QED
  BY <1>4, <1>5, <1>6, <1>7 DEF Next, Outbound

-----------------------------------------------------------------------------
(* The theorems *)

LEMMA InitDelivery == Init => DeliveryInv
<1> SUFFICES ASSUME Init
             PROVE  DeliveryInv
  OBVIOUS
<1>1. <<>> \in Seq(Records) /\ <<>> \in Seq(Replies) /\ <<>> \in Seq(Parts)
  BY EmptySeq
<1>2. DOMAIN box = {}
  BY DEF Init
<1>3. TypeOK
  BY <1>1, <1>2, ConstantsAssumption
     DEF Init, TypeOK, AgentTypes, DiskTypes, MemoryTypes, ReadTypes, HistoryTypes
<1>4. PlacesOK /\ PlaceShown
  BY DEF Init, PlacesOK, PlaceShown, RecordPlaces, HandlingPlaces
<1>5. ConfirmedShown /\ LedgerMeansDelivered /\ NoReplyLost
  BY <1>2 DEF Init, ConfirmedShown, LedgerMeansDelivered, NoReplyLost
<1>6. QED
  BY <1>3, <1>4, <1>5 DEF DeliveryInv

\* What the queues, the ledger and the place of the thread say of each other is always
\* true of _flush_pending, _drain_transcript and _send_final.
THEOREM DeliveryInvariant == Spec => []DeliveryInv
<1>1. DeliveryInv /\ [Next]_vars => DeliveryInv'
  <2> SUFFICES ASSUME DeliveryInv, [Next]_vars
               PROVE  DeliveryInv'
    OBVIOUS
  <2>1. TypeOK' /\ PlacesOK'
    BY TypeStep, PlacesStep DEF DeliveryInv
  <2>2. ConfirmedShown' /\ PlaceShown' /\ LedgerMeansDelivered' /\ NoReplyLost'
    BY ConfirmedStep, PlaceShownStep, LedgerStep, NoReplyLostStep
  <2>3. QED
    BY <2>1, <2>2 DEF DeliveryInv
<1>2. QED
  BY InitDelivery, <1>1, PTL DEF Spec

\* Every variable of the outbound side keeps its type.
THEOREM TypeCorrect == Spec => []TypeOK
<1>1. DeliveryInv => TypeOK
  BY DEF DeliveryInv
<1>2. QED
  BY DeliveryInvariant, <1>1, PTL

\* A key is in the ledger only after the whole text of its reply was shown (_mark_sent).
THEOREM LedgerIsHonest == Spec => []LedgerMeansDelivered
<1>1. DeliveryInv => LedgerMeansDelivered
  BY DEF DeliveryInv
<1>2. QED
  BY DeliveryInvariant, <1>1, PTL

\* Every reply the bridge is past is queued, shown, buried, or among those known to be
\* dropped before they were stored (_handle_event, _send_final, _flush_pending).
THEOREM NoReplyIsLost == Spec => []NoReplyLost
<1>1. DeliveryInv => NoReplyLost
  BY DEF DeliveryInv
<1>2. QED
  BY DeliveryInvariant, <1>1, PTL
-----------------------------------------------------------------------------
(* Order.  Without voice replies and with an outbox that takes every reply, the old queue *)
(* is never used and the chat sees the parts in the order they were written.  The reason  *)
(* is one relation between the transcript, the queue and the chat: before a record, and   *)
(* before the place in the transcript, every reply is past or stored ahead.               *)

Passed(p) == shown[p] > 0 \/ p \in refused \/ p[1] \in dead \cup skipped
AllPassed(r) == \A k \in 1 .. Chunks[r] + Files[r] : Passed(<<r, k>>)

OldPathUnused ==
  /\ legacy = <<>> /\ legacyDisk = <<>> /\ carried = <<>>
  /\ pc \notin {"pop", "popped", "spoken", "enqueue", "direct", "append", "directmark",
                "attachments"}

\* A record holds its own reply, and what it has confirmed is past.
RecordPassed(rec) ==
  /\ rec.files = OwnFiles(rec.reply)
  /\ \A k \in 1 .. rec.sent : Passed(<<rec.reply, k>>)
  /\ \A k \in 1 .. rec.filesSent : Passed(<<rec.reply, Chunks[rec.reply] + k>>)
BoxPassed == \A i \in DOMAIN box : RecordPassed(box[i])
ConfirmPassed == pc = "confirm" => Passed(NextPart(Rec))

BoxOrdered ==
  \A i \in DOMAIN box : \A r \in Replies :
    r < box[i].reply => AllPassed(r) \/ \E j \in DOMAIN box : j < i /\ box[j].reply = r
ReadOrdered == \A r \in Replies : r < todo => AllPassed(r) \/ Stored(r) # {}
SentPassed == \A r \in sentMem \cup sentDisk : AllPassed(r)
ChatOrdered == \A p, q \in Parts : Precedes(p, q) /\ shown[q] > 0 => Passed(p)

OrderInv ==
  /\ OldPathUnused /\ BoxPassed /\ ConfirmPassed
  /\ BoxOrdered /\ ReadOrdered /\ SentPassed /\ ChatOrdered

LEMMA PartNumbers ==
  /\ \A r \in Replies : \A k \in 1 .. Chunks[r] + Files[r] : <<r, k>> \in Parts
  /\ \A p \in Parts : /\ p = <<p[1], p[2]>> /\ p[1] \in Replies
                      /\ p[2] \in 1 .. Chunks[p[1]] + Files[p[1]]
BY DEF Parts

LEMMA PassedStays ==
  ASSUME TypeOK, [Next]_vars, NEW p \in Parts, Passed(p)
  PROVE  Passed(p)'
<1>1. shown[p] > 0 => shown'[p] > 0
  BY ShownGrows
<1>2. refused \subseteq refused' /\ dead \subseteq dead' /\ skipped \subseteq skipped'
  <2>1. CASE AgentReplies \/ NewTurn \/ Restart \/ UNCHANGED vars
    BY <2>1 DEF AgentReplies, NewTurn, Restart, vars, histVars, diskVars
  <2>2. CASE FlushOutbox
    BY <2>2 DEF FlushOutbox, HeadOfQueue, SendPart, AnswerLost, ChunkFails, AttachmentFails,
                AttachmentRefused, ConfirmPart, CountAttempt, GiveUp, RecordDelivered,
                RemoveRecord, histVars, diskVars
  <2>3. CASE FlushLegacy
    BY <2>3 DEF FlushLegacy, LegacySend, LegacyPop, LegacyMark, histVars, diskVars
  <2>4. CASE DrainTranscript
    BY <2>4 DEF DrainTranscript, Drain, DrainAborts, SkipSent, Speak, SpeakFails, MarkSpoken,
                Enqueue, EnqueueFails, DirectSend, LegacyAppend, DirectMark, FlushFiles,
                histVars, diskVars
  <2>5. QED
    BY <2>1, <2>2, <2>3, <2>4 DEF Next, Outbound
<1>3. QED
  BY <1>1, <1>2 DEF Passed

LEMMA AllPassedStays ==
  ASSUME TypeOK, [Next]_vars, NEW r \in Replies, AllPassed(r)
  PROVE  AllPassed(r)'
BY PassedStays, PartNumbers DEF AllPassed

\* What was confirmed of a record stays past.
LEMMA RecordStays ==
  ASSUME TypeOK, [Next]_vars, NEW rec \in Records, Fits(rec), RecordPassed(rec)
  PROVE  RecordPassed(rec)'
<1>1. /\ rec.reply \in Replies /\ rec.sent \in Nat /\ rec.filesSent \in Nat
      /\ rec.files = OwnFiles(rec.reply)
  BY DEF Records, RecordPassed
<1>2. Chunks[rec.reply] \in Nat /\ Files[rec.reply] \in Nat
  BY <1>1, ReplyParts
<1>3. Len(rec.files) = Files[rec.reply]
  BY <1>1, <1>2 DEF OwnFiles
<1>4. \A k \in 1 .. rec.sent : <<rec.reply, k>> \in Parts
  BY <1>1, <1>2, PartNumbers DEF Fits
<1>5. \A k \in 1 .. rec.filesSent : <<rec.reply, Chunks[rec.reply] + k>> \in Parts
  <2> SUFFICES ASSUME NEW k \in 1 .. rec.filesSent
               PROVE  <<rec.reply, Chunks[rec.reply] + k>> \in Parts
    OBVIOUS
  <2>1. Chunks[rec.reply] + k \in 1 .. Chunks[rec.reply] + Files[rec.reply]
    BY <1>1, <1>2, <1>3 DEF Fits
  <2>2. QED
    BY <2>1, <1>1, PartNumbers
<1>6. QED
  BY <1>1, <1>4, <1>5, PassedStays DEF RecordPassed

\* The next part of the head record comes right after what it has confirmed.
LEMMA NextPartNumber ==
  ASSUME TypeOK, BoxPassed, box # <<>>, ~Complete(Rec)
  PROVE  \E n \in Nat : /\ NextPart(Rec) = <<Rec.reply, n>>
                        /\ \A k \in 1 .. n - 1 : Passed(<<Rec.reply, k>>)
                        /\ TextLeft(Rec) => n = Rec.sent + 1
                        /\ ~TextLeft(Rec) => n = Chunks[Rec.reply] + (Rec.filesSent + 1)
<1>1. /\ Rec \in Records /\ Rec.sent <= Chunks[Rec.reply]
      /\ Rec.filesSent <= Len(Rec.files) /\ RecordPassed(Rec)
  BY HeadRecord DEF BoxPassed
<1>2. Rec.reply \in Replies /\ Rec.sent \in Nat /\ Rec.filesSent \in Nat
  BY <1>1 DEF Records
<1>3. Chunks[Rec.reply] \in Nat /\ Files[Rec.reply] \in Nat
  BY <1>2, ReplyParts
<1>4. CASE TextLeft(Rec)
  <2>1. NextPart(Rec) = <<Rec.reply, Rec.sent + 1>>
    BY <1>4 DEF NextPart
  <2>2. \A k \in 1 .. (Rec.sent + 1) - 1 : Passed(<<Rec.reply, k>>)
    BY <1>1, <1>2 DEF RecordPassed
  <2>3. Rec.sent + 1 \in Nat
    BY <1>2
  <2>4. QED
    BY <1>4, <2>1, <2>2, <2>3
<1>5. CASE ~TextLeft(Rec)
  <2> DEFINE n == Chunks[Rec.reply] + (Rec.filesSent + 1)
  <2>1. Rec.files = OwnFiles(Rec.reply) /\ Len(Rec.files) = Files[Rec.reply]
    BY <1>1, <1>2, <1>3 DEF RecordPassed, OwnFiles
  <2>2. Rec.filesSent + 1 \in 1 .. Files[Rec.reply]
    BY <1>1, <1>2, <1>3, <1>5, <2>1 DEF Complete
  <2>3. OwnFiles(Rec.reply)[Rec.filesSent + 1] = <<Rec.reply, n>>
    BY <2>2 DEF OwnFiles
  <2>4. NextPart(Rec) = <<Rec.reply, n>>
    BY <1>5, <2>1, <2>3 DEF NextPart
  <2>5. Rec.sent = Chunks[Rec.reply]
    BY <1>1, <1>2, <1>3, <1>5 DEF TextLeft
  <2>6. \A k \in 1 .. n - 1 : Passed(<<Rec.reply, k>>)
    <3> SUFFICES ASSUME NEW k \in 1 .. n - 1
                 PROVE  Passed(<<Rec.reply, k>>)
      OBVIOUS
    <3>1. CASE k <= Chunks[Rec.reply]
      BY <1>1, <1>2, <1>3, <2>5, <3>1 DEF RecordPassed
    <3>2. CASE k > Chunks[Rec.reply]
      <4>1. k - Chunks[Rec.reply] \in 1 .. Rec.filesSent
        BY <1>2, <1>3, <3>2
      <4>2. k = Chunks[Rec.reply] + (k - Chunks[Rec.reply])
        BY <1>3
      <4>3. QED
        BY <1>1, <4>1, <4>2 DEF RecordPassed
    <3>3. QED
      BY <1>3, <3>1, <3>2
  <2>7. n \in Nat
    BY <1>2, <1>3
  <2>8. QED
    BY <1>5, <2>4, <2>6, <2>7
<1>6. QED
  BY <1>4, <1>5

LEMMA CompletePassed ==
  ASSUME TypeOK, BoxPassed, box # <<>>, Complete(Rec)
  PROVE  Rec.reply \in Replies /\ AllPassed(Rec.reply)
<1>1. /\ Rec \in Records /\ Rec.sent <= Chunks[Rec.reply] /\ RecordPassed(Rec)
  BY HeadRecord DEF BoxPassed
<1>2. Rec.reply \in Replies /\ Rec.sent \in Nat /\ Rec.filesSent \in Nat
  BY <1>1 DEF Records
<1>3. Chunks[Rec.reply] \in Nat /\ Files[Rec.reply] \in Nat
  BY <1>2, ReplyParts
<1>4. Rec.sent = Chunks[Rec.reply] /\ Rec.filesSent = Files[Rec.reply]
  BY <1>1, <1>2, <1>3 DEF Complete, TextLeft, RecordPassed, OwnFiles
<1>5. ASSUME NEW k \in 1 .. Chunks[Rec.reply] + Files[Rec.reply]
      PROVE  Passed(<<Rec.reply, k>>)
  <2>1. CASE k <= Chunks[Rec.reply]
    BY <1>1, <1>3, <1>4, <2>1 DEF RecordPassed
  <2>2. CASE k > Chunks[Rec.reply]
    <3>1. k - Chunks[Rec.reply] \in 1 .. Rec.filesSent
      BY <1>3, <1>4, <2>2
    <3>2. k = Chunks[Rec.reply] + (k - Chunks[Rec.reply])
      BY <1>3
    <3>3. QED
      BY <1>1, <3>1, <3>2 DEF RecordPassed
  <2>3. QED
    BY <1>3, <2>1, <2>2
<1>6. QED
  BY <1>2, <1>5 DEF AllPassed

-----------------------------------------------------------------------------
(* The steps that are left when the old path is not used *)

QuietLegacy ==
  /\ pc = "legacy" /\ pc' = "drain"
  /\ UNCHANGED <<agentVars, diskVars, memVars, readVars, histVars, faults, crashes>>
PlainEnqueue == Enqueue /\ pc = "store" /\ FilesNow = OwnFiles(todo)
PlainStep ==
  \/ AgentReplies \/ NewTurn \/ UNCHANGED vars \/ Restart
  \/ FlushOutbox \/ QuietLegacy
  \/ Drain \/ DrainAborts \/ SkipSent \/ PlainEnqueue

LEMMA FilesAreOwn ==
  ASSUME TypeOK, PlacesOK, OldPathUnused, pc \in HandlingPlaces
  PROVE  FilesNow = OwnFiles(todo)
<1>1. OwnFiles(todo) \in Seq(Parts)
  BY ReplyAtHand, ReplyParts
<1>2. QED
  BY <1>1, ConcatEmptySeq DEF FilesNow, OldPathUnused

LEMMA PlainNext ==
  ASSUME Plain, TypeOK, PlacesOK, OldPathUnused, BoxPassed, [Next]_vars
  PROVE  PlainStep
<1>1. ~LegacyPop /\ ~LegacyMark /\ ~MarkSpoken /\ ~DirectSend /\ ~LegacyAppend
      /\ ~DirectMark /\ ~FlushFiles
  BY DEF OldPathUnused, LegacyPop, LegacyMark, MarkSpoken, DirectSend, LegacyAppend,
         DirectMark, FlushFiles
<1>2. ~Speak /\ ~SpeakFails
  BY DEF Plain, Spoken, Speak, SpeakFails
<1>3. ASSUME Storing
      PROVE  pc = "store" /\ FilesNow = OwnFiles(todo)
  <2>1. pc = "store"
    BY <1>3 DEF Storing, OldPathUnused
  <2>2. QED
    BY <2>1, FilesAreOwn DEF HandlingPlaces
<1>4. ~EnqueueFails
  <2> SUFFICES ASSUME EnqueueFails
               PROVE  FALSE
    OBVIOUS
  <2>1. FilesNow = OwnFiles(todo)
    BY <1>3 DEF EnqueueFails
  <2>2. \A i \in Stored(todo) : box[i].files = FilesNow
    BY <2>1 DEF Stored, BoxPassed, RecordPassed
  <2>3. ~Fault("enqueue")
    BY DEF Plain, Fault
  <2>4. QED
    BY <2>2, <2>3 DEF EnqueueFails
<1>5. LegacySend => QuietLegacy
  BY DEF LegacySend, QuietLegacy, OldPathUnused, histVars
<1>6. Enqueue => PlainEnqueue
  BY <1>3 DEF Enqueue, PlainEnqueue
<1>7. QED
  BY <1>1, <1>2, <1>4, <1>5, <1>6
     DEF Next, Outbound, FlushLegacy, DrainTranscript, PlainStep

LEMMA OldPathStep ==
  ASSUME OldPathUnused, PlainStep
  PROVE  OldPathUnused'
<1>1. CASE AgentReplies \/ NewTurn \/ UNCHANGED vars \/ Restart
  BY <1>1 DEF AgentReplies, NewTurn, vars, Restart, OldPathUnused, diskVars, memVars
<1>2. CASE FlushOutbox
  BY <1>2 DEF FlushOutbox, HeadOfQueue, SendPart, AnswerLost, ChunkFails, AttachmentFails,
              AttachmentRefused, ConfirmPart, CountAttempt, GiveUp, RecordDelivered,
              RemoveRecord, Abort, diskVars, memVars, OldPathUnused
<1>3. CASE QuietLegacy \/ Drain \/ DrainAborts \/ SkipSent \/ PlainEnqueue
  BY <1>3 DEF QuietLegacy, Drain, DrainAborts, SkipSent, PlainEnqueue, Enqueue, NextReply,
              Abort, diskVars, memVars, OldPathUnused
<1>4. QED
  BY <1>1, <1>2, <1>3 DEF PlainStep

\* What shows a part shows the next part of the head record.
LEMMA ShowingStep ==
  ASSUME PlainStep
  PROVE  \/ UNCHANGED shown
         \/ /\ pc = "send" /\ ~Complete(Rec)
            /\ Appears({NextPart(Rec)})
<1>1. CASE AgentReplies \/ NewTurn \/ UNCHANGED vars \/ Restart
  BY <1>1 DEF AgentReplies, NewTurn, vars, Restart, histVars
<1>2. CASE FlushOutbox
  BY <1>2 DEF FlushOutbox, HeadOfQueue, SendPart, AnswerLost, ChunkFails, AttachmentFails,
              AttachmentRefused, ConfirmPart, CountAttempt, GiveUp, RecordDelivered,
              RemoveRecord, histVars
<1>3. CASE QuietLegacy \/ Drain \/ DrainAborts \/ SkipSent \/ PlainEnqueue
  BY <1>3 DEF QuietLegacy, Drain, DrainAborts, SkipSent, PlainEnqueue, Enqueue, histVars
<1>4. QED
  BY <1>1, <1>2, <1>3 DEF PlainStep

\* Every later part that appears has everything before it behind it.
LEMMA ChatOrderedStep ==
  ASSUME TypeOK, PlacesOK, OrderInv, PlainStep, [Next]_vars
  PROVE  ChatOrdered'
<1> SUFFICES ASSUME NEW p \in Parts, NEW q \in Parts, Precedes(p, q), shown'[q] > 0
             PROVE  Passed(p)'
  BY DEF ChatOrdered, Precedes
<1>1. CASE shown[q] > 0
  BY <1>1, PassedStays DEF OrderInv, ChatOrdered
<1>2. CASE ~(shown[q] > 0)
  <2>1. pc = "send" /\ ~Complete(Rec) /\ Appears({NextPart(Rec)})
    BY <1>2, ShowingStep
  <2>2. box # <<>>
    BY <2>1 DEF PlacesOK, RecordPlaces
  <2>3. q = NextPart(Rec)
    BY <1>2, <2>1 DEF Appears
  <2>4. PICK n \in Nat : /\ NextPart(Rec) = <<Rec.reply, n>>
                         /\ \A k \in 1 .. n - 1 : Passed(<<Rec.reply, k>>)
    BY <2>1, <2>2, NextPartNumber DEF OrderInv
  <2>5. /\ p = <<p[1], p[2]>> /\ p[1] \in Replies
        /\ p[2] \in 1 .. Chunks[p[1]] + Files[p[1]]
        /\ Chunks[p[1]] \in Nat /\ Files[p[1]] \in Nat
    BY PartNumbers, ReplyParts
  <2>6. q[1] = Rec.reply /\ q[2] = n
    BY <2>3, <2>4
  <2>7. CASE p[1] < q[1]
    <3>1. 1 \in DOMAIN box /\ Rec = box[1]
      BY <2>2, HeadRecord
    <3>2. AllPassed(p[1]) \/ \E j \in DOMAIN box : j < 1
      BY <2>5, <2>6, <2>7, <3>1 DEF OrderInv, BoxOrdered
    <3>3. \A j \in DOMAIN box : j >= 1 /\ j \in Int
      BY LenProperties DEF TypeOK, DiskTypes
    <3>4. AllPassed(p[1])
      BY <3>2, <3>3
    <3>5. Passed(<<p[1], p[2]>>)
      BY <2>5, <3>4 DEF AllPassed
    <3>6. Passed(p)
      BY <2>5, <3>5
    <3>7. QED
      BY <3>6, PassedStays
  <2>8. CASE p[1] = q[1] /\ p[2] < q[2]
    <3>1. p[2] \in 1 .. n - 1
      BY <2>5, <2>6, <2>8
    <3>2. Passed(<<p[1], p[2]>>)
      BY <2>4, <2>6, <2>8, <3>1
    <3>3. Passed(p)
      BY <2>5, <3>2
    <3>4. QED
      BY <3>3, PassedStays
  <2>9. QED
    BY <2>7, <2>8 DEF Precedes
<1>3. QED
  BY <1>1, <1>2

\* The keys in the ledger are those of complete records.
LEMMA SentPassedStep ==
  ASSUME TypeOK, PlacesOK, OrderInv, PlainStep, [Next]_vars
  PROVE  SentPassed'
<1>1. sentMem \subseteq Replies /\ sentDisk \subseteq Replies
  BY DEF TypeOK, DiskTypes, MemoryTypes
<1>2. ASSUME sentMem' \subseteq sentMem \cup sentDisk, sentDisk' \subseteq sentMem \cup sentDisk
      PROVE  SentPassed'
  BY <1>1, <1>2, AllPassedStays DEF OrderInv, SentPassed
<1>3. CASE RecordDelivered
  <2>1. box # <<>> /\ Complete(Rec)
    BY <1>3 DEF RecordDelivered, PlacesOK, RecordPlaces
  <2>2. PICK r \in Replies : r = Rec.reply /\ AllPassed(r)
    BY <2>1, CompletePassed DEF OrderInv
  <2>3. AllPassed(r)'
    BY <2>2, AllPassedStays
  <2>4. sentMem' \subseteq sentMem \cup {r} /\ sentDisk' \subseteq sentDisk \cup {r}
    BY <1>3, <2>2 DEF RecordDelivered, MarkSent, MarkSentFails
  <2>5. QED
    BY <1>1, <2>3, <2>4, AllPassedStays DEF OrderInv, SentPassed
<1>4. CASE AgentReplies \/ NewTurn \/ UNCHANGED vars \/ Restart
  BY <1>2, <1>4 DEF AgentReplies, NewTurn, vars, Restart, diskVars, memVars
<1>5. CASE FlushOutbox /\ ~RecordDelivered
  BY <1>2, <1>5
     DEF FlushOutbox, HeadOfQueue, SendPart, AnswerLost, ChunkFails, AttachmentFails,
         AttachmentRefused, ConfirmPart, CountAttempt, GiveUp, RemoveRecord, diskVars, memVars
<1>6. CASE QuietLegacy \/ Drain \/ DrainAborts \/ SkipSent \/ PlainEnqueue
  BY <1>2, <1>6 DEF QuietLegacy, Drain, DrainAborts, SkipSent, PlainEnqueue, Enqueue,
                    diskVars, memVars
<1>7. QED
  BY <1>3, <1>4, <1>5, <1>6 DEF PlainStep

\* A part that is about to be confirmed was shown or reported as not sent.
LEMMA ConfirmPassedStep ==
  ASSUME TypeOK, PlacesOK, OrderInv, PlainStep, [Next]_vars
  PROVE  ConfirmPassed'
<1> SUFFICES ASSUME pc' = "confirm"
             PROVE  Passed(NextPart(Rec))'
  BY DEF ConfirmPassed
<1>1. \/ SendPart \/ AttachmentRefused
      \/ UNCHANGED box /\ pc = "confirm"
  <2>1. CASE AgentReplies \/ NewTurn \/ UNCHANGED vars \/ Restart
    BY <2>1 DEF AgentReplies, NewTurn, vars, Restart, diskVars
  <2>2. CASE FlushOutbox
    BY <2>2
       DEF FlushOutbox, HeadOfQueue, AnswerLost, ChunkFails, AttachmentFails, ConfirmPart,
           CountAttempt, GiveUp, RecordDelivered, RemoveRecord, Abort
  <2>3. CASE QuietLegacy \/ Drain \/ DrainAborts \/ SkipSent \/ PlainEnqueue
    BY <2>3 DEF QuietLegacy, Drain, DrainAborts, SkipSent, PlainEnqueue, Enqueue, NextReply,
                Abort
  <2>4. QED
    BY <2>1, <2>2, <2>3 DEF PlainStep
<1>2. UNCHANGED box /\ box # <<>> /\ ~Complete(Rec)
  BY <1>1 DEF SendPart, AttachmentRefused, PlacesOK, RecordPlaces, diskVars
<1>3. PICK p \in Parts : p = NextPart(Rec)
  BY <1>2, RecordProgress
<1>4. NextPart(Rec)' = p
  BY <1>2, <1>3 DEF Rec, NextPart, TextLeft
<1>5. Passed(p)'
  <2>1. CASE SendPart
    BY <2>1, <1>3, ShownType DEF SendPart, Passed
  <2>2. CASE AttachmentRefused
    BY <2>2, <1>3 DEF AttachmentRefused, Passed
  <2>3. CASE pc = "confirm"
    BY <2>3, <1>3, PassedStays DEF OrderInv, ConfirmPassed
  <2>4. QED
    BY <1>1, <2>1, <2>2, <2>3
<1>6. QED
  BY <1>4, <1>5 DEF Passed

-----------------------------------------------------------------------------
(* How the queue changes: in place, by losing its head, or by gaining a reply at the end *)

HeadRewritten(rec) ==
  /\ box # <<>> /\ box' = [box EXCEPT ![1] = rec]
  /\ rec \in Records /\ Fits(rec) /\ RecordPassed(rec) /\ rec.reply = Rec.reply
SameReplies ==
  DOMAIN box' = DOMAIN box /\ \A i \in DOMAIN box : box'[i].reply = box[i].reply
HeadLeaves ==
  /\ box # <<>> /\ box' = Tail(box)
  /\ GiveUp \/ RemoveRecord
ReplyJoins ==
  /\ PlainEnqueue
  /\ box' = Append(box, Record(todo, OwnFiles(todo)))

LEMMA BoxElements ==
  ASSUME TypeOK
  PROVE  \A i \in DOMAIN box : /\ i \in Nat /\ 1 <= i
                               /\ box[i] \in Records /\ Fits(box[i])
                               /\ box[i].reply \in Replies
<1>1. box \in Seq(Records) /\ DOMAIN box = 1 .. Len(box)
  BY LenProperties DEF TypeOK, DiskTypes
<1>2. \A i \in DOMAIN box : box[i] \in Records
  BY <1>1, ElementOfSeq
<1>3. QED
  BY <1>1, <1>2 DEF TypeOK, DiskTypes, Fits, Records

LEMMA HeadGone ==
  ASSUME TypeOK, HeadLeaves
  PROVE  /\ Rec = box[1] /\ Rec.reply \in Replies
         /\ \A i \in DOMAIN box' : i \in Nat /\ i + 1 \in DOMAIN box /\ box'[i] = box[i + 1]
         /\ \A j \in DOMAIN box : j = 1 \/ (j - 1 \in DOMAIN box' /\ box'[j - 1] = box[j])
<1>1. /\ 1 \in DOMAIN box /\ Rec = box[1]
      /\ \A i \in DOMAIN box' : i + 1 \in DOMAIN box /\ box'[i] = box[i + 1]
      /\ \A i \in DOMAIN box : i = 1 \/ i - 1 \in DOMAIN box'
      /\ Tail(box) \in Seq(Records)
  BY HeadRecord DEF HeadLeaves
<1>2. \A i \in DOMAIN box' : i \in Nat
  BY <1>1, LenProperties DEF HeadLeaves
<1>3. \A j \in DOMAIN box : j \in Nat
  BY BoxElements
<1>4. ASSUME NEW j \in DOMAIN box, j # 1
      PROVE  j - 1 \in DOMAIN box' /\ box'[j - 1] = box[j]
  <2>1. j - 1 \in DOMAIN box'
    BY <1>1, <1>4
  <2>2. box'[j - 1] = box[(j - 1) + 1]
    BY <1>1, <2>1
  <2>3. (j - 1) + 1 = j
    BY <1>3
  <2>4. QED
    BY <2>1, <2>2, <2>3
<1>5. QED
  BY <1>1, <1>2, <1>4, BoxElements

\* A confirmed part was past before, so the rewritten record claims no more than is true.
LEMMA ConfirmedPassed ==
  ASSUME TypeOK, PlacesOK, OrderInv, pc = "confirm"
  PROVE  RecordPassed(Confirmed(Rec))
<1>1. box # <<>> /\ ~Complete(Rec)
  BY DEF PlacesOK, RecordPlaces
<1>2. Rec \in Records /\ RecordPassed(Rec)
  BY <1>1, HeadRecord DEF OrderInv, BoxPassed
<1>3. Rec.reply \in Replies /\ Rec.sent \in Nat /\ Rec.filesSent \in Nat
  BY <1>2 DEF Records
<1>4. Passed(NextPart(Rec))
  BY DEF OrderInv, ConfirmPassed
<1>5. PICK n \in Nat : /\ NextPart(Rec) = <<Rec.reply, n>>
                       /\ TextLeft(Rec) => n = Rec.sent + 1
                       /\ ~TextLeft(Rec) => n = Chunks[Rec.reply] + (Rec.filesSent + 1)
  BY <1>1, NextPartNumber DEF OrderInv
<1>6. CASE TextLeft(Rec)
  <2>1. /\ Confirmed(Rec).reply = Rec.reply /\ Confirmed(Rec).files = Rec.files
        /\ Confirmed(Rec).sent = Rec.sent + 1 /\ Confirmed(Rec).filesSent = Rec.filesSent
    BY <1>2, <1>6 DEF Confirmed, Records
  <2>2. \A k \in 1 .. Rec.sent + 1 : k \in 1 .. Rec.sent \/ k = Rec.sent + 1
    BY <1>3
  <2>3. QED
    BY <1>2, <1>4, <1>5, <1>6, <2>1, <2>2 DEF RecordPassed
<1>7. CASE ~TextLeft(Rec)
  <2>1. /\ Confirmed(Rec).reply = Rec.reply /\ Confirmed(Rec).files = Rec.files
        /\ Confirmed(Rec).sent = Rec.sent /\ Confirmed(Rec).filesSent = Rec.filesSent + 1
    BY <1>2, <1>7 DEF Confirmed, Records
  <2>2. \A k \in 1 .. Rec.filesSent + 1 : k \in 1 .. Rec.filesSent \/ k = Rec.filesSent + 1
    BY <1>3
  <2>3. QED
    BY <1>2, <1>4, <1>5, <1>7, <2>1, <2>2 DEF RecordPassed
<1>8. QED
  BY <1>6, <1>7

LEMMA BoxChange ==
  ASSUME TypeOK, PlacesOK, OrderInv, PlainStep
  PROVE  UNCHANGED box \/ (\E rec : HeadRewritten(rec)) \/ HeadLeaves \/ ReplyJoins
<1>1. CASE AgentReplies \/ NewTurn \/ UNCHANGED vars \/ Restart
  BY <1>1 DEF AgentReplies, NewTurn, vars, Restart, diskVars
<1>2. CASE ConfirmPart
  <2>1. box # <<>> /\ ~Complete(Rec) /\ pc = "confirm"
    BY <1>2 DEF ConfirmPart, PlacesOK, RecordPlaces
  <2>2. 1 \in DOMAIN box /\ Rec = box[1]
    BY <2>1, HeadRecord
  <2>3. /\ Confirmed(Rec) \in Records /\ Fits(Confirmed(Rec))
        /\ Confirmed(Rec).reply = Rec.reply
    BY <2>1, RecordProgress DEF Fits
  <2>4. RecordPassed(Confirmed(Rec))
    BY <2>1, ConfirmedPassed
  <2>5. UNCHANGED box \/ box' = [box EXCEPT ![1] = Confirmed(Rec)]
    BY <1>2, <2>2 DEF ConfirmPart
  <2>6. QED
    BY <2>1, <2>3, <2>4, <2>5 DEF HeadRewritten
<1>3. CASE CountAttempt
  <2> DEFINE counted == [Rec EXCEPT !.attempts = @ + 1]
  <2>1. box # <<>>
    BY <1>3 DEF CountAttempt, PlacesOK, RecordPlaces
  <2>2. /\ 1 \in DOMAIN box /\ Rec = box[1] /\ Rec \in Records /\ Fits(Rec)
        /\ RecordPassed(Rec)
    BY <2>1, HeadRecord DEF Fits, OrderInv, BoxPassed
  <2>3. /\ counted \in Records /\ counted.reply = Rec.reply /\ counted.files = Rec.files
        /\ counted.sent = Rec.sent /\ counted.filesSent = Rec.filesSent
    BY <2>2 DEF Records
  <2>4. Fits(counted) /\ RecordPassed(counted)
    BY <2>2, <2>3 DEF Fits, RecordPassed
  <2>5. UNCHANGED box \/ box' = [box EXCEPT ![1] = counted]
    BY <1>3, <2>2 DEF CountAttempt
  <2>6. QED
    BY <2>1, <2>3, <2>4, <2>5 DEF HeadRewritten
<1>4. CASE GiveUp \/ RemoveRecord
  BY <1>4 DEF GiveUp, RemoveRecord, PlacesOK, RecordPlaces, HeadLeaves
<1>5. CASE PlainEnqueue
  BY <1>5 DEF PlainEnqueue, Enqueue, ReplyJoins
<1>6. CASE FlushOutbox /\ ~(ConfirmPart \/ CountAttempt \/ GiveUp \/ RemoveRecord)
  BY <1>6 DEF FlushOutbox, HeadOfQueue, SendPart, AnswerLost, ChunkFails, AttachmentFails,
              AttachmentRefused, RecordDelivered, diskVars
<1>7. CASE QuietLegacy \/ Drain \/ DrainAborts \/ SkipSent
  BY <1>7 DEF QuietLegacy, Drain, DrainAborts, SkipSent, diskVars
<1>8. QED
  BY <1>1, <1>2, <1>3, <1>4, <1>5, <1>6, <1>7 DEF PlainStep

LEMMA RewrittenHead ==
  ASSUME TypeOK, NEW rec, HeadRewritten(rec)
  PROVE  /\ SameReplies
         /\ \A i \in DOMAIN box : box'[i] = IF i = 1 THEN rec ELSE box[i]
<1>1. /\ DOMAIN box' = DOMAIN box
      /\ \A i \in DOMAIN box : box'[i] = IF i = 1 THEN rec ELSE box[i]
  BY HeadUpdate DEF HeadRewritten
<1>2. Rec = box[1] /\ rec.reply = Rec.reply
  BY HeadRecord DEF HeadRewritten
<1>3. QED
  BY <1>1, <1>2 DEF SameReplies

\* The reply that leaves is complete or buried.
LEMMA LeavingPassed ==
  ASSUME TypeOK, PlacesOK, OrderInv, [Next]_vars, HeadLeaves, NEW r \in Replies, r = Rec.reply
  PROVE  AllPassed(r)'
<1>1. CASE GiveUp
  <2>1. dead' = dead \cup {r}
    BY <1>1 DEF GiveUp, HeadLeaves, PlacesOK, RecordPlaces
  <2>2. QED
    BY <2>1 DEF AllPassed, Passed
<1>2. CASE RemoveRecord
  <2>1. Complete(Rec) /\ box # <<>>
    BY <1>2 DEF RemoveRecord, PlacesOK, HeadLeaves
  <2>2. AllPassed(r)
    BY <2>1, CompletePassed DEF OrderInv
  <2>3. QED
    BY <2>2, AllPassedStays
<1>3. QED
  BY <1>1, <1>2 DEF HeadLeaves

-----------------------------------------------------------------------------
(* The order of the queue, of the transcript and of what is confirmed stays true. *)

LEMMA BoxPassedStep ==
  ASSUME TypeOK, PlacesOK, OrderInv, PlainStep, [Next]_vars
  PROVE  BoxPassed'
<1>1. \A i \in DOMAIN box : box[i] \in Records /\ Fits(box[i]) /\ RecordPassed(box[i])
  BY BoxElements DEF OrderInv, BoxPassed
<1> SUFFICES ASSUME NEW i \in DOMAIN box'
             PROVE  RecordPassed(box[i])'
  BY DEF BoxPassed
<1>2. ASSUME NEW rec \in Records, Fits(rec), RecordPassed(rec), box'[i] = rec
      PROVE  RecordPassed(box[i])'
  BY <1>2, RecordStays DEF RecordPassed, Passed
<1>3. CASE UNCHANGED box
  <2>1. PICK rec \in Records : rec = box[i] /\ Fits(rec) /\ RecordPassed(rec)
    BY <1>1, <1>3
  <2>2. QED
    BY <1>2, <1>3, <2>1
<1>4. CASE \E rec : HeadRewritten(rec)
  <2>1. PICK new : HeadRewritten(new)
    BY <1>4
  <2>2. DOMAIN box' = DOMAIN box /\ box'[i] = IF i = 1 THEN new ELSE box[i]
    BY <2>1, RewrittenHead DEF SameReplies
  <2>3. PICK rec \in Records : rec = box'[i] /\ Fits(rec) /\ RecordPassed(rec)
    BY <1>1, <2>1, <2>2 DEF HeadRewritten
  <2>4. QED
    BY <1>2, <2>3
<1>5. CASE HeadLeaves
  <2>1. i + 1 \in DOMAIN box /\ box'[i] = box[i + 1]
    BY <1>5, HeadGone
  <2>2. PICK rec \in Records : rec = box'[i] /\ Fits(rec) /\ RecordPassed(rec)
    BY <1>1, <2>1
  <2>3. QED
    BY <1>2, <2>2
<1>6. CASE ReplyJoins
  <2>1. FilesNow = OwnFiles(todo) /\ pc \in HandlingPlaces
    BY <1>6 DEF ReplyJoins, PlainEnqueue, HandlingPlaces
  <2>2. /\ Record(todo, OwnFiles(todo)) \in Records /\ Fits(Record(todo, OwnFiles(todo)))
    BY <2>1, NewRecord
  <2>3. RecordPassed(Record(todo, OwnFiles(todo)))
    BY DEF Record, RecordPassed
  <2>4. /\ DOMAIN box' = DOMAIN box \cup {Len(box) + 1}
        /\ \A k \in DOMAIN box : box'[k] = box[k]
        /\ box'[Len(box) + 1] = Record(todo, OwnFiles(todo))
    BY <1>6, <2>2, RecordAppended DEF ReplyJoins
  <2>5. PICK rec \in Records : rec = box'[i] /\ Fits(rec) /\ RecordPassed(rec)
    BY <1>1, <2>2, <2>3, <2>4
  <2>6. QED
    BY <1>2, <2>5
<1>7. QED
  BY <1>3, <1>4, <1>5, <1>6, BoxChange

\* What joins the queue is last, and behind everything before it in the transcript.
LEMMA JoinedReply ==
  ASSUME TypeOK, PlacesOK, ReplyJoins
  PROVE  /\ DOMAIN box' = DOMAIN box \cup {Len(box) + 1}
         /\ \A k \in DOMAIN box : box'[k] = box[k] /\ k \in Nat /\ k < Len(box) + 1
         /\ box'[Len(box) + 1].reply = todo
<1>1. FilesNow = OwnFiles(todo) /\ pc \in HandlingPlaces
  BY DEF ReplyJoins, PlainEnqueue, HandlingPlaces
<1>2. Record(todo, OwnFiles(todo)) \in Records /\ Fits(Record(todo, OwnFiles(todo)))
  BY <1>1, NewRecord
<1>3. /\ DOMAIN box' = DOMAIN box \cup {Len(box) + 1}
      /\ \A k \in DOMAIN box : box'[k] = box[k]
      /\ box'[Len(box) + 1] = Record(todo, OwnFiles(todo))
  BY <1>2, RecordAppended DEF ReplyJoins
<1>4. \A k \in DOMAIN box : k \in Nat /\ k < Len(box) + 1
  BY LenProperties DEF TypeOK, DiskTypes
<1>5. QED
  BY <1>3, <1>4 DEF Record

LEMMA BoxOrderedStep ==
  ASSUME TypeOK, PlacesOK, OrderInv, PlainStep, [Next]_vars
  PROVE  BoxOrdered'
<1> DEFINE Behind(r, i) == AllPassed(r) \/ \E j \in DOMAIN box : j < i /\ box[j].reply = r
<1>1. \A i \in DOMAIN box : \A r \in Replies : r < box[i].reply => Behind(r, i)
  BY DEF OrderInv, BoxOrdered
<1> SUFFICES ASSUME NEW i \in DOMAIN box', NEW r \in Replies, r < box'[i].reply
             PROVE  AllPassed(r)' \/ \E j \in DOMAIN box' : j < i /\ box'[j].reply = r
  BY DEF BoxOrdered
<1>2. AllPassed(r) => AllPassed(r)'
  BY AllPassedStays
<1>3. CASE SameReplies
  <2>1. i \in DOMAIN box /\ box'[i].reply = box[i].reply
    BY <1>3 DEF SameReplies
  <2>2. Behind(r, i)
    BY <1>1, <2>1
  <2>3. QED
    BY <1>2, <1>3, <2>2 DEF SameReplies
<1>4. CASE HeadLeaves
  <2>1. i \in Nat /\ i + 1 \in DOMAIN box /\ box'[i] = box[i + 1]
    BY <1>4, HeadGone
  <2>2. Behind(r, i + 1)
    BY <1>1, <2>1
  <2>3. CASE AllPassed(r)
    BY <1>2, <2>3
  <2>4. CASE \E j \in DOMAIN box : j < i + 1 /\ box[j].reply = r
    <3>1. PICK j \in DOMAIN box : j < i + 1 /\ box[j].reply = r
      BY <2>4
    <3>2. j \in Nat
      BY BoxElements
    <3>3. CASE j = 1
      <4>1. r = Rec.reply
        BY <1>4, <3>1, <3>3, HeadGone
      <4>2. QED
        BY <1>4, <4>1, LeavingPassed
    <3>4. CASE j # 1
      <4>1. j - 1 \in DOMAIN box' /\ box'[j - 1] = box[j]
        BY <1>4, <3>4, HeadGone
      <4>2. j - 1 < i
        BY <2>1, <3>1, <3>2
      <4>3. QED
        BY <3>1, <4>1, <4>2
    <3>5. QED
      BY <3>3, <3>4
  <2>5. QED
    BY <2>2, <2>3, <2>4
<1>5. CASE ReplyJoins
  <2>1. /\ DOMAIN box' = DOMAIN box \cup {Len(box) + 1}
        /\ \A k \in DOMAIN box : box'[k] = box[k] /\ k \in Nat /\ k < Len(box) + 1
        /\ box'[Len(box) + 1].reply = todo
    BY <1>5, JoinedReply
  <2>2. CASE i \in DOMAIN box
    <3>1. Behind(r, i)
      BY <1>1, <2>1, <2>2
    <3>2. QED
      BY <1>2, <2>1, <3>1
  <2>3. CASE i = Len(box) + 1
    <3>1. AllPassed(r) \/ Stored(r) # {}
      BY <2>1, <2>3 DEF OrderInv, ReadOrdered
    <3>2. CASE Stored(r) # {}
      <4>1. PICK j \in DOMAIN box : box[j].reply = r
        BY <3>2 DEF Stored
      <4>2. QED
        BY <2>1, <2>3, <4>1
    <3>3. QED
      BY <1>2, <3>1, <3>2
  <2>4. QED
    BY <2>1, <2>2, <2>3
<1>6. QED
  <2>1. ASSUME UNCHANGED box
        PROVE  SameReplies
    BY <2>1 DEF SameReplies
  <2>2. ASSUME NEW rec, HeadRewritten(rec)
        PROVE  SameReplies
    BY <2>2, RewrittenHead
  <2>3. QED
    BY <1>3, <1>4, <1>5, <2>1, <2>2, BoxChange

\* A stored reply stays stored, or leaves with everything behind it.
LEMMA StoredOrPassed ==
  ASSUME TypeOK, PlacesOK, OrderInv, PlainStep, [Next]_vars, NEW r \in Replies,
         AllPassed(r) \/ Stored(r) # {}
  PROVE  AllPassed(r)' \/ Stored(r)' # {}
<1>1. CASE AllPassed(r)
  BY <1>1, AllPassedStays
<1>2. CASE Stored(r) # {}
  <2>1. PICK j \in DOMAIN box : box[j].reply = r
    BY <1>2 DEF Stored
  <2>2. ASSUME SameReplies
        PROVE  Stored(r)' # {}
    BY <2>1, <2>2 DEF SameReplies, Stored
  <2>3. CASE UNCHANGED box
    BY <2>2, <2>3 DEF SameReplies
  <2>4. ASSUME NEW rec, HeadRewritten(rec)
        PROVE  Stored(r)' # {}
    BY <2>2, <2>4, RewrittenHead
  <2>5. CASE HeadLeaves
    <3>1. CASE j = 1
      BY <2>1, <2>5, <3>1, HeadGone, LeavingPassed
    <3>2. CASE j # 1
      BY <2>1, <2>5, <3>2, HeadGone DEF Stored
    <3>3. QED
      BY <3>1, <3>2
  <2>6. CASE ReplyJoins
    BY <2>1, <2>6, JoinedReply DEF Stored
  <2>7. QED
    BY <2>3, <2>4, <2>5, <2>6, BoxChange
<1>3. QED
  BY <1>1, <1>2

\* A dropped reply is past.
LEMMA SkippedPassed ==
  ASSUME NEW r, r \in skipped'
  PROVE  AllPassed(r)'
BY DEF AllPassed, Passed

LEMMA ReadOrderedStep ==
  ASSUME TypeOK, PlacesOK, OrderInv, PlainStep, [Next]_vars
  PROVE  ReadOrdered'
<1> SUFFICES ASSUME NEW r \in Replies, r < todo'
             PROVE  AllPassed(r)' \/ Stored(r)' # {}
  BY DEF ReadOrdered, Stored
<1>0. /\ r \in Int /\ todo \in Int /\ tpos \in Int /\ written \in Int
      /\ tpos <= written + 1 /\ turnStart \in Int /\ turnStart <= written + 1
  BY ConstantsAssumption DEF TypeOK, ReadTypes, AgentTypes, Replies
<1>1. CASE r < todo
  BY <1>1, StoredOrPassed DEF OrderInv, ReadOrdered
<1>2. CASE ~(r < todo)
  <2>1. CASE AgentReplies \/ NewTurn \/ UNCHANGED vars \/ FlushOutbox \/ QuietLegacy
    <3>1. todo' = todo
      BY <2>1 DEF AgentReplies, NewTurn, vars, QuietLegacy, FlushOutbox, HeadOfQueue,
                  SendPart, AnswerLost, ChunkFails, AttachmentFails, AttachmentRefused,
                  ConfirmPart, CountAttempt, GiveUp, RecordDelivered, RemoveRecord, readVars
    <3>2. QED
      BY <1>2, <3>1
  <2>2. CASE Drain
    BY <1>2, <2>2 DEF Drain, PlacesOK, HandlingPlaces
  <2>3. CASE DrainAborts
    <3>1. r \in todo .. tpos - 1
      BY <1>0, <1>2, <2>3 DEF DrainAborts
    <3>2. r \in skipped'
      BY <2>3, <3>1 DEF DrainAborts
    <3>3. QED
      BY <3>2, SkippedPassed
  <2>4. CASE SkipSent
    <3>1. r = todo
      BY <1>0, <1>2, <2>4 DEF SkipSent, NextReply
    <3>2. AllPassed(r)
      BY <2>4, <3>1 DEF SkipSent, OrderInv, SentPassed
    <3>3. QED
      BY <3>2, AllPassedStays
  <2>5. CASE PlainEnqueue
    <3>1. r = todo
      BY <1>0, <1>2, <2>5 DEF PlainEnqueue, Enqueue, NextReply
    <3>2. CASE Stored(todo) = {}
      <4>1. ReplyJoins
        BY <2>5, <3>2 DEF PlainEnqueue, Enqueue, ReplyJoins
      <4>2. QED
        BY <3>1, <4>1, JoinedReply DEF Stored
    <3>3. CASE Stored(todo) # {}
      BY <3>1, <3>3, StoredOrPassed
    <3>4. QED
      BY <3>2, <3>3
  <2>6. CASE Restart
    <3>1. Resume \in Int /\ Resume <= written + 1 /\ todo' = Resume
      BY <1>0, <2>6 DEF Resume, Restart
    <3>2. r \in todo .. written /\ r < Resume
      BY <1>0, <1>2, <3>1
    <3>3. r \in skipped'
      BY <2>6, <3>2 DEF Restart
    <3>4. QED
      BY <3>3, SkippedPassed
  <2>7. QED
    BY <2>1, <2>2, <2>3, <2>4, <2>5, <2>6 DEF PlainStep
<1>3. QED
  BY <1>1, <1>2

LEMMA InitOrder == Init => OrderInv
BY DEF Init, OrderInv, OldPathUnused, BoxPassed, ConfirmPassed, BoxOrdered, ReadOrdered,
       SentPassed, ChatOrdered, Replies

LEMMA OrderStep ==
  ASSUME Plain, DeliveryInv, OrderInv, [Next]_vars
  PROVE  OrderInv'
<1>1. TypeOK /\ PlacesOK
  BY DEF DeliveryInv
<1>2. PlainStep
  BY <1>1, PlainNext DEF OrderInv
<1>3. OldPathUnused'
  BY <1>2, OldPathStep DEF OrderInv
<1>4. BoxPassed' /\ ConfirmPassed'
  BY <1>1, <1>2, BoxPassedStep, ConfirmPassedStep
<1>5. BoxOrdered' /\ ReadOrdered'
  BY <1>1, <1>2, BoxOrderedStep, ReadOrderedStep
<1>6. SentPassed' /\ ChatOrdered'
  BY <1>1, <1>2, SentPassedStep, ChatOrderedStep
<1>7. QED
  BY <1>3, <1>4, <1>5, <1>6 DEF OrderInv

\* Where nothing uses the old path, the chat shows the parts of the replies in the order
\* they were written, through failures, lost answers and restarts (_flush_pending,
\* _drain_transcript, _run_locked): an earlier part that is missing was reported, buried
\* or dropped.
THEOREM ChatInOrder == Spec => []InOrder
<1>1. CASE Plain
  <2>1. Init => OrderInv
    BY InitOrder
  <2>2. DeliveryInv /\ OrderInv /\ [Next]_vars => OrderInv'
    BY <1>1, OrderStep
  <2>3. OrderInv => InOrder
    BY DEF OrderInv, ChatOrdered, InOrder, Passed
  <2>4. QED
    BY <2>1, <2>2, <2>3, DeliveryInvariant, PTL DEF Spec
<1>2. CASE ~Plain
  <2>1. InOrder
    BY <1>2 DEF InOrder
  <2>2. QED
    BY <2>1, PTL
<1>3. QED
  BY <1>1, <1>2

-----------------------------------------------------------------------------
(* Counting: a set that loses, gains or moves its elements *)

LEMMA FewerElements ==
  ASSUME NEW T, IsFiniteSet(T), NEW S, S \subseteq T
  PROVE  /\ IsFiniteSet(S) /\ Cardinality(S) \in Nat /\ Cardinality(T) \in Nat
         /\ Cardinality(S) <= Cardinality(T)
BY FS_Subset, FS_CardinalityType

LEMMA OneElementMore ==
  ASSUME NEW T, IsFiniteSet(T), NEW x, NEW S, S \subseteq T \cup {x}
  PROVE  /\ Cardinality(S) \in Nat /\ Cardinality(T) \in Nat
         /\ Cardinality(S) <= Cardinality(T) + 1
<1>1. /\ IsFiniteSet(T \cup {x}) /\ Cardinality(T) \in Nat
      /\ Cardinality(T \cup {x}) <= Cardinality(T) + 1
  BY FS_AddElement, FS_CardinalityType
<1>2. Cardinality(S) \in Nat /\ Cardinality(T \cup {x}) \in Nat
      /\ Cardinality(S) <= Cardinality(T \cup {x})
  BY <1>1, FewerElements
<1>3. QED
  BY <1>1, <1>2

LEMMA OneElementLess ==
  ASSUME NEW T, IsFiniteSet(T), NEW x \in T, NEW S, S \subseteq T \ {x}
  PROVE  /\ Cardinality(S) \in Nat /\ Cardinality(T) \in Nat
         /\ Cardinality(S) + 1 <= Cardinality(T)
<1>1. /\ IsFiniteSet(T \ {x}) /\ Cardinality(T) \in Nat
      /\ Cardinality(T \ {x}) = Cardinality(T) - 1
  BY FS_RemoveElement, FS_CardinalityType
<1>2. Cardinality(S) \in Nat /\ Cardinality(S) <= Cardinality(T \ {x})
  BY <1>1, FewerElements
<1>3. QED
  BY <1>1, <1>2

LEMMA ElementsMoved ==
  ASSUME NEW T, IsFiniteSet(T), NEW S, S \subseteq Int, \A i \in S : i + 1 \in T
  PROVE  /\ IsFiniteSet(S) /\ Cardinality(S) \in Nat /\ Cardinality(T) \in Nat
         /\ Cardinality(S) <= Cardinality(T)
<1> DEFINE f == [i \in S |-> i + 1]
<1>1. f \in [S -> T]
  OBVIOUS
<1>2. \A i, j \in S : f[i] = f[j] => i = j
  OBVIOUS
<1>3. f \in Injection(S, T)
  BY <1>1, <1>2 DEF Injection, IsInjective
<1>4. IsFiniteSet(S) /\ Cardinality(S) <= Cardinality(T)
  BY <1>3, FS_Injection
<1>5. QED
  BY <1>4, FS_CardinalityType

-----------------------------------------------------------------------------
(* Repetition.  A part may still be sent from where it waits: from a record of the outbox, *)
(* with the attachments a failed enqueue left over, from the old queue, or by being read   *)
(* from the transcript.  How often it was shown and how often it waits, together, grow     *)
(* only by a failure or a crash.                                                           *)

IsText(p) == p[2] <= Chunks[p[1]]
Pending(rec, p) ==
  \/ rec.reply = p[1] /\ rec.sent < p[2] /\ IsText(p)
  \/ \E j \in DOMAIN rec.files : j > rec.filesSent /\ rec.files[j] = p

\* The part of the head record that was just shown waits no more.
Underway(p) == pc = "confirm" /\ NextPart(Rec) = p
InBox(p) == {i \in DOMAIN box : Pending(box[i], p) /\ ~(i = 1 /\ Underway(p))}
InCarried(p) == IF p \in Range(carried) THEN 1 ELSE 0

\* The old queue and its file may differ; a crash replaces the one by the other.
Times(s, r) == Cardinality({i \in DOMAIN s : s[i] = r})
InQueue(r) ==
  IF Times(legacy, r) >= Times(legacyDisk, r) THEN Times(legacy, r) ELSE Times(legacyDisk, r)
Popping(r) == IF pc = "pop" /\ Head(legacy) = r THEN 1 ELSE 0
InOld(p) == IF IsText(p) THEN InQueue(p[1]) - Popping(p[1]) ELSE 0

\* The reply at hand is read again after a crash, but what of it was shown or went to the
\* attachments left over does not wait in the transcript.
OnOldPath == {"direct", "append", "directmark", "attachments"}
Begun(p) == IF IsText(p) THEN {"spoken", "directmark", "attachments"} ELSE OnOldPath
ToRead(p) == p[1] >= todo /\ p[1] \notin sentMem /\ ~(p[1] = todo /\ pc \in Begun(p))
InRead(p) == IF ToRead(p) THEN 1 ELSE 0

Charge(p) == shown[p] + Cardinality(InBox(p)) + InCarried(p) + InOld(p) + InRead(p)
Charged == \A p \in Parts : Charge(p) <= 1 + faults + 2 * crashes

\* An attachment is left over once, from an earlier reply, and named by a record once.
Distinct(s) == \A i, j \in DOMAIN s : s[i] = s[j] => i = j
NoText(s) == \A i \in DOMAIN s : ~IsText(s[i])
CarriedOK ==
  /\ Distinct(carried) /\ NoText(carried)
  /\ \A i \in DOMAIN carried :
       carried[i][1] < todo \/ (carried[i][1] = todo /\ pc \in OnOldPath)
BoxFilesOK == \A i \in DOMAIN box : Distinct(box[i].files) /\ NoText(box[i].files)
AtHandUnsent == pc \in {"enqueue", "direct", "append"} => todo \notin sentMem
WaitingInv == CarriedOK /\ BoxFilesOK /\ AtHandUnsent

LEMMA PartTypes ==
  ASSUME NEW p \in Parts
  PROVE  /\ p = <<p[1], p[2]>> /\ p[1] \in Replies /\ p[1] \in Int /\ p[2] \in Nat
         /\ 1 <= p[2] /\ Chunks[p[1]] \in Nat
         /\ IsText(p) <=> p \in TextParts(p[1])
         /\ \A r : p \in TextParts(r) => p[1] = r
<1>1. p = <<p[1], p[2]>> /\ p[1] \in Replies /\ p[2] \in 1 .. Chunks[p[1]] + Files[p[1]]
  BY PartNumbers
<1>2. Chunks[p[1]] \in Nat /\ Files[p[1]] \in Nat
  BY <1>1, ReplyParts
<1>3. p[1] \in Int /\ p[2] \in Nat /\ 1 <= p[2]
  BY <1>1, <1>2, ConstantsAssumption DEF Replies
<1>4. IsText(p) <=> p[2] \in 1 .. Chunks[p[1]]
  BY <1>2, <1>3 DEF IsText
<1>5. p \in TextParts(p[1]) <=> p[2] \in 1 .. Chunks[p[1]]
  BY <1>1 DEF TextParts
<1>6. \A r : p \in TextParts(r) => p[1] = r
  BY <1>1 DEF TextParts
<1>7. QED
  BY <1>1, <1>2, <1>3, <1>4, <1>5, <1>6

LEMMA BoxPlaces ==
  ASSUME TypeOK, NEW p \in Parts
  PROVE  /\ IsFiniteSet(InBox(p)) /\ InBox(p) \subseteq Nat
         /\ Cardinality(InBox(p)) \in Nat
<1>1. box \in Seq(Records)
  BY DEF TypeOK, DiskTypes
<1>2. Len(box) \in Nat /\ DOMAIN box = 1 .. Len(box)
  BY <1>1, LenProperties
<1>3. IsFiniteSet(1 .. Len(box))
  BY <1>2, FS_Interval
<1>4. InBox(p) \subseteq 1 .. Len(box)
  BY <1>2 DEF InBox
<1>5. QED
  BY <1>2, <1>3, <1>4, FewerElements

\* The same of the next state.
LEMMA BoxPlacesNext ==
  ASSUME TypeOK', NEW p \in Parts
  PROVE  Cardinality(InBox(p)') \in Nat
<1>1. PICK b : b = box' /\ b \in Seq(Records)
  BY DEF TypeOK, DiskTypes
<1>2. Len(b) \in Nat /\ DOMAIN b = 1 .. Len(b)
  BY <1>1, LenProperties
<1>3. IsFiniteSet(1 .. Len(b))
  BY <1>2, FS_Interval
<1>4. InBox(p)' \subseteq 1 .. Len(b)
  BY <1>1, <1>2 DEF InBox
<1>5. QED
  BY <1>3, <1>4, FewerElements

\* The next part is pending, and confirming it leaves exactly the others.
LEMMA NextPending ==
  ASSUME TypeOK, box # <<>>, ~Complete(Rec)
  PROVE  Pending(Rec, NextPart(Rec))
<1>1. Rec \in Records /\ Rec.sent <= Chunks[Rec.reply] /\ Rec.filesSent <= Len(Rec.files)
  BY HeadRecord
<1>2. /\ Rec.reply \in Replies /\ Rec.sent \in Nat /\ Rec.filesSent \in Nat
      /\ Rec.files \in Seq(Parts) /\ Chunks[Rec.reply] \in Nat
  BY <1>1, ConstantsAssumption DEF Records
<1>3. Len(Rec.files) \in Nat /\ DOMAIN Rec.files = 1 .. Len(Rec.files)
  BY <1>2, LenProperties
<1>4. CASE TextLeft(Rec)
  BY <1>2, <1>4 DEF TextLeft, NextPart, Pending, IsText
<1>5. CASE ~TextLeft(Rec)
  <2>1. Rec.filesSent + 1 \in DOMAIN Rec.files /\ Rec.filesSent + 1 > Rec.filesSent
    BY <1>1, <1>2, <1>3, <1>5 DEF Complete
  <2>2. QED
    BY <1>5, <2>1 DEF NextPart, Pending
<1>6. QED
  BY <1>4, <1>5

LEMMA ConfirmedPending ==
  ASSUME TypeOK, BoxFilesOK, box # <<>>, ~Complete(Rec), NEW p \in Parts,
         Pending(Confirmed(Rec), p)
  PROVE  Pending(Rec, p) /\ p # NextPart(Rec)
<1>1. /\ Rec \in Records /\ Rec.sent <= Chunks[Rec.reply]
      /\ Rec.filesSent <= Len(Rec.files)
      /\ Distinct(Rec.files) /\ NoText(Rec.files)
  BY HeadRecord DEF BoxFilesOK
<1>2. /\ Rec.reply \in Replies /\ Rec.sent \in Nat /\ Rec.filesSent \in Nat
      /\ Rec.files \in Seq(Parts) /\ Chunks[Rec.reply] \in Nat
  BY <1>1, ConstantsAssumption DEF Records
<1>3. Len(Rec.files) \in Nat /\ DOMAIN Rec.files = 1 .. Len(Rec.files)
  BY <1>2, LenProperties
<1>4. CASE TextLeft(Rec)
  <2>1. /\ Confirmed(Rec).reply = Rec.reply /\ Confirmed(Rec).files = Rec.files
        /\ Confirmed(Rec).sent = Rec.sent + 1 /\ Confirmed(Rec).filesSent = Rec.filesSent
    BY <1>1, <1>4 DEF Confirmed, Records
  <2>2. NextPart(Rec) = <<Rec.reply, Rec.sent + 1>> /\ IsText(NextPart(Rec))
    BY <1>2, <1>4 DEF NextPart, TextLeft, IsText
  <2>3. CASE Rec.reply = p[1] /\ Rec.sent + 1 < p[2] /\ IsText(p)
    <3>1. Rec.sent < p[2] /\ p[2] # Rec.sent + 1
      BY <1>2, <2>3, PartTypes
    <3>2. QED
      BY <2>2, <2>3, <3>1 DEF Pending
  <2>4. CASE \E j \in DOMAIN Rec.files : j > Rec.filesSent /\ Rec.files[j] = p
    <3>1. ~IsText(p)
      BY <1>1, <2>4 DEF NoText
    <3>2. QED
      BY <2>2, <2>4, <3>1 DEF Pending
  <2>5. QED
    BY <2>1, <2>3, <2>4 DEF Pending
<1>5. CASE ~TextLeft(Rec)
  <2>1. /\ Confirmed(Rec).reply = Rec.reply /\ Confirmed(Rec).files = Rec.files
        /\ Confirmed(Rec).sent = Rec.sent /\ Confirmed(Rec).filesSent = Rec.filesSent + 1
    BY <1>1, <1>5 DEF Confirmed, Records
  <2>2. NextPart(Rec) = Rec.files[Rec.filesSent + 1]
    BY <1>5 DEF NextPart
  <2>3. ~(Rec.reply = p[1] /\ Rec.sent < p[2] /\ IsText(p))
    BY <1>2, <1>5, PartTypes DEF TextLeft, IsText
  <2>4. PICK j \in DOMAIN Rec.files : j > Rec.filesSent + 1 /\ Rec.files[j] = p
    BY <2>1, <2>3 DEF Pending
  <2>5. Rec.filesSent + 1 \in DOMAIN Rec.files /\ j > Rec.filesSent /\ j # Rec.filesSent + 1
    BY <1>1, <1>2, <1>3, <1>5, <2>4 DEF Complete
  <2>6. p # NextPart(Rec)
    BY <1>1, <2>2, <2>4, <2>5 DEF Distinct
  <2>7. QED
    BY <2>4, <2>5, <2>6 DEF Pending
<1>6. QED
  BY <1>4, <1>5

\* How the places where a part waits in the outbox change with the queue: an untouched
\* queue, one whose head is rewritten, one that loses its head.
LEMMA SameBoxPlaces ==
  ASSUME TypeOK, UNCHANGED box, NEW p \in Parts
  PROVE  /\ Cardinality(InBox(p)) \in Nat /\ Cardinality(InBox(p)') \in Nat
         /\ Cardinality(InBox(p)') <= Cardinality(InBox(p)) + 1
         /\ (Underway(p) => pc' = "confirm")
              => Cardinality(InBox(p)') <= Cardinality(InBox(p))
<1>1. IsFiniteSet(InBox(p))
  BY BoxPlaces
<1>2. InBox(p)' \subseteq InBox(p) \cup {1}
  BY DEF InBox, Pending
<1>3. ASSUME Underway(p) => pc' = "confirm"
      PROVE  InBox(p)' \subseteq InBox(p)
  <2>1. Underway(p) => Underway(p)'
    BY <1>3 DEF Underway, NextPart, TextLeft, Rec
  <2>2. QED
    BY <2>1 DEF InBox, Pending
<1>4. QED
  BY <1>1, <1>2, <1>3, OneElementMore, FewerElements

LEMMA RewrittenPlaces ==
  ASSUME TypeOK, box # <<>>, NEW rec \in Records, Fits(rec), box' = [box EXCEPT ![1] = rec],
         NEW p \in Parts, Pending(rec, p) => Pending(Rec, p) /\ ~Underway(p)
  PROVE  /\ Cardinality(InBox(p)) \in Nat /\ Cardinality(InBox(p)') \in Nat
         /\ Cardinality(InBox(p)') <= Cardinality(InBox(p))
<1>1. IsFiniteSet(InBox(p))
  BY BoxPlaces
<1>2. /\ DOMAIN box' = DOMAIN box
      /\ \A i \in DOMAIN box : box'[i] = IF i = 1 THEN rec ELSE box[i]
  BY HeadUpdate
<1>3. Rec = box[1]
  BY HeadRecord
<1>4. ASSUME NEW i \in DOMAIN box, Pending(box'[i], p)
      PROVE  Pending(box[i], p) /\ ~(i = 1 /\ Underway(p))
  BY <1>2, <1>3, <1>4
<1>5. InBox(p)' \subseteq InBox(p)
  <2> SUFFICES ASSUME NEW i, i \in InBox(p)'
               PROVE  i \in InBox(p)
    OBVIOUS
  <2>1. i \in DOMAIN box /\ Pending(box'[i], p)
    BY <1>2 DEF InBox, Pending
  <2>2. QED
    BY <1>4, <2>1 DEF InBox
<1>6. QED
  BY <1>1, <1>5, FewerElements

LEMMA TailPlaces ==
  ASSUME TypeOK, box # <<>>, box' = Tail(box), pc' = "flush", NEW p \in Parts
  PROVE  /\ Cardinality(InBox(p)) \in Nat /\ Cardinality(InBox(p)') \in Nat
         /\ Cardinality(InBox(p)') <= Cardinality(InBox(p))
<1>1. IsFiniteSet(InBox(p)) /\ Tail(box) \in Seq(Records)
  BY BoxPlaces, HeadRecord
<1>2. \A i \in DOMAIN box' : i \in Nat /\ 1 <= i /\ i + 1 \in DOMAIN box /\ box'[i] = box[i + 1]
  BY <1>1, HeadRecord, LenProperties
<1>3. InBox(p)' \subseteq Int
  BY <1>2 DEF InBox
<1>4. ASSUME NEW i, i \in InBox(p)'
      PROVE  i + 1 \in InBox(p)
  <2>1. i \in DOMAIN box' /\ Pending(box'[i], p)
    BY <1>4 DEF InBox, Pending
  <2>2. i + 1 \in DOMAIN box /\ Pending(box[i + 1], p) /\ i + 1 # 1
    BY <1>2, <2>1
  <2>3. QED
    BY <2>2 DEF InBox
<1>5. QED
  BY <1>1, <1>3, <1>4, ElementsMoved, FS_CardinalityType

\* Every step at the head of the outbox pays for what it shows: the part waits no more, or
\* something failed.
LEMMA FlushOutboxPays ==
  ASSUME TypeOK, PlacesOK, BoxFilesOK, FlushOutbox, NEW p \in Parts
  PROVE  shown'[p] + Cardinality(InBox(p)') + faults
           <= shown[p] + Cardinality(InBox(p)) + faults'
<1>1. /\ shown[p] \in Nat /\ faults \in Nat
      /\ \A k : Fault(k) => faults' = faults + 1
  BY ConstantsAssumption DEF TypeOK, HistoryTypes, Fault
<1>2. CASE HeadOfQueue \/ ChunkFails \/ AttachmentFails \/ AttachmentRefused \/ RecordDelivered
  <2>1. UNCHANGED <<box, shown>> /\ pc # "confirm"
    BY <1>2 DEF HeadOfQueue, ChunkFails, AttachmentFails, AttachmentRefused, RecordDelivered,
                diskVars, histVars
  <2>2. faults' = faults \/ faults' = faults + 1
    BY <1>1, <1>2 DEF HeadOfQueue, ChunkFails, AttachmentFails, AttachmentRefused,
                      RecordDelivered, MarkSent, MarkSentFails, Abort
  <2>3. /\ Cardinality(InBox(p)) \in Nat /\ Cardinality(InBox(p)') \in Nat
        /\ Cardinality(InBox(p)') <= Cardinality(InBox(p))
    BY <2>1, SameBoxPlaces DEF Underway
  <2>4. QED
    BY <1>1, <2>1, <2>2, <2>3
<1>3. CASE SendPart
  <2>1. /\ pc = "send" /\ pc' = "confirm" /\ box # <<>> /\ ~Complete(Rec)
        /\ UNCHANGED <<box, faults>> /\ Appears({NextPart(Rec)})
    BY <1>3 DEF SendPart, diskVars, PlacesOK, RecordPlaces
  <2>2. CASE p = NextPart(Rec)
    <3>1. shown'[p] = shown[p] + 1
      BY <2>1, <2>2 DEF Appears
    <3>2. 1 \in InBox(p)
      BY <2>1, <2>2, NextPending, HeadRecord DEF InBox, Underway
    <3>3. Underway(p)'
      BY <2>1, <2>2 DEF Underway, NextPart, TextLeft, Rec
    <3>4. InBox(p)' \subseteq InBox(p) \ {1}
      BY <2>1, <3>3 DEF InBox, Pending, Underway
    <3>5. /\ Cardinality(InBox(p)) \in Nat /\ Cardinality(InBox(p)') \in Nat
          /\ Cardinality(InBox(p)') + 1 <= Cardinality(InBox(p))
      BY <3>2, <3>4, BoxPlaces, OneElementLess
    <3>6. QED
      BY <1>1, <2>1, <3>1, <3>5
  <2>3. CASE p # NextPart(Rec)
    <3>1. shown'[p] = shown[p]
      BY <2>1, <2>3 DEF Appears
    <3>2. /\ Cardinality(InBox(p)) \in Nat /\ Cardinality(InBox(p)') \in Nat
          /\ Cardinality(InBox(p)') <= Cardinality(InBox(p))
      BY <2>1, SameBoxPlaces DEF Underway
    <3>3. QED
      BY <1>1, <2>1, <3>1, <3>2
  <2>4. QED
    BY <2>2, <2>3
<1>4. CASE AnswerLost
  <2>1. pc = "send" /\ UNCHANGED box /\ faults' = faults + 1
    BY <1>1, <1>4 DEF AnswerLost, diskVars
  <2>2. shown'[p] = shown[p] + 1 \/ shown'[p] = shown[p]
    BY <1>4 DEF AnswerLost, Appears
  <2>3. /\ Cardinality(InBox(p)) \in Nat /\ Cardinality(InBox(p)') \in Nat
        /\ Cardinality(InBox(p)') <= Cardinality(InBox(p))
    BY <2>1, SameBoxPlaces DEF Underway
  <2>4. QED
    BY <1>1, <2>1, <2>2, <2>3
<1>5. CASE ConfirmPart
  <2>1. UNCHANGED shown /\ box # <<>> /\ ~Complete(Rec)
    BY <1>5 DEF ConfirmPart, histVars, PlacesOK, RecordPlaces
  <2>2. CASE UNCHANGED box /\ Abort("record")
    <3>1. faults' = faults + 1
      BY <1>1, <2>2 DEF Abort
    <3>2. QED
      BY <1>1, <2>1, <2>2, <3>1, SameBoxPlaces
  <2>3. CASE box' = [box EXCEPT ![1] = Confirmed(Rec)] /\ UNCHANGED faults
    <3>1. Confirmed(Rec) \in Records /\ Fits(Confirmed(Rec))
      BY <2>1, RecordProgress DEF Fits
    <3>2. Pending(Confirmed(Rec), p) => Pending(Rec, p) /\ ~Underway(p)
      BY <2>1, ConfirmedPending DEF Underway
    <3>3. /\ Cardinality(InBox(p)) \in Nat /\ Cardinality(InBox(p)') \in Nat
          /\ Cardinality(InBox(p)') <= Cardinality(InBox(p))
      BY <2>1, <2>3, <3>1, <3>2, RewrittenPlaces
    <3>4. QED
      BY <1>1, <2>1, <2>3, <3>3
  <2>4. Rec = box[1]
    BY <2>1, HeadRecord
  <2>5. QED
    BY <1>5, <2>2, <2>3, <2>4 DEF ConfirmPart
<1>6. CASE CountAttempt
  <2> DEFINE counted == [Rec EXCEPT !.attempts = @ + 1]
  <2>1. pc = "count" /\ UNCHANGED shown /\ box # <<>>
    BY <1>6 DEF CountAttempt, PlacesOK, RecordPlaces
  <2>2. Rec = box[1] /\ Rec \in Records /\ Fits(Rec)
    BY <2>1, HeadRecord DEF Fits
  <2>3. CASE UNCHANGED box /\ Abort("record")
    <3>1. faults' = faults + 1
      BY <1>1, <2>3 DEF Abort
    <3>2. QED
      BY <1>1, <2>1, <2>3, <3>1, SameBoxPlaces
  <2>4. CASE box' = [box EXCEPT ![1] = counted] /\ UNCHANGED faults
    <3>1. /\ counted \in Records /\ counted.reply = Rec.reply /\ counted.files = Rec.files
          /\ counted.sent = Rec.sent /\ counted.filesSent = Rec.filesSent
      BY <2>2 DEF Records
    <3>2. Fits(counted) /\ (Pending(counted, p) => Pending(Rec, p) /\ ~Underway(p))
      BY <2>1, <2>2, <3>1 DEF Fits, Pending, Underway
    <3> HIDE DEF counted
    <3>3. /\ Cardinality(InBox(p)) \in Nat /\ Cardinality(InBox(p)') \in Nat
          /\ Cardinality(InBox(p)') <= Cardinality(InBox(p))
      BY <2>1, <2>4, <3>1, <3>2, RewrittenPlaces
    <3>4. QED
      BY <1>1, <2>1, <2>4, <3>3
  <2>5. QED
    BY <1>6, <2>2, <2>3, <2>4 DEF CountAttempt
<1>7. CASE GiveUp \/ RemoveRecord
  <2>1. pc # "confirm" /\ UNCHANGED shown /\ box # <<>> /\ pc' = "flush"
    BY <1>7 DEF GiveUp, RemoveRecord, Abort, histVars, PlacesOK, RecordPlaces
  <2>2. CASE UNCHANGED box
    <3>1. faults' = faults \/ faults' = faults + 1
      BY <1>1, <1>7 DEF GiveUp, RemoveRecord, Abort
    <3>2. /\ Cardinality(InBox(p)) \in Nat /\ Cardinality(InBox(p)') \in Nat
          /\ Cardinality(InBox(p)') <= Cardinality(InBox(p))
      BY <2>1, <2>2, SameBoxPlaces DEF Underway
    <3>3. QED
      BY <1>1, <2>1, <3>1, <3>2
  <2>3. CASE box' = Tail(box) /\ UNCHANGED faults
    <3>1. /\ Cardinality(InBox(p)) \in Nat /\ Cardinality(InBox(p)') \in Nat
          /\ Cardinality(InBox(p)') <= Cardinality(InBox(p))
      BY <2>1, <2>3, TailPlaces
    <3>2. QED
      BY <1>1, <2>1, <2>3, <3>1
  <2>4. QED
    BY <1>7, <2>2, <2>3 DEF GiveUp, RemoveRecord
<1>8. QED
  BY <1>2, <1>3, <1>4, <1>5, <1>6, <1>7 DEF FlushOutbox

\* The attachments of the record a reply is stored with: those left over, then its own.
LEMMA OwnFilesOK ==
  ASSUME NEW r \in Replies
  PROVE  /\ OwnFiles(r) \in Seq(Parts) /\ DOMAIN OwnFiles(r) = 1 .. Files[r]
         /\ Distinct(OwnFiles(r)) /\ NoText(OwnFiles(r))
         /\ \A i \in DOMAIN OwnFiles(r) : OwnFiles(r)[i][1] = r
<1>1. Chunks[r] \in Nat /\ Files[r] \in Nat /\ OwnFiles(r) \in Seq(Parts)
  BY ReplyParts
<1>2. \A i \in 1 .. Files[r] : OwnFiles(r)[i] = <<r, Chunks[r] + i>>
  BY DEF OwnFiles
<1>3. DOMAIN OwnFiles(r) = 1 .. Files[r]
  BY DEF OwnFiles
<1>4. \A i \in 1 .. Files[r] : OwnFiles(r)[i][1] = r /\ OwnFiles(r)[i][2] = Chunks[r] + i
  BY <1>2
<1>5. Distinct(OwnFiles(r))
  <2>1. \A i, j \in 1 .. Files[r] : Chunks[r] + i = Chunks[r] + j => i = j
    BY <1>1
  <2>2. QED
    BY <1>3, <1>4, <2>1 DEF Distinct
<1>6. NoText(OwnFiles(r))
  <2>1. \A i \in 1 .. Files[r] : ~(Chunks[r] + i <= Chunks[r])
    BY <1>1
  <2>2. QED
    BY <1>3, <1>4, <2>1 DEF NoText, IsText
<1>7. QED
  BY <1>1, <1>3, <1>4, <1>5, <1>6

LEMMA FilesNowOK ==
  ASSUME TypeOK, PlacesOK, CarriedOK, Storing
  PROVE  /\ Distinct(FilesNow) /\ NoText(FilesNow)
         /\ \A p : p \in Range(FilesNow) <=> p \in Range(carried) \/ p \in Range(OwnFiles(todo))
         /\ \A p \in Range(carried) : p[1] < todo
         /\ \A p \in Range(OwnFiles(todo)) : p[1] = todo
         /\ \A i \in DOMAIN FilesNow : FilesNow[i][1] <= todo
<1> DEFINE own == OwnFiles(todo)
<1>1. pc \in {"store", "enqueue"} /\ todo \in Replies /\ todo \in Int
  BY ReplyAtHand, ConstantsAssumption DEF Storing, HandlingPlaces, Replies
<1>2. /\ own \in Seq(Parts) /\ Distinct(own) /\ NoText(own)
      /\ \A i \in DOMAIN own : own[i][1] = todo
  BY <1>1, OwnFilesOK
<1>3. /\ carried \in Seq(Parts) /\ Distinct(carried) /\ NoText(carried)
      /\ \A i \in DOMAIN carried : carried[i][1] < todo
  BY <1>1 DEF CarriedOK, OnOldPath, TypeOK, MemoryTypes
<1> HIDE DEF own
<1>4. /\ FilesNow = carried \o own /\ FilesNow \in Seq(Parts)
      /\ Len(FilesNow) = Len(carried) + Len(own)
      /\ \A i \in 1 .. Len(carried) : FilesNow[i] = carried[i]
      /\ \A i \in 1 .. Len(own) : FilesNow[Len(carried) + i] = own[i]
  BY <1>2, <1>3, ConcatProperties DEF FilesNow, own
<1>5. /\ Len(carried) \in Nat /\ DOMAIN carried = 1 .. Len(carried)
      /\ Len(own) \in Nat /\ DOMAIN own = 1 .. Len(own)
      /\ DOMAIN FilesNow = 1 .. Len(carried) + Len(own)
  BY <1>2, <1>3, <1>4, LenProperties
<1>6. ASSUME NEW i \in DOMAIN FilesNow
      PROVE  \/ i \in DOMAIN carried /\ FilesNow[i] = carried[i]
             \/ i - Len(carried) \in DOMAIN own /\ FilesNow[i] = own[i - Len(carried)]
  <2>1. CASE i \in 1 .. Len(carried)
    BY <1>4, <1>5, <2>1
  <2>2. CASE i \notin 1 .. Len(carried)
    <3>1. i - Len(carried) \in 1 .. Len(own)
      BY <1>5, <2>2
    <3>2. FilesNow[Len(carried) + (i - Len(carried))] = own[i - Len(carried)]
      BY <1>4, <3>1
    <3>3. Len(carried) + (i - Len(carried)) = i
      BY <1>5
    <3>4. QED
      BY <1>5, <3>1, <3>2, <3>3
  <2>3. QED
    BY <2>1, <2>2
<1>7. /\ \A i \in DOMAIN carried : i \in DOMAIN FilesNow /\ FilesNow[i] = carried[i]
      /\ \A i \in DOMAIN own : /\ Len(carried) + i \in DOMAIN FilesNow
                               /\ FilesNow[Len(carried) + i] = own[i]
  BY <1>4, <1>5
<1>8. \A i \in DOMAIN FilesNow : FilesNow[i][1] <= todo /\ FilesNow[i][1] \in Int
  <2>1. \A p \in Parts : p[1] \in Int
    BY PartTypes
  <2>2. \A i \in DOMAIN FilesNow : FilesNow[i] \in Parts
    BY <1>4, ElementOfSeq, <1>5
  <2>3. QED
    BY <1>1, <1>2, <1>3, <1>6, <2>1, <2>2
<1>9. Distinct(FilesNow)
  <2> SUFFICES ASSUME NEW i \in DOMAIN FilesNow, NEW j \in DOMAIN FilesNow,
                      FilesNow[i] = FilesNow[j]
               PROVE  i = j
    BY DEF Distinct
  <2>1. CASE i \in DOMAIN carried /\ FilesNow[i] = carried[i]
    <3>1. ~(FilesNow[j][1] = todo)
      BY <1>1, <1>3, <1>8, <2>1
    <3>2. j \in DOMAIN carried /\ FilesNow[j] = carried[j]
      BY <1>2, <1>6, <3>1
    <3>3. QED
      BY <1>3, <2>1, <3>2 DEF Distinct
  <2>2. CASE i - Len(carried) \in DOMAIN own /\ FilesNow[i] = own[i - Len(carried)]
    <3>1. FilesNow[j][1] = todo
      BY <1>2, <2>2
    <3>2. ~(FilesNow[j][1] < todo)
      BY <1>1, <3>1
    <3>3. j - Len(carried) \in DOMAIN own /\ FilesNow[j] = own[j - Len(carried)]
      BY <1>3, <1>6, <3>2
    <3>4. i - Len(carried) = j - Len(carried)
      BY <1>2, <2>2, <3>3 DEF Distinct
    <3>5. QED
      BY <1>5, <3>4
  <2>3. QED
    BY <1>6, <2>1, <2>2
<1>10. NoText(FilesNow)
  BY <1>2, <1>3, <1>6 DEF NoText
<1>11. \A p : p \in Range(FilesNow) <=> p \in Range(carried) \/ p \in Range(own)
  BY <1>6, <1>7 DEF Range
<1>12. \A p \in Range(carried) : p[1] < todo
  BY <1>3 DEF Range
<1>13. \A p \in Range(own) : p[1] = todo
  BY <1>2 DEF Range
<1>14. QED
  BY <1>8, <1>9, <1>10, <1>11, <1>12, <1>13 DEF own

\* A part waits in a new record if it is the reply's or was left over.
LEMMA NewPending ==
  ASSUME TypeOK, PlacesOK, CarriedOK, Storing, NEW p \in Parts,
         Pending(Record(todo, FilesNow), p)
  PROVE  p[1] = todo \/ p \in Range(carried)
<1>1. CASE p[1] = todo
  BY <1>1
<1>2. CASE p[1] # todo
  <2>1. p \in Range(FilesNow)
    BY <1>2 DEF Pending, Record, Range
  <2>2. QED
    BY <2>1, FilesNowOK
<1>3. QED
  BY <1>1, <1>2

LEMMA JoiningPlaces ==
  ASSUME TypeOK, PlacesOK, Storing, pc' # "confirm", NEW p \in Parts,
         box' = Append(box, Record(todo, FilesNow))
  PROVE  /\ Cardinality(InBox(p)) \in Nat /\ Cardinality(InBox(p)') \in Nat
         /\ Cardinality(InBox(p)') <= Cardinality(InBox(p)) + 1
         /\ ~Pending(Record(todo, FilesNow), p)
              => Cardinality(InBox(p)') <= Cardinality(InBox(p))
<1> DEFINE new == Record(todo, FilesNow)
<1>1. pc # "confirm" /\ new \in Records /\ Fits(new)
  BY NewRecord DEF Storing, HandlingPlaces
<1>2. IsFiniteSet(InBox(p))
  BY BoxPlaces
<1>3. /\ DOMAIN box' = DOMAIN box \cup {Len(box) + 1}
      /\ \A i \in DOMAIN box : box'[i] = box[i]
      /\ box'[Len(box) + 1] = new
  BY <1>1, RecordAppended
<1> HIDE DEF new
<1>4. ASSUME NEW i, i \in InBox(p)'
      PROVE  i \in InBox(p) \/ (i = Len(box) + 1 /\ Pending(new, p))
  <2>1. i \in DOMAIN box' /\ Pending(box'[i], p)
    BY <1>4 DEF InBox, Pending
  <2>2. QED
    BY <1>1, <1>3, <2>1 DEF InBox, Underway
<1>5. InBox(p)' \subseteq InBox(p) \cup {Len(box) + 1}
  BY <1>4
<1>6. ~Pending(new, p) => InBox(p)' \subseteq InBox(p)
  BY <1>4
<1>7. QED
  BY <1>2, <1>5, <1>6, OneElementMore, FewerElements DEF new

-----------------------------------------------------------------------------
(* What waits stays well-formed. *)

LEMMA BoxFilesStep ==
  ASSUME TypeOK, PlacesOK, WaitingInv, [Next]_vars
  PROVE  BoxFilesOK'
<1>1. \A i \in DOMAIN box : Distinct(box[i].files) /\ NoText(box[i].files)
  BY DEF WaitingInv, BoxFilesOK
<1>2. ASSUME UNCHANGED box
      PROVE  BoxFilesOK'
  BY <1>1, <1>2 DEF BoxFilesOK, Distinct, NoText, IsText
<1>3. ASSUME NEW rec \in Records, Fits(rec), rec.files = Rec.files, box # <<>>,
             box' = [box EXCEPT ![1] = rec]
      PROVE  BoxFilesOK'
  <2>1. /\ DOMAIN box' = DOMAIN box
        /\ \A i \in DOMAIN box : box'[i] = IF i = 1 THEN rec ELSE box[i]
    BY <1>3, HeadUpdate
  <2>2. Rec = box[1]
    BY <1>3, HeadRecord
  <2>3. \A i \in DOMAIN box : box'[i].files = box[i].files
    BY <1>3, <2>1, <2>2
  <2>4. \A i \in DOMAIN box : Distinct(box'[i].files) /\ NoText(box'[i].files)
    BY <1>1, <2>3
  <2>5. QED
    BY <2>1, <2>4 DEF BoxFilesOK, Distinct, NoText, IsText
<1>4. ASSUME box # <<>>, box' = Tail(box)
      PROVE  BoxFilesOK'
  <2>1. \A i \in DOMAIN box' : i + 1 \in DOMAIN box /\ box'[i] = box[i + 1]
    BY <1>4, HeadRecord
  <2>2. \A i \in DOMAIN box' : Distinct(box'[i].files) /\ NoText(box'[i].files)
    BY <1>1, <2>1
  <2>3. QED
    BY <2>2 DEF BoxFilesOK, Distinct, NoText, IsText
<1>5. CASE ConfirmPart
  <2>1. box # <<>> /\ ~Complete(Rec) /\ Rec = box[1]
    BY <1>5, HeadRecord DEF ConfirmPart, PlacesOK, RecordPlaces
  <2>2. /\ Confirmed(Rec) \in Records /\ Fits(Confirmed(Rec))
        /\ Confirmed(Rec).files = Rec.files
    BY <2>1, RecordProgress DEF Fits
  <2>3. UNCHANGED box \/ box' = [box EXCEPT ![1] = Confirmed(Rec)]
    BY <1>5, <2>1 DEF ConfirmPart
  <2>4. QED
    BY <1>2, <1>3, <2>1, <2>2, <2>3
<1>6. CASE CountAttempt
  <2> DEFINE counted == [Rec EXCEPT !.attempts = @ + 1]
  <2>1. box # <<>> /\ Rec = box[1] /\ Rec \in Records /\ Fits(Rec)
    BY <1>6, HeadRecord DEF CountAttempt, PlacesOK, RecordPlaces, Fits
  <2>2. counted \in Records /\ counted.files = Rec.files /\ Fits(counted)
    BY <2>1 DEF Records, Fits
  <2>3. UNCHANGED box \/ box' = [box EXCEPT ![1] = counted]
    BY <1>6, <2>1 DEF CountAttempt
  <2> HIDE DEF counted
  <2>4. QED
    BY <1>2, <1>3, <2>1, <2>2, <2>3
<1>7. CASE GiveUp \/ RemoveRecord
  BY <1>2, <1>4, <1>7 DEF GiveUp, RemoveRecord, PlacesOK, RecordPlaces
<1>8. CASE Enqueue
  <2>1. CASE box' = Append(box, Record(todo, FilesNow))
    <3> DEFINE new == Record(todo, FilesNow)
    <3>1. Storing /\ pc \in HandlingPlaces
      BY <1>8 DEF Enqueue, Storing, HandlingPlaces
    <3>2. new \in Records /\ Fits(new) /\ new.files = FilesNow
      BY <3>1, NewRecord DEF Record
    <3>3. Distinct(new.files) /\ NoText(new.files)
      BY <3>1, <3>2, FilesNowOK DEF WaitingInv
    <3>4. /\ DOMAIN box' = DOMAIN box \cup {Len(box) + 1}
          /\ \A i \in DOMAIN box : box'[i] = box[i]
          /\ box'[Len(box) + 1] = new
      BY <2>1, <3>2, RecordAppended
    <3> HIDE DEF new
    <3>5. \A i \in DOMAIN box' : Distinct(box'[i].files) /\ NoText(box'[i].files)
      BY <1>1, <3>3, <3>4
    <3>6. QED
      BY <3>5 DEF BoxFilesOK, Distinct, NoText, IsText
  <2>2. QED
    BY <1>2, <1>8, <2>1 DEF Enqueue
<1>9. CASE UNCHANGED box
  BY <1>2, <1>9
<1>10. UNCHANGED box \/ ConfirmPart \/ CountAttempt \/ GiveUp \/ RemoveRecord \/ Enqueue
  <2>1. CASE AgentReplies \/ NewTurn \/ Restart \/ UNCHANGED vars
    BY <2>1 DEF AgentReplies, NewTurn, Restart, vars, diskVars
  <2>2. CASE FlushOutbox
    BY <2>2 DEF FlushOutbox, HeadOfQueue, SendPart, AnswerLost, ChunkFails, AttachmentFails,
                AttachmentRefused, RecordDelivered, diskVars
  <2>3. CASE FlushLegacy
    BY <2>3 DEF FlushLegacy, LegacySend, LegacyPop, LegacyMark, diskVars
  <2>4. CASE DrainTranscript
    BY <2>4 DEF DrainTranscript, Drain, DrainAborts, SkipSent, Speak, SpeakFails, MarkSpoken,
                EnqueueFails, DirectSend, LegacyAppend, DirectMark, FlushFiles, diskVars
  <2>5. QED
    BY <2>1, <2>2, <2>3, <2>4 DEF Next, Outbound
<1>11. QED
  BY <1>5, <1>6, <1>7, <1>8, <1>9, <1>10

LEMMA CarriedStep ==
  ASSUME TypeOK, PlacesOK, WaitingInv, [Next]_vars
  PROVE  CarriedOK'
<1>1. /\ todo \in Int /\ tpos \in Int /\ todo <= tpos
      /\ carried \in Seq(Parts) /\ \A p \in Parts : p[1] \in Int
  BY PartTypes DEF TypeOK, ReadTypes, MemoryTypes
<1>2. /\ Distinct(carried) /\ NoText(carried)
      /\ \A i \in DOMAIN carried :
           carried[i][1] < todo \/ (carried[i][1] = todo /\ pc \in OnOldPath)
  BY DEF WaitingInv, CarriedOK
<1>3. \A i \in DOMAIN carried : carried[i][1] \in Int
  BY <1>1, ElementOfSeq, LenProperties
<1>4. ASSUME carried' = <<>>
      PROVE  CarriedOK'
  BY <1>4 DEF CarriedOK, Distinct, NoText
<1>5. ASSUME UNCHANGED carried, todo' \in Int,
             todo' > todo \/ (todo' = todo /\ (pc \in OnOldPath => pc' \in OnOldPath))
      PROVE  CarriedOK'
  <2>1. \A i \in DOMAIN carried :
          carried[i][1] < todo' \/ (carried[i][1] = todo' /\ pc' \in OnOldPath)
    BY <1>1, <1>2, <1>3, <1>5
  <2>2. QED
    BY <1>2, <1>5, <2>1 DEF CarriedOK, Distinct, NoText, IsText
<1>6. CASE AgentReplies \/ NewTurn \/ UNCHANGED vars
  BY <1>1, <1>5, <1>6 DEF AgentReplies, NewTurn, vars, memVars, readVars
<1>7. CASE FlushOutbox
  <2>1. UNCHANGED <<carried, todo>> /\ pc \notin OnOldPath
    BY <1>7 DEF FlushOutbox, HeadOfQueue, SendPart, AnswerLost, ChunkFails, AttachmentFails,
                AttachmentRefused, ConfirmPart, CountAttempt, GiveUp, RecordDelivered,
                RemoveRecord, memVars, readVars, OnOldPath
  <2>2. QED
    BY <1>1, <1>5, <2>1
<1>8. CASE FlushLegacy
  <2>1. UNCHANGED <<carried, todo>> /\ pc \notin OnOldPath
    BY <1>8 DEF FlushLegacy, LegacySend, LegacyPop, LegacyMark, memVars, readVars, OnOldPath
  <2>2. QED
    BY <1>1, <1>5, <2>1
<1>9. CASE Drain \/ DrainAborts \/ Speak \/ SpeakFails
  <2>1. UNCHANGED carried /\ pc \notin OnOldPath /\ todo' \in Int /\ todo' >= todo
    BY <1>1, <1>9 DEF Drain, DrainAborts, Speak, SpeakFails, memVars, readVars, OnOldPath
  <2>2. QED
    BY <1>1, <1>5, <2>1
<1>10. CASE SkipSent \/ MarkSpoken \/ LegacyAppend
  BY <1>1, <1>5, <1>10 DEF SkipSent, MarkSpoken, LegacyAppend, NextReply, memVars
<1>11. CASE DirectSend \/ DirectMark
  BY <1>1, <1>5, <1>11 DEF DirectSend, DirectMark, memVars, readVars, OnOldPath
<1>12. CASE EnqueueFails
  <2>1. Storing /\ carried' = FilesNow /\ UNCHANGED todo /\ pc' \in OnOldPath
    BY <1>12 DEF EnqueueFails, readVars, OnOldPath
  <2>2. /\ Distinct(FilesNow) /\ NoText(FilesNow)
        /\ \A i \in DOMAIN FilesNow : FilesNow[i][1] <= todo
    BY <2>1, FilesNowOK DEF WaitingInv
  <2>3. /\ Distinct(carried') /\ NoText(carried')
        /\ \A i \in DOMAIN carried' : carried'[i][1] <= todo
    BY <2>1, <2>2
  <2>4. \A i \in DOMAIN carried' : carried'[i][1] \in Int
    <3>1. carried' \in Seq(Parts)
      BY TypeStep DEF TypeOK, MemoryTypes
    <3>2. QED
      BY <1>1, <3>1, ElementOfSeq, LenProperties
  <2>5. \A i \in DOMAIN carried' :
          carried'[i][1] < todo' \/ (carried'[i][1] = todo' /\ pc' \in OnOldPath)
    BY <1>1, <2>1, <2>3, <2>4
  <2>6. QED
    BY <2>3, <2>5 DEF CarriedOK, Distinct, NoText, IsText
<1>13. CASE Enqueue \/ FlushFiles \/ Restart
  BY <1>4, <1>13 DEF Enqueue, FlushFiles, Restart
<1>14. QED
  BY <1>6, <1>7, <1>8, <1>9, <1>10, <1>11, <1>12, <1>13 DEF Next, Outbound, DrainTranscript

LEMMA AtHandStep ==
  ASSUME TypeOK, PlacesOK, WaitingInv, [Next]_vars
  PROVE  AtHandUnsent'
<1>1. AtHandUnsent
  BY DEF WaitingInv
<1>2. CASE AgentReplies \/ NewTurn \/ UNCHANGED vars
  BY <1>1, <1>2 DEF AgentReplies, NewTurn, vars, memVars, readVars, AtHandUnsent
<1>3. CASE FlushOutbox \/ FlushLegacy
  <2>1. pc' \notin {"enqueue", "direct", "append"}
    BY <1>3 DEF FlushOutbox, HeadOfQueue, SendPart, AnswerLost, ChunkFails, AttachmentFails,
                AttachmentRefused, ConfirmPart, CountAttempt, GiveUp, RecordDelivered,
                RemoveRecord, Abort, FlushLegacy, LegacySend, LegacyPop, LegacyMark
  <2>2. QED
    BY <2>1 DEF AtHandUnsent
<1>4. CASE SpeakFails
  BY <1>4 DEF SpeakFails, memVars, readVars, AtHandUnsent
<1>5. CASE EnqueueFails \/ DirectSend
  BY <1>1, <1>5 DEF EnqueueFails, DirectSend, Storing, memVars, readVars, AtHandUnsent
<1>6. CASE Drain \/ DrainAborts \/ SkipSent \/ Speak \/ MarkSpoken \/ Enqueue \/ LegacyAppend
           \/ DirectMark \/ FlushFiles \/ Restart
  <2>1. pc' \notin {"enqueue", "direct", "append"}
    BY <1>6 DEF Drain, DrainAborts, SkipSent, Speak, MarkSpoken, Enqueue, LegacyAppend,
                DirectMark, FlushFiles, Restart, NextReply, Abort
  <2>2. QED
    BY <2>1 DEF AtHandUnsent
<1>7. QED
  BY <1>2, <1>3, <1>4, <1>5, <1>6 DEF Next, Outbound, DrainTranscript

-----------------------------------------------------------------------------
(* The other places where a part waits: attachments left over, the old queue, and what is *)
(* to be read.                                                                            *)

LEMMA TimesType ==
  ASSUME NEW s \in Seq(Replies), NEW r
  PROVE  IsFiniteSet({i \in DOMAIN s : s[i] = r}) /\ Times(s, r) \in Nat
<1>1. Len(s) \in Nat /\ DOMAIN s = 1 .. Len(s)
  BY LenProperties
<1>2. IsFiniteSet(1 .. Len(s))
  BY <1>1, FS_Interval
<1>3. {i \in DOMAIN s : s[i] = r} \subseteq 1 .. Len(s)
  BY <1>1
<1>4. QED
  BY <1>2, <1>3, FewerElements DEF Times

LEMMA TimesAppend ==
  ASSUME NEW s \in Seq(Replies), NEW x \in Replies, NEW r
  PROVE  /\ Times(Append(s, x), r) \in Nat /\ Times(s, r) \in Nat
         /\ Times(Append(s, x), r) <= Times(s, r) + (IF x = r THEN 1 ELSE 0)
<1>1. /\ Append(s, x) \in Seq(Replies) /\ Len(Append(s, x)) = Len(s) + 1
      /\ \A i \in 1 .. Len(s) : Append(s, x)[i] = s[i]
      /\ Append(s, x)[Len(s) + 1] = x
  BY AppendProperties
<1>2. /\ Len(s) \in Nat /\ DOMAIN s = 1 .. Len(s)
      /\ DOMAIN Append(s, x) = 1 .. Len(s) + 1
  BY <1>1, LenProperties
<1> DEFINE old == {i \in DOMAIN s : s[i] = r}
           new == {i \in DOMAIN Append(s, x) : Append(s, x)[i] = r}
<1>3. IsFiniteSet(old)
  BY TimesType
<1>4. \A i \in DOMAIN Append(s, x) : i \in DOMAIN s \/ i = Len(s) + 1
  BY <1>2
<1>5. new \subseteq old \cup {Len(s) + 1}
  BY <1>1, <1>2, <1>4
<1>6. x # r => new \subseteq old
  BY <1>1, <1>2, <1>4
<1>7. Cardinality(new) = Times(Append(s, x), r) /\ Cardinality(old) = Times(s, r)
  BY DEF Times
<1> HIDE DEF old, new
<1>8. CASE x = r
  BY <1>3, <1>5, <1>7, <1>8, OneElementMore
<1>9. CASE x # r
  BY <1>3, <1>6, <1>7, <1>9, FewerElements
<1>10. QED
  BY <1>8, <1>9

LEMMA TimesTail ==
  ASSUME NEW s \in Seq(Replies), s # <<>>, NEW r
  PROVE  /\ Times(Tail(s), r) \in Nat /\ Times(s, r) \in Nat
         /\ Times(Tail(s), r) + (IF Head(s) = r THEN 1 ELSE 0) <= Times(s, r)
<1>1. /\ Tail(s) \in Seq(Replies) /\ Len(Tail(s)) = Len(s) - 1 /\ Head(s) = s[1]
      /\ \A i \in 1 .. Len(Tail(s)) : Tail(s)[i] = s[i + 1]
  BY HeadTailProperties
<1>2. /\ Len(s) \in Nat /\ Len(s) # 0 /\ DOMAIN s = 1 .. Len(s)
      /\ DOMAIN Tail(s) = 1 .. Len(s) - 1
  BY <1>1, LenProperties, EmptySeq
<1> DEFINE old == {i \in DOMAIN s : s[i] = r}
           new == {i \in DOMAIN Tail(s) : Tail(s)[i] = r}
<1>3. IsFiniteSet(old)
  BY TimesType
<1>4. \A i \in new : i + 1 \in old \ {1}
  BY <1>1, <1>2
<1>5. new \subseteq Int
  BY <1>2
<1>6. Cardinality(new) = Times(Tail(s), r) /\ Cardinality(old) = Times(s, r)
  BY DEF Times
<1>7. Head(s) = r => 1 \in old
  BY <1>1, <1>2
<1> HIDE DEF old, new
<1>8. /\ IsFiniteSet(old \ {1}) /\ Cardinality(old) \in Nat
      /\ Cardinality(old \ {1}) = IF 1 \in old THEN Cardinality(old) - 1 ELSE Cardinality(old)
  BY <1>3, FS_RemoveElement, FS_CardinalityType
<1>9. Cardinality(new) \in Nat /\ Cardinality(new) <= Cardinality(old \ {1})
  BY <1>4, <1>5, <1>8, ElementsMoved
<1>10. QED
  BY <1>6, <1>7, <1>8, <1>9

LEMMA TermTypes ==
  ASSUME TypeOK, PlacesOK, NEW p \in Parts
  PROVE  /\ shown[p] \in Nat /\ Cardinality(InBox(p)) \in Nat
         /\ InCarried(p) \in {0, 1} /\ InRead(p) \in {0, 1} /\ InOld(p) \in Nat
<1>1. shown[p] \in Nat /\ Cardinality(InBox(p)) \in Nat
  BY BoxPlaces DEF TypeOK, HistoryTypes
<1>2. InCarried(p) \in {0, 1} /\ InRead(p) \in {0, 1}
  BY DEF InCarried, InRead
<1>3. legacy \in Seq(Replies) /\ legacyDisk \in Seq(Replies)
  BY DEF TypeOK, DiskTypes, MemoryTypes
<1>4. Times(legacy, p[1]) \in Nat /\ Times(legacyDisk, p[1]) \in Nat
  BY <1>3, TimesType
<1>5. CASE pc = "pop" /\ Head(legacy) = p[1]
  <2>1. legacy # <<>>
    BY <1>5 DEF PlacesOK
  <2>2. Times(Tail(legacy), p[1]) \in Nat /\ Times(Tail(legacy), p[1]) + 1 <= Times(legacy, p[1])
    BY <1>3, <1>5, <2>1, TimesTail
  <2>3. QED
    BY <1>1, <1>2, <1>4, <2>2 DEF InOld, InQueue, Popping
<1>6. CASE ~(pc = "pop" /\ Head(legacy) = p[1])
  BY <1>1, <1>2, <1>4, <1>6 DEF InOld, InQueue, Popping
<1>7. QED
  BY <1>5, <1>6

\* Nothing changes where nothing is touched.
LEMMA OldSame ==
  ASSUME UNCHANGED <<legacy, legacyDisk>>, pc # "pop", pc' # "pop", NEW p
  PROVE  InOld(p)' = InOld(p)
BY DEF InOld, InQueue, Popping, Times, IsText

LEMMA CarriedSame ==
  ASSUME UNCHANGED carried, NEW p
  PROVE  InCarried(p)' = InCarried(p)
BY DEF InCarried, Range

\* What is read and marked only grows, so a part never comes back to what is to be read.
LEMMA ReadGoesOn ==
  ASSUME TypeOK, NEW p \in Parts, sentMem \subseteq sentMem', todo' \in Int, todo' >= todo,
         todo' = todo => (pc \in Begun(p) => pc' \in Begun(p))
  PROVE  /\ ToRead(p)' => ToRead(p) /\ (todo' > todo => p[1] # todo)
         /\ InRead(p)' \in {0, 1} /\ InRead(p) \in {0, 1} /\ InRead(p)' <= InRead(p)
<1>1. todo \in Int /\ p[1] \in Int
  BY PartTypes DEF TypeOK, ReadTypes
<1>2. ASSUME ToRead(p)'
      PROVE  ToRead(p) /\ (todo' > todo => p[1] # todo)
  <2>1. p[1] >= todo' /\ p[1] \notin sentMem' /\ ~(p[1] = todo' /\ pc' \in Begun(p))
    BY <1>2 DEF ToRead, Begun, IsText
  <2>2. CASE todo' = todo
    BY <1>1, <2>1, <2>2 DEF ToRead
  <2>3. CASE todo' > todo
    BY <1>1, <2>1, <2>3 DEF ToRead
  <2>4. QED
    BY <1>1, <2>2, <2>3
<1>3. QED
  BY <1>2 DEF InRead

LEMMA SentGrows ==
  ASSUME NEW r, MarkSent(r) \/ MarkSentFails(r)
  PROVE  sentMem \subseteq sentMem'
BY DEF MarkSent, MarkSentFails

\* A step that moves nothing but the head of the outbox.
LEMMA FlushOutboxCharge ==
  ASSUME TypeOK, PlacesOK, WaitingInv, FlushOutbox, NEW p \in Parts
  PROVE  Charge(p)' + faults <= Charge(p) + faults'
<1>1. shown'[p] + Cardinality(InBox(p)') + faults
        <= shown[p] + Cardinality(InBox(p)) + faults'
  BY FlushOutboxPays DEF WaitingInv
<1>2. /\ UNCHANGED <<carried, legacy, legacyDisk, todo>> /\ sentMem \subseteq sentMem'
  BY SentGrows DEF FlushOutbox, HeadOfQueue, SendPart, AnswerLost, ChunkFails,
     AttachmentFails, AttachmentRefused, ConfirmPart, CountAttempt, GiveUp, RecordDelivered,
     RemoveRecord, diskVars, memVars, readVars
<1>3. /\ pc' # "pop"
      /\ pc \notin {"pop", "spoken", "direct", "append", "directmark", "attachments"}
  BY DEF FlushOutbox, HeadOfQueue, SendPart, AnswerLost, ChunkFails, AttachmentFails,
         AttachmentRefused, ConfirmPart, CountAttempt, GiveUp, RecordDelivered, RemoveRecord,
         Abort
<1>4. InOld(p)' = InOld(p) /\ InCarried(p)' = InCarried(p)
  BY <1>2, <1>3, OldSame, CarriedSame
<1>5. todo \in Int
  BY DEF TypeOK, ReadTypes
<1>6. pc \notin Begun(p)
  BY <1>3 DEF Begun, OnOldPath
<1>7. InRead(p)' \in {0, 1} /\ InRead(p) \in {0, 1} /\ InRead(p)' <= InRead(p)
  BY <1>2, <1>5, <1>6, ReadGoesOn
<1>8. TypeOK' /\ PlacesOK'
  BY TypeStep, PlacesStep DEF Next, Outbound
<1>9. shown'[p] \in Nat /\ faults \in Nat /\ faults' \in Nat
  BY <1>8, ConstantsAssumption DEF TypeOK, HistoryTypes
<1>10. Cardinality(InBox(p)') \in Nat
  BY <1>9, BoxPlacesNext, <1>8
<1>11. QED
  BY <1>1, <1>4, <1>7, <1>9, <1>10, TermTypes DEF Charge

\* Taking the head off the old queue.
LEMMA PopPays ==
  ASSUME TypeOK, PlacesOK, LegacyPop, NEW p \in Parts
  PROVE  InOld(p)' \in Int /\ InOld(p)' + faults <= InOld(p) + faults'
<1>1. /\ pc = "pop" /\ pc' = "popped" /\ legacy # <<>> /\ legacy' = Tail(legacy)
      /\ legacy \in Seq(Replies) /\ legacyDisk \in Seq(Replies)
  BY DEF LegacyPop, PlacesOK, TypeOK, DiskTypes, MemoryTypes
<1>2. /\ faults \in Nat
      /\ \/ legacyDisk' = legacy' /\ faults' = faults
         \/ legacyDisk' = legacyDisk /\ faults' = faults + 1
  BY ConstantsAssumption DEF LegacyPop, Persist, Fault, TypeOK, HistoryTypes
<1> DEFINE r == p[1]
           rest == Tail(legacy)
<1>3. /\ Times(rest, r) \in Nat /\ Times(legacy, r) \in Nat /\ Times(legacyDisk, r) \in Nat
      /\ Times(rest, r) + (IF Head(legacy) = r THEN 1 ELSE 0) <= Times(legacy, r)
  BY <1>1, TimesTail, TimesType
<1>4. Times(legacy, r)' = Times(rest, r)
  BY <1>1 DEF Times
<1>5. Times(legacyDisk, r)' = IF legacyDisk' = legacy' THEN Times(rest, r)
                              ELSE Times(legacyDisk, r)
  BY <1>1, <1>2 DEF Times
<1>6. Popping(r)' = 0 /\ Popping(r) = IF Head(legacy) = r THEN 1 ELSE 0
  BY <1>1 DEF Popping
<1> HIDE DEF r, rest
<1>7. CASE ~IsText(p)
  BY <1>2, <1>7 DEF InOld, IsText
<1>8. CASE IsText(p)
  <2>1. InOld(p) = InQueue(r) - Popping(r) /\ InOld(p)' = InQueue(r)' - Popping(r)'
    BY <1>8 DEF InOld, IsText, r
  <2>2. InQueue(r)' = IF Times(legacy, r)' >= Times(legacyDisk, r)' THEN Times(legacy, r)'
                      ELSE Times(legacyDisk, r)'
    BY DEF InQueue
  <2>3. QED
    BY <1>2, <1>3, <1>4, <1>5, <1>6, <2>1, <2>2 DEF InQueue
<1>9. QED
  BY <1>7, <1>8

LEMMA FlushLegacyCharge ==
  ASSUME TypeOK, PlacesOK, WaitingInv, FlushLegacy, NEW p \in Parts
  PROVE  Charge(p)' + faults <= Charge(p) + faults'
<1>1. /\ UNCHANGED <<box, carried, todo>> /\ sentMem \subseteq sentMem'
  BY SentGrows DEF FlushLegacy, LegacySend, LegacyPop, LegacyMark, diskVars, memVars, readVars
<1>2. pc \in {"legacy", "pop", "popped"}
  BY DEF FlushLegacy, LegacySend, LegacyPop, LegacyMark
<1>3. /\ Cardinality(InBox(p)) \in Nat /\ Cardinality(InBox(p)') \in Nat
      /\ Cardinality(InBox(p)') <= Cardinality(InBox(p))
  BY <1>1, <1>2, SameBoxPlaces DEF Underway
<1>4. InCarried(p)' = InCarried(p)
  BY <1>1, CarriedSame
<1>5. InRead(p)' \in {0, 1} /\ InRead(p)' <= InRead(p)
  <2>1. todo \in Int /\ pc \notin Begun(p)
    BY <1>2 DEF TypeOK, ReadTypes, Begun, OnOldPath
  <2>2. QED
    BY <1>1, <2>1, ReadGoesOn
<1>6. /\ shown[p] \in Nat /\ InCarried(p) \in {0, 1} /\ InRead(p) \in {0, 1}
      /\ InOld(p) \in Nat /\ faults \in Nat /\ shown \in [Parts -> Nat]
      /\ \A k : Fault(k) => faults' = faults + 1
  BY TermTypes, ConstantsAssumption DEF TypeOK, HistoryTypes, Fault
<1>7. ASSUME /\ shown'[p] \in Nat /\ InOld(p)' \in Int /\ faults' \in Nat
             /\ shown'[p] + InOld(p)' + faults <= shown[p] + InOld(p) + faults'
      PROVE  Charge(p)' + faults <= Charge(p) + faults'
  BY <1>3, <1>4, <1>5, <1>6, <1>7 DEF Charge
<1>8. CASE LegacySend
  <2>1. pc = "legacy" /\ UNCHANGED <<legacy, legacyDisk>>
    BY <1>8 DEF LegacySend, diskVars, memVars
  <2>2. CASE legacy = <<>>
    <3>1. UNCHANGED <<shown, faults>> /\ pc' # "pop"
      BY <1>8, <2>2 DEF LegacySend
    <3>2. QED
      BY <1>6, <1>7, <2>1, <3>1, OldSame
  <2>3. CASE Appears(TextParts(Head(legacy))) /\ pc' = "pop" /\ UNCHANGED faults
    <3>1. InQueue(p[1])' = InQueue(p[1])
      BY <2>1 DEF InQueue, Times
    <3>2. /\ Popping(p[1]) = 0
          /\ Popping(p[1])' = IF Head(legacy) = p[1] THEN 1 ELSE 0
      BY <2>1, <2>3 DEF Popping
    <3>3. InOld(p) = IF IsText(p) THEN InQueue(p[1]) ELSE 0
      <4>1. Times(legacy, p[1]) \in Nat /\ Times(legacyDisk, p[1]) \in Nat
        BY TimesType DEF TypeOK, DiskTypes, MemoryTypes
      <4>2. QED
        BY <3>2, <4>1 DEF InOld, InQueue
    <3>4. InOld(p)' = IF IsText(p) THEN InQueue(p[1]) - Popping(p[1])' ELSE 0
      BY <3>1 DEF InOld, IsText
    <3>5. CASE p \in TextParts(Head(legacy))
      <4>1. shown'[p] = shown[p] + 1 /\ p[1] = Head(legacy) /\ IsText(p)
        BY <2>3, <3>5, PartTypes DEF Appears
      <4>2. QED
        BY <1>6, <1>7, <2>3, <3>2, <3>3, <3>4, <4>1
    <3>6. CASE p \notin TextParts(Head(legacy))
      <4>1. shown'[p] = shown[p] /\ ~(IsText(p) /\ Head(legacy) = p[1])
        BY <2>3, <3>6, PartTypes DEF Appears
      <4>2. QED
        BY <1>6, <1>7, <2>3, <3>2, <3>3, <3>4, <4>1
    <3>7. QED
      BY <3>5, <3>6
  <2>4. CASE /\ Fault("send") /\ pc' = "drain"
             /\ \E ps \in Prefixes(Head(legacy)) : Appears(ps)
    <3>1. shown'[p] = shown[p] \/ shown'[p] = shown[p] + 1
      BY <2>4 DEF Appears
    <3>2. faults' = faults + 1 /\ InOld(p)' = InOld(p)
      BY <1>6, <2>1, <2>4, OldSame
    <3>3. QED
      BY <1>6, <1>7, <3>1, <3>2
  <2>5. QED
    BY <1>8, <2>2, <2>3, <2>4 DEF LegacySend
<1>9. CASE LegacyPop
  <2>1. UNCHANGED shown /\ (faults' = faults \/ faults' = faults + 1)
    BY <1>6, <1>9 DEF LegacyPop, Persist, histVars
  <2>2. QED
    BY <1>6, <1>7, <1>9, <2>1, PopPays
<1>10. CASE LegacyMark
  <2>1. /\ UNCHANGED <<shown, legacy, legacyDisk>> /\ pc # "pop" /\ pc' # "pop"
        /\ faults' = faults \/ faults' = faults + 1
    BY <1>6, <1>10 DEF LegacyMark, MarkSent, MarkSentFails, histVars
  <2>2. QED
    BY <1>6, <1>7, <2>1, OldSame
<1>11. QED
  BY <1>8, <1>9, <1>10 DEF FlushLegacy

\* Handling what was read moves a part from the transcript to the outbox, to the old queue
\* or to the attachments left over, or shows it.
LEMMA EnqueueMoves ==
  ASSUME TypeOK, PlacesOK, WaitingInv, Enqueue, NEW p \in Parts
  PROVE  /\ Cardinality(InBox(p)') \in Nat
         /\ Cardinality(InBox(p)') + InCarried(p)' + InRead(p)'
              <= Cardinality(InBox(p)) + InCarried(p) + InRead(p)
<1>1. /\ Storing /\ carried' = <<>> /\ UNCHANGED sentMem /\ pc \in HandlingPlaces
      /\ todo' = todo + 1 /\ pc' \in {"flush", "store"} /\ todo \in Int
      /\ pc \in {"store", "enqueue"} /\ pc' # "confirm"
  BY DEF Enqueue, Storing, NextReply, HandlingPlaces, TypeOK, ReadTypes
<1>2. InCarried(p)' = 0
  BY <1>1 DEF InCarried, Range
<1>3. /\ ToRead(p)' => ToRead(p) /\ p[1] # todo
      /\ InRead(p)' \in {0, 1} /\ InRead(p) \in {0, 1} /\ InRead(p)' <= InRead(p)
  BY <1>1, ReadGoesOn
<1>4. InCarried(p) \in {0, 1}
  BY DEF InCarried
<1>5. CASE box' = box
  <2>1. /\ Cardinality(InBox(p)) \in Nat /\ Cardinality(InBox(p)') \in Nat
        /\ Cardinality(InBox(p)') <= Cardinality(InBox(p))
    BY <1>1, <1>5, SameBoxPlaces DEF Underway, HandlingPlaces
  <2>2. QED
    BY <1>2, <1>3, <1>4, <2>1
<1>6. CASE box' = Append(box, Record(todo, FilesNow))
  <2>1. /\ Cardinality(InBox(p)) \in Nat /\ Cardinality(InBox(p)') \in Nat
        /\ Cardinality(InBox(p)') <= Cardinality(InBox(p)) + 1
        /\ ~Pending(Record(todo, FilesNow), p)
             => Cardinality(InBox(p)') <= Cardinality(InBox(p))
    BY <1>1, <1>6, JoiningPlaces
  <2>2. CASE ~Pending(Record(todo, FilesNow), p)
    BY <1>2, <1>3, <1>4, <2>1, <2>2
  <2>3. CASE Pending(Record(todo, FilesNow), p)
    <3>1. p[1] = todo \/ p \in Range(carried)
      BY <1>1, <2>3, NewPending DEF WaitingInv
    <3>2. CASE p \in Range(carried)
      BY <1>2, <1>3, <2>1, <3>2 DEF InCarried
    <3>3. CASE p[1] = todo
      <4>1. todo \notin sentMem
        BY <1>1 DEF Storing, WaitingInv, AtHandUnsent
      <4>2. InRead(p) = 1
        BY <1>1, <3>3, <4>1 DEF InRead, ToRead, Begun, OnOldPath
      <4>3. InRead(p)' = 0
        BY <1>3, <3>3 DEF InRead
      <4>4. QED
        BY <1>2, <1>4, <2>1, <4>2, <4>3
    <3>4. QED
      BY <3>1, <3>2, <3>3
  <2>4. QED
    BY <2>2, <2>3
<1>7. QED
  BY <1>5, <1>6 DEF Enqueue

LEMMA EnqueueFailsMoves ==
  ASSUME TypeOK, PlacesOK, WaitingInv, EnqueueFails, NEW p \in Parts
  PROVE  InCarried(p)' + InRead(p)' <= InCarried(p) + InRead(p)
<1>1. /\ Storing /\ carried' = FilesNow /\ UNCHANGED <<sentMem, todo>>
      /\ pc' \in {"direct", "append"} /\ pc \in {"store", "enqueue"} /\ todo \in Int
  BY DEF EnqueueFails, Storing, memVars, readVars, TypeOK, ReadTypes
<1>2. /\ NoText(FilesNow)
      /\ p \in Range(FilesNow) <=> p \in Range(carried) \/ p \in Range(OwnFiles(todo))
      /\ \A q \in Range(carried) : q[1] < todo
      /\ \A q \in Range(OwnFiles(todo)) : q[1] = todo
  BY <1>1, FilesNowOK DEF WaitingInv
<1>3. InCarried(p)' = IF p \in Range(FilesNow) THEN 1 ELSE 0
  BY <1>1 DEF InCarried, Range
<1>4. pc \notin Begun(p)
  BY <1>1 DEF Begun, OnOldPath
<1>5. InRead(p)' \in {0, 1} /\ InRead(p) \in {0, 1} /\ InRead(p)' <= InRead(p)
  BY <1>1, <1>4, ReadGoesOn
<1>6. CASE p \in Range(FilesNow) /\ p \notin Range(carried)
  <2>1. p[1] = todo /\ todo \notin sentMem
    BY <1>1, <1>2, <1>6 DEF Storing, WaitingInv, AtHandUnsent
  <2>2. ~IsText(p)
    BY <1>2, <1>6 DEF NoText, Range
  <2>3. InRead(p) = 1
    BY <1>1, <1>4, <2>1 DEF InRead, ToRead
  <2>4. ~ToRead(p)'
    BY <1>1, <2>1, <2>2 DEF ToRead, Begun, IsText, OnOldPath
  <2>5. InRead(p)' = 0
    BY <2>4 DEF InRead
  <2>6. QED
    BY <1>3, <1>6, <2>3, <2>5 DEF InCarried
<1>7. CASE ~(p \in Range(FilesNow) /\ p \notin Range(carried))
  BY <1>3, <1>5, <1>7 DEF InCarried
<1>8. QED
  BY <1>6, <1>7

\* Showing the text of the reply at hand takes it out of what is to be read.
LEMMA ShowingAtHand ==
  ASSUME TypeOK, PlacesOK, NEW p \in Parts, Appears(TextParts(todo)),
         UNCHANGED <<sentMem, todo>>, todo \notin sentMem,
         pc \in {"store", "direct"},
         pc' \in {"spoken", "directmark"}, pc = "direct" => pc' = "directmark"
  PROVE  shown'[p] \in Nat /\ shown'[p] + InRead(p)' <= shown[p] + InRead(p)
<1>1. shown[p] \in Nat /\ shown \in [Parts -> Nat] /\ todo \in Int
  BY DEF TypeOK, HistoryTypes, ReadTypes
<1>2. pc \in Begun(p) => pc' \in Begun(p)
  BY DEF Begun, OnOldPath
<1>3. InRead(p)' \in {0, 1} /\ InRead(p) \in {0, 1} /\ InRead(p)' <= InRead(p)
  BY <1>1, <1>2, ReadGoesOn
<1>4. CASE p \in TextParts(todo)
  <2>1. p[1] = todo /\ IsText(p) /\ shown'[p] = shown[p] + 1
    BY <1>4, PartTypes DEF Appears
  <2>2. pc \notin Begun(p)
    BY <2>1 DEF Begun
  <2>3. InRead(p) = 1
    BY <1>1, <2>1, <2>2 DEF InRead, ToRead
  <2>4. ~ToRead(p)'
    BY <2>1 DEF ToRead, Begun, IsText
  <2>5. InRead(p)' = 0
    BY <2>4 DEF InRead
  <2>6. QED
    BY <1>1, <2>1, <2>3, <2>5
<1>5. CASE p \notin TextParts(todo)
  BY <1>1, <1>3, <1>5 DEF Appears
<1>6. QED
  BY <1>4, <1>5

\* The reply at hand goes to the end of the old queue.
LEMMA AppendPays ==
  ASSUME TypeOK, PlacesOK, WaitingInv, LegacyAppend, NEW p \in Parts
  PROVE  InOld(p)' \in Int /\ InOld(p)' + InRead(p)' + faults <= InOld(p) + InRead(p) + faults'
<1>1. /\ pc = "append" /\ pc' \in {"flush", "store"} /\ todo' = todo + 1
      /\ legacy' = Append(legacy, todo) /\ UNCHANGED sentMem
      /\ todo \in Replies /\ todo \in Int /\ todo \notin sentMem
      /\ legacy \in Seq(Replies) /\ legacyDisk \in Seq(Replies)
  BY ReplyAtHand DEF LegacyAppend, NextReply, HandlingPlaces, TypeOK, DiskTypes, MemoryTypes,
                     ReadTypes, WaitingInv, AtHandUnsent
<1>2. /\ faults \in Nat
      /\ \/ legacyDisk' = legacy' /\ faults' = faults
         \/ legacyDisk' = legacyDisk /\ faults' = faults + 1
  BY ConstantsAssumption DEF LegacyAppend, Persist, Fault, TypeOK, HistoryTypes
<1> DEFINE r == p[1]
           longer == Append(legacy, todo)
<1>3. /\ Times(longer, r) \in Nat /\ Times(legacy, r) \in Nat /\ Times(legacyDisk, r) \in Nat
      /\ Times(longer, r) <= Times(legacy, r) + (IF todo = r THEN 1 ELSE 0)
  BY <1>1, TimesAppend, TimesType
<1>4. Times(legacy, r)' = Times(longer, r)
  BY <1>1 DEF Times
<1>5. Times(legacyDisk, r)' = IF legacyDisk' = legacy' THEN Times(longer, r)
                              ELSE Times(legacyDisk, r)
  BY <1>1, <1>2 DEF Times
<1>6. Popping(r)' = 0 /\ Popping(r) = 0
  BY <1>1 DEF Popping
<1>7. /\ ToRead(p)' => ToRead(p) /\ p[1] # todo
      /\ InRead(p)' \in {0, 1} /\ InRead(p) \in {0, 1} /\ InRead(p)' <= InRead(p)
  BY <1>1, ReadGoesOn
<1>8. CASE ~IsText(p)
  BY <1>2, <1>7, <1>8 DEF InOld, IsText
<1>9. CASE IsText(p)
  <2>1. InOld(p) = InQueue(r) /\ InOld(p)' = InQueue(r)'
    <3>1. InQueue(r) \in Nat /\ InQueue(r)' \in Nat
      BY <1>2, <1>3, <1>4, <1>5 DEF InQueue
    <3>2. QED
      BY <1>6, <1>9, <3>1 DEF InOld, IsText
  <2>2. InQueue(r)' = IF Times(legacy, r)' >= Times(legacyDisk, r)' THEN Times(legacy, r)'
                      ELSE Times(legacyDisk, r)'
    BY DEF InQueue
  <2>3. todo = r => InRead(p) = 1 /\ InRead(p)' = 0
    <3>1. ASSUME todo = r
          PROVE  ToRead(p) /\ ~ToRead(p)'
      BY <1>1, <1>7, <1>9, <3>1 DEF ToRead, Begun
    <3>2. QED
      BY <3>1 DEF InRead
  <2> HIDE DEF r, longer
  <2>4. QED
    BY <1>2, <1>3, <1>4, <1>5, <1>7, <2>1, <2>2, <2>3 DEF InQueue
<1>10. QED
  BY <1>8, <1>9

LEMMA DrainCharge ==
  ASSUME TypeOK, PlacesOK, WaitingInv, DrainTranscript, NEW p \in Parts
  PROVE  Charge(p)' + faults <= Charge(p) + faults'
<1>1. /\ shown[p] \in Nat /\ Cardinality(InBox(p)) \in Nat
      /\ InCarried(p) \in {0, 1} /\ InRead(p) \in {0, 1} /\ InOld(p) \in Nat
      /\ faults \in Nat /\ shown \in [Parts -> Nat] /\ todo \in Int /\ tpos \in Int
      /\ todo <= tpos
      /\ \A k : Fault(k) => faults' = faults + 1
  BY TermTypes, ConstantsAssumption DEF TypeOK, HistoryTypes, ReadTypes, Fault
<1>2. pc \notin {"confirm", "pop"} /\ pc' \notin {"confirm", "pop"}
  BY DEF DrainTranscript, Drain, DrainAborts, SkipSent, Speak, SpeakFails, MarkSpoken,
         Enqueue, EnqueueFails, DirectSend, LegacyAppend, DirectMark, FlushFiles, NextReply,
         Storing, Abort
<1>3. ASSUME UNCHANGED box
      PROVE  /\ Cardinality(InBox(p)') \in Nat
             /\ Cardinality(InBox(p)') <= Cardinality(InBox(p))
  BY <1>2, <1>3, SameBoxPlaces DEF Underway
<1>4. ASSUME UNCHANGED <<legacy, legacyDisk>>
      PROVE  InOld(p)' = InOld(p)
  BY <1>2, <1>4, OldSame
<1>5. ASSUME UNCHANGED carried
      PROVE  InCarried(p)' = InCarried(p)
  BY <1>5, CarriedSame
<1>6. InCarried(p)' \in {0, 1} /\ InRead(p)' \in {0, 1}
  BY DEF InCarried, InRead
<1>7. CASE Drain \/ SkipSent \/ MarkSpoken \/ DirectMark \/ DrainAborts
  <2>1. /\ UNCHANGED <<box, legacy, legacyDisk, carried, shown>> /\ sentMem \subseteq sentMem'
        /\ faults' = faults \/ faults' = faults + 1
    BY <1>1, <1>7, SentGrows DEF Drain, SkipSent, MarkSpoken, DirectMark, DrainAborts, Abort,
       MarkSent, MarkSentFails, diskVars, memVars, histVars
  <2>2. /\ todo' \in Int /\ todo' >= todo
        /\ todo' = todo => (pc \in Begun(p) => pc' \in Begun(p))
    <3>1. CASE Drain \/ DrainAborts
      BY <1>1, <3>1 DEF Drain, DrainAborts, Begun, OnOldPath
    <3>2. CASE SkipSent \/ MarkSpoken
      BY <1>1, <3>2 DEF SkipSent, MarkSpoken, NextReply
    <3>3. CASE DirectMark
      BY <1>1, <3>3 DEF DirectMark, readVars, Begun, OnOldPath
    <3>4. QED
      BY <1>7, <3>1, <3>2, <3>3
  <2>3. InRead(p)' <= InRead(p)
    BY <2>1, <2>2, ReadGoesOn
  <2>4. QED
    BY <1>1, <1>3, <1>4, <1>5, <1>6, <2>1, <2>3 DEF Charge
<1>8. CASE Speak \/ (DirectSend /\ pc' = "directmark")
  <2>1. /\ UNCHANGED <<box, legacy, legacyDisk, carried, sentMem, todo, faults>>
        /\ Appears(TextParts(todo))
        /\ \/ pc = "store" /\ pc' = "spoken" /\ todo \notin sentMem
           \/ pc = "direct" /\ pc' = "directmark"
    BY <1>8 DEF Speak, DirectSend, diskVars, memVars, readVars
  <2>2. todo \notin sentMem
    BY <2>1 DEF WaitingInv, AtHandUnsent
  <2>3. shown'[p] \in Nat /\ shown'[p] + InRead(p)' <= shown[p] + InRead(p)
    BY <2>1, <2>2, ShowingAtHand
  <2>4. QED
    BY <1>1, <1>3, <1>4, <1>5, <1>6, <2>1, <2>3 DEF Charge
<1>9. CASE SpeakFails \/ (DirectSend /\ pc' # "directmark")
  <2>1. /\ UNCHANGED <<box, legacy, legacyDisk, carried, sentMem, todo>>
        /\ \/ shown'[p] = shown[p] /\ faults' = faults
           \/ (\E ps : Appears(ps)) /\ faults' = faults + 1
        /\ \/ pc = "store" /\ pc' = "enqueue"
           \/ pc = "direct" /\ pc' = "append"
    BY <1>1, <1>9 DEF SpeakFails, DirectSend, diskVars, memVars, readVars
  <2>2. \/ shown'[p] = shown[p] /\ faults' = faults
        \/ /\ shown'[p] = shown[p] \/ shown'[p] = shown[p] + 1
           /\ faults' = faults + 1
    BY <1>1, <2>1 DEF Appears
  <2>3. InRead(p)' <= InRead(p)
    <3>1. pc \in Begun(p) => pc' \in Begun(p)
      BY <2>1 DEF Begun, OnOldPath
    <3>2. QED
      BY <1>1, <2>1, <3>1, ReadGoesOn
  <2>4. QED
    BY <1>1, <1>3, <1>4, <1>5, <1>6, <2>1, <2>2, <2>3 DEF Charge
<1>10. CASE Enqueue
  <2>1. UNCHANGED <<shown, legacy, legacyDisk, faults>>
    BY <1>10 DEF Enqueue, histVars
  <2>2. QED
    BY <1>1, <1>4, <1>6, <1>10, <2>1, EnqueueMoves DEF Charge
<1>11. CASE EnqueueFails
  <2>1. /\ UNCHANGED <<box, shown, legacy, legacyDisk>>
        /\ faults' = faults \/ faults' = faults + 1
    BY <1>1, <1>11 DEF EnqueueFails, diskVars, histVars
  <2>2. QED
    BY <1>1, <1>3, <1>4, <1>6, <1>11, <2>1, EnqueueFailsMoves DEF Charge
<1>12. CASE LegacyAppend
  <2>1. /\ UNCHANGED <<box, shown, carried>> /\ faults' \in Nat
    BY <1>1, <1>12 DEF LegacyAppend, Persist, histVars
  <2>2. QED
    BY <1>1, <1>3, <1>5, <1>6, <1>12, <2>1, AppendPays DEF Charge
<1>13. CASE FlushFiles
  <2>1. /\ UNCHANGED <<box, legacy, legacyDisk, sentMem, faults>>
        /\ carried' = <<>> /\ todo' = todo + 1
    BY <1>13 DEF FlushFiles, NextReply, diskVars
  <2>2. InRead(p)' <= InRead(p)
    BY <1>1, <2>1, ReadGoesOn
  <2>3. InCarried(p)' = 0
    BY <2>1 DEF InCarried, Range
  <2>4. shown'[p] \in Nat /\ shown'[p] <= shown[p] + InCarried(p)
    BY <1>1, <1>13 DEF FlushFiles, Appears, InCarried
  <2>5. InOld(p)' = InOld(p) /\ Cardinality(InBox(p)') <= Cardinality(InBox(p))
    BY <1>3, <1>4, <2>1
  <2>6. QED
    <3>1. /\ shown[p] \in Int /\ InCarried(p) \in Int /\ InRead(p) \in Int
          /\ InOld(p) \in Int /\ Cardinality(InBox(p)) \in Int /\ faults \in Int
          /\ InRead(p)' \in Int /\ faults' = faults
      BY <1>1, <1>6, <2>1
    <3>2. Cardinality(InBox(p)') \in Int
      BY <1>3, <2>1
    <3>3. QED
      BY <2>2, <2>3, <2>4, <2>5, <3>1, <3>2 DEF Charge
<1>14. QED
  BY <1>7, <1>8, <1>9, <1>10, <1>11, <1>12, <1>13 DEF DrainTranscript

\* A crash brings back what was just shown -- the part at the head of the outbox or the text
\* at the head of the old queue, never both -- and what is read again.
LEMMA RestartCharge ==
  ASSUME TypeOK, PlacesOK, Restart, NEW p \in Parts
  PROVE  Charge(p)' <= Charge(p) + 2
<1>1. /\ shown[p] \in Nat /\ Cardinality(InBox(p)) \in Nat
      /\ InCarried(p) \in {0, 1} /\ InRead(p) \in {0, 1} /\ InOld(p) \in Nat
  BY TermTypes
<1>2. /\ UNCHANGED <<box, shown, legacyDisk>> /\ legacy' = legacyDisk /\ carried' = <<>>
      /\ pc' = "flush"
  BY DEF Restart, diskVars
<1>3. InCarried(p)' = 0 /\ InRead(p)' \in {0, 1}
  BY <1>2 DEF InCarried, InRead, Range
<1>4. /\ Cardinality(InBox(p)') \in Nat
      /\ Cardinality(InBox(p)') <= Cardinality(InBox(p)) + 1
      /\ pc # "confirm" => Cardinality(InBox(p)') <= Cardinality(InBox(p))
  BY <1>2, SameBoxPlaces DEF Underway
<1>5. Times(legacy, p[1]) \in Nat /\ Times(legacyDisk, p[1]) \in Nat
  BY TimesType DEF TypeOK, DiskTypes, MemoryTypes
<1>6. InQueue(p[1])' = Times(legacyDisk, p[1])
  BY <1>2 DEF InQueue, Times
<1>7. Popping(p[1])' = 0 /\ Popping(p[1]) \in {0, 1} /\ (pc # "pop" => Popping(p[1]) = 0)
  BY <1>2 DEF Popping
<1>8. InOld(p)' \in Nat /\ InOld(p)' <= InOld(p) + Popping(p[1])
  <2>1. CASE IsText(p)
    BY <1>5, <1>6, <1>7, <2>1 DEF InOld, InQueue, IsText
  <2>2. CASE ~IsText(p)
    BY <1>7, <2>2 DEF InOld, IsText
  <2>3. QED
    BY <2>1, <2>2
<1>9. InOld(p)' + Cardinality(InBox(p)') <= InOld(p) + Cardinality(InBox(p)) + 1
  BY <1>1, <1>4, <1>7, <1>8
<1>10. InRead(p)' <= InRead(p) + 1 /\ InCarried(p)' <= InCarried(p) /\ InRead(p)' \in Int
  BY <1>1, <1>3
<1>11. /\ shown'[p] = shown[p] /\ shown[p] \in Int /\ Cardinality(InBox(p)) \in Int
       /\ InCarried(p) \in Int /\ InRead(p) \in Int /\ InOld(p) \in Int
       /\ Cardinality(InBox(p)') \in Int /\ InOld(p)' \in Int /\ InCarried(p)' \in Int
  BY <1>1, <1>2, <1>3, <1>4, <1>8
<1>12. QED
  BY <1>9, <1>10, <1>11 DEF Charge

LEMMA ChargeType ==
  ASSUME TypeOK, PlacesOK, NEW p \in Parts
  PROVE  Charge(p) \in Nat /\ Charge(p) >= shown[p]
BY TermTypes DEF Charge

LEMMA ChargeTypeNext ==
  ASSUME TypeOK', NEW p \in Parts
  PROVE  Charge(p)' \in Int
<1>1. shown'[p] \in Nat /\ Cardinality(InBox(p)') \in Nat
  BY BoxPlacesNext DEF TypeOK, HistoryTypes
<1>2. InCarried(p)' \in {0, 1} /\ InRead(p)' \in {0, 1} /\ Popping(p[1])' \in {0, 1}
  BY DEF InCarried, InRead, Popping
<1>3. PICK s, d \in Seq(Replies) : s = legacy' /\ d = legacyDisk'
  BY DEF TypeOK, DiskTypes, MemoryTypes
<1>4. Times(s, p[1]) \in Nat /\ Times(d, p[1]) \in Nat
  BY TimesType
<1>5. InQueue(p[1])' = IF Times(s, p[1]) >= Times(d, p[1]) THEN Times(s, p[1])
                       ELSE Times(d, p[1])
  BY <1>3 DEF InQueue, Times
<1>6. InOld(p)' \in Int
  BY <1>2, <1>4, <1>5 DEF InOld, IsText
<1>7. QED
  BY <1>1, <1>2, <1>6 DEF Charge

LEMMA ChargedStep ==
  ASSUME TypeOK, PlacesOK, WaitingInv, Charged, [Next]_vars
  PROVE  Charged'
<1> SUFFICES ASSUME NEW p \in Parts
             PROVE  Charge(p)' <= 1 + faults' + 2 * crashes'
  BY DEF Charged
<1>1. Charge(p) <= 1 + faults + 2 * crashes /\ Charge(p) \in Nat /\ Charge(p)' \in Int
  BY TypeStep, ChargeType, ChargeTypeNext DEF Charged
<1>2. TypeOK'
  BY TypeStep
<1>3. faults \in Nat /\ faults' \in Nat /\ crashes \in Nat /\ crashes' \in Nat
  BY <1>2, ConstantsAssumption DEF TypeOK, HistoryTypes
<1>4. CASE AgentReplies \/ NewTurn \/ UNCHANGED vars
  <2>1. UNCHANGED <<box, legacy, legacyDisk, carried, todo, sentMem, shown, pc, faults, crashes>>
    BY <1>4 DEF AgentReplies, NewTurn, vars, diskVars, memVars, readVars, histVars
  <2>2. Charge(p)' = Charge(p)
    BY <2>1 DEF Charge, InBox, Pending, Underway, NextPart, TextLeft, Rec, InCarried, Range,
                InOld, InQueue, Popping, Times, IsText, InRead, ToRead, Begun
  <2>3. QED
    BY <1>1, <2>1, <2>2
<1>5. CASE FlushOutbox \/ FlushLegacy \/ DrainTranscript
  <2>1. UNCHANGED crashes
    BY <1>5 DEF FlushOutbox, HeadOfQueue, SendPart, AnswerLost, ChunkFails, AttachmentFails,
       AttachmentRefused, ConfirmPart, CountAttempt, GiveUp, RecordDelivered, RemoveRecord,
       FlushLegacy, LegacySend, LegacyPop, LegacyMark, DrainTranscript, Drain, DrainAborts,
       SkipSent, Speak, SpeakFails, MarkSpoken, Enqueue, EnqueueFails, DirectSend,
       LegacyAppend, DirectMark, FlushFiles
  <2>2. Charge(p)' + faults <= Charge(p) + faults'
    BY <1>5, FlushOutboxCharge, FlushLegacyCharge, DrainCharge
  <2>3. QED
    BY <1>1, <1>3, <2>1, <2>2
<1>6. CASE Restart
  <2>1. crashes' = crashes + 1 /\ UNCHANGED faults
    BY <1>6 DEF Restart
  <2>2. Charge(p)' <= Charge(p) + 2
    BY <1>6, RestartCharge
  <2>3. QED
    BY <1>1, <1>3, <2>1, <2>2
<1>7. QED
  BY <1>4, <1>5, <1>6 DEF Next, Outbound

LEMMA InitWaiting == Init => WaitingInv /\ Charged
<1> SUFFICES ASSUME Init
             PROVE  WaitingInv /\ Charged
  OBVIOUS
<1>1. WaitingInv
  BY DEF Init, WaitingInv, CarriedOK, BoxFilesOK, AtHandUnsent, Distinct, NoText
<1>2. ASSUME NEW p \in Parts
      PROVE  Charge(p) <= 1
  <2>1. InBox(p) = {} /\ Times(legacy, p[1]) = Cardinality({}) /\ legacyDisk = legacy
    BY DEF Init, InBox, Times
  <2>2. Cardinality({}) = 0
    BY FS_EmptySet
  <2>3. shown[p] = 0 /\ InCarried(p) = 0 /\ InRead(p) \in {0, 1}
    BY DEF Init, InCarried, Range, InRead
  <2>4. InOld(p) = 0
    BY <2>1, <2>2 DEF Init, InOld, InQueue, Popping
  <2>5. QED
    BY <2>1, <2>2, <2>3, <2>4 DEF Charge
<1>3. QED
  BY <1>1, <1>2 DEF Init, Charged

-----------------------------------------------------------------------------
(* On the plain path a reply waits in one place: in the outbox, or in the transcript as   *)
(* long as the outbox does not hold it.  So a crash repeats a part once only.             *)

Unstored(p) == IF ToRead(p) /\ Stored(p[1]) = {} THEN 1 ELSE 0
PlainCharge(p) == shown[p] + Cardinality(InBox(p)) + Unstored(p)
PlainCharged == \A p \in Parts : p[1] \notin dead => PlainCharge(p) <= 1 + faults + crashes
DoneMarked == pc = "done" => Rec.reply \in sentMem

LEMMA DoneStep ==
  ASSUME DoneMarked, [Next]_vars
  PROVE  DoneMarked'
<1>1. CASE AgentReplies \/ NewTurn \/ UNCHANGED vars
  BY <1>1 DEF AgentReplies, NewTurn, vars, diskVars, memVars, DoneMarked, Rec
<1>2. CASE RecordDelivered
  BY <1>2 DEF RecordDelivered, MarkSent, MarkSentFails, DoneMarked, Rec
<1>3. CASE Next /\ ~(AgentReplies \/ NewTurn \/ RecordDelivered)
  <2>1. pc' # "done"
    BY <1>3 DEF Next, Outbound, FlushOutbox, FlushLegacy, DrainTranscript, HeadOfQueue,
       SendPart, AnswerLost, ChunkFails, AttachmentFails, AttachmentRefused, ConfirmPart,
       CountAttempt, GiveUp, RemoveRecord, LegacySend, LegacyPop, LegacyMark, Drain,
       DrainAborts, SkipSent, Speak, SpeakFails, MarkSpoken, Enqueue, EnqueueFails,
       DirectSend, LegacyAppend, DirectMark, FlushFiles, NextReply, Restart, Abort
  <2>2. QED
    BY <2>1 DEF DoneMarked
<1>4. QED
  BY <1>1, <1>2, <1>3

\* A stored reply stays stored until it is buried or in the ledger.
LEMMA StoredOrMarked ==
  ASSUME TypeOK, PlacesOK, OrderInv, DoneMarked, PlainStep, NEW r \in Replies,
         Stored(r) # {}, r \notin dead', r \notin sentMem
  PROVE  Stored(r)' # {}
<1>1. PICK j \in DOMAIN box : box[j].reply = r
  BY DEF Stored
<1>2. ASSUME SameReplies
      PROVE  Stored(r)' # {}
  BY <1>1, <1>2 DEF SameReplies, Stored
<1>3. CASE UNCHANGED box
  BY <1>2, <1>3 DEF SameReplies
<1>4. ASSUME NEW rec, HeadRewritten(rec)
      PROVE  Stored(r)' # {}
  BY <1>2, <1>4, RewrittenHead
<1>5. CASE HeadLeaves
  <2>1. CASE j = 1
    <3>1. Rec.reply = r
      BY <1>1, <1>5, <2>1, HeadGone
    <3>2. CASE GiveUp
      <4>1. box' # box
        BY <1>5, HeadRecord, LenProperties DEF HeadLeaves, TypeOK, DiskTypes
      <4>2. QED
        BY <3>1, <3>2, <4>1 DEF GiveUp
    <3>3. CASE RemoveRecord
      BY <3>1, <3>3 DEF RemoveRecord, DoneMarked
    <3>4. QED
      BY <1>5, <3>2, <3>3 DEF HeadLeaves
  <2>2. CASE j # 1
    BY <1>1, <1>5, <2>2, HeadGone DEF Stored
  <2>3. QED
    BY <2>1, <2>2
<1>6. CASE ReplyJoins
  BY <1>1, <1>6, JoinedReply DEF Stored
<1>7. QED
  BY <1>3, <1>4, <1>5, <1>6, BoxChange

\* What is to be read goes on, so it is not to be stored again.
LEMMA UnstoredGoesOn ==
  ASSUME TypeOK, PlacesOK, OrderInv, DoneMarked, PlainStep, NEW p \in Parts,
         p[1] \notin dead', sentMem \subseteq sentMem', todo' \in Int, todo' >= todo
  PROVE  Unstored(p)' \in {0, 1} /\ Unstored(p) \in {0, 1} /\ Unstored(p)' <= Unstored(p)
<1>1. p[1] \in Replies
  BY PartTypes
<1>2. pc \notin Begun(p)
  BY DEF OrderInv, OldPathUnused, Begun, OnOldPath
<1>3. ToRead(p)' => ToRead(p)
  BY <1>2, ReadGoesOn
<1>4. ASSUME ToRead(p), Stored(p[1]) # {}
      PROVE  Stored(p[1])' # {}
  BY <1>1, <1>4, StoredOrMarked DEF ToRead
<1>5. Unstored(p)' = IF ToRead(p)' /\ Stored(p[1])' = {} THEN 1 ELSE 0
  BY DEF Unstored
<1>6. QED
  BY <1>3, <1>4, <1>5 DEF Unstored

LEMMA UnstoredEnqueued ==
  ASSUME TypeOK, PlacesOK, OrderInv, PlainEnqueue, Stored(todo) = {}, NEW p \in Parts,
         p[1] = todo
  PROVE  Unstored(p) = 1 /\ Unstored(p)' = 0
<1>1. /\ pc = "store" /\ todo \notin sentMem /\ todo' = todo + 1 /\ UNCHANGED sentMem
      /\ todo \in Int
  BY DEF PlainEnqueue, Enqueue, Storing, NextReply, TypeOK, ReadTypes
<1>2. ToRead(p)
  BY <1>1 DEF ToRead, Begun, OnOldPath
<1>3. ~ToRead(p)'
  BY <1>1 DEF ToRead
<1>4. QED
  BY <1>2, <1>3 DEF Unstored

LEMMA PlainChargedStep ==
  ASSUME TypeOK, PlacesOK, OrderInv, WaitingInv, DoneMarked, PlainCharged, PlainStep,
         [Next]_vars
  PROVE  PlainCharged'
<1> SUFFICES ASSUME NEW p \in Parts, p[1] \notin dead'
             PROVE  PlainCharge(p)' <= 1 + faults' + crashes'
  BY DEF PlainCharged
<1>0. TypeOK' /\ dead \subseteq dead'
  <2>1. TypeOK'
    BY TypeStep
  <2>2. CASE AgentReplies \/ NewTurn \/ UNCHANGED vars \/ Restart
    BY <2>1, <2>2 DEF AgentReplies, NewTurn, vars, Restart, diskVars
  <2>3. CASE FlushOutbox \/ QuietLegacy \/ Drain \/ DrainAborts \/ SkipSent \/ PlainEnqueue
    BY <2>1, <2>3 DEF FlushOutbox, HeadOfQueue, SendPart, AnswerLost, ChunkFails,
       AttachmentFails, AttachmentRefused, ConfirmPart, CountAttempt, GiveUp,
       RecordDelivered, RemoveRecord, QuietLegacy, Drain, DrainAborts, SkipSent,
       PlainEnqueue, Enqueue, diskVars
  <2>4. QED
    BY <2>2, <2>3 DEF PlainStep
<1>1. PlainCharge(p) <= 1 + faults + crashes
  BY <1>0 DEF PlainCharged
<1>2. /\ shown[p] \in Nat /\ shown'[p] \in Nat
      /\ Cardinality(InBox(p)) \in Nat /\ Cardinality(InBox(p)') \in Nat
      /\ Unstored(p) \in {0, 1} /\ Unstored(p)' \in {0, 1}
      /\ todo \in Int /\ todo' \in Int /\ tpos \in Int /\ todo <= tpos
  BY <1>0, BoxPlaces, BoxPlacesNext DEF TypeOK, HistoryTypes, ReadTypes, Unstored
<1>3. faults \in Nat /\ faults' \in Nat /\ crashes \in Nat /\ crashes' \in Nat
  BY <1>0, ConstantsAssumption DEF TypeOK, HistoryTypes
<1>4. CASE Restart
  <2>1. UNCHANGED <<box, shown, faults>> /\ crashes' = crashes + 1
    BY <1>4 DEF Restart, diskVars
  <2>2. CASE Underway(p)
    <3>1. box # <<>> /\ ~Complete(Rec) /\ NextPart(Rec) = p
      BY <2>2 DEF Underway, PlacesOK, RecordPlaces
    <3>2. PICK n \in Nat : NextPart(Rec) = <<Rec.reply, n>>
      BY <3>1, NextPartNumber DEF OrderInv
    <3>3. Rec.reply = p[1]
      BY <3>1, <3>2
    <3>4. Stored(p[1])' # {}
      BY <2>1, <3>1, <3>3, HeadRecord DEF Stored
    <3>5. Unstored(p)' = 0
      BY <3>4 DEF Unstored
    <3>6. Cardinality(InBox(p)') <= Cardinality(InBox(p)) + 1
      BY <2>1, SameBoxPlaces
    <3>7. QED
      BY <1>1, <1>2, <1>3, <2>1, <3>5, <3>6 DEF PlainCharge
  <2>3. CASE ~Underway(p)
    <3>1. Cardinality(InBox(p)') <= Cardinality(InBox(p))
      BY <2>1, <2>3, SameBoxPlaces
    <3>2. QED
      BY <1>1, <1>2, <1>3, <2>1, <3>1 DEF PlainCharge
  <2>4. QED
    BY <2>2, <2>3
<1>5. CASE FlushOutbox
  <2>1. shown'[p] + Cardinality(InBox(p)') + faults
          <= shown[p] + Cardinality(InBox(p)) + faults'
    BY <1>5, FlushOutboxPays DEF WaitingInv
  <2>2. UNCHANGED <<todo, crashes>> /\ sentMem \subseteq sentMem'
    BY <1>5, SentGrows DEF FlushOutbox, HeadOfQueue, SendPart, AnswerLost, ChunkFails,
       AttachmentFails, AttachmentRefused, ConfirmPart, CountAttempt, GiveUp,
       RecordDelivered, RemoveRecord, memVars, readVars
  <2>3. Unstored(p)' <= Unstored(p)
    BY <1>2, <2>2, UnstoredGoesOn
  <2>4. QED
    BY <1>1, <1>2, <1>3, <2>1, <2>2, <2>3 DEF PlainCharge
<1>6. CASE AgentReplies \/ NewTurn \/ UNCHANGED vars \/ QuietLegacy \/ Drain \/ DrainAborts
           \/ SkipSent
  <2>1. UNCHANGED <<box, shown, crashes, sentMem>> /\ (Underway(p) => pc' = "confirm")
    BY <1>6 DEF AgentReplies, NewTurn, vars, QuietLegacy, Drain, DrainAborts, SkipSent,
                diskVars, memVars, histVars, Underway
  <2>2. todo' >= todo /\ faults' >= faults
    <3>1. CASE Drain \/ DrainAborts
      BY <1>2, <1>3, <3>1 DEF Drain, DrainAborts, Abort, Fault
    <3>2. CASE SkipSent
      BY <1>2, <1>3, <3>2 DEF SkipSent, NextReply
    <3>3. CASE AgentReplies \/ NewTurn \/ UNCHANGED vars \/ QuietLegacy
      BY <1>2, <1>3, <3>3 DEF AgentReplies, NewTurn, vars, QuietLegacy, readVars
    <3>4. QED
      BY <1>6, <3>1, <3>2, <3>3
  <2>3. Unstored(p)' <= Unstored(p)
    BY <1>2, <2>1, <2>2, UnstoredGoesOn
  <2>4. Cardinality(InBox(p)') <= Cardinality(InBox(p))
    BY <2>1, SameBoxPlaces
  <2>5. QED
    BY <1>1, <1>2, <1>3, <2>1, <2>2, <2>3, <2>4 DEF PlainCharge
<1>7. CASE PlainEnqueue
  <2>1. /\ UNCHANGED <<shown, sentMem, faults, crashes>> /\ todo' = todo + 1 /\ pc = "store"
        /\ Storing /\ pc' # "confirm" /\ FilesNow = OwnFiles(todo)
    BY <1>7 DEF PlainEnqueue, Enqueue, NextReply, histVars
  <2>2. Unstored(p)' <= Unstored(p)
    BY <1>2, <2>1, UnstoredGoesOn
  <2>3. CASE Stored(todo) # {}
    <3>1. UNCHANGED box
      BY <1>7, <2>3 DEF PlainEnqueue, Enqueue
    <3>2. Cardinality(InBox(p)') <= Cardinality(InBox(p))
      BY <2>1, <3>1, SameBoxPlaces DEF Underway
    <3>3. QED
      BY <1>1, <1>2, <1>3, <2>1, <2>2, <3>2 DEF PlainCharge
  <2>4. CASE Stored(todo) = {}
    <3>1. box' = Append(box, Record(todo, FilesNow))
      BY <1>7, <2>4 DEF PlainEnqueue, Enqueue
    <3>2. /\ Cardinality(InBox(p)') <= Cardinality(InBox(p)) + 1
          /\ ~Pending(Record(todo, FilesNow), p)
               => Cardinality(InBox(p)') <= Cardinality(InBox(p))
      BY <2>1, <3>1, JoiningPlaces
    <3>3. CASE p[1] = todo
      <4>1. Unstored(p) = 1 /\ Unstored(p)' = 0
        BY <1>7, <2>4, <3>3, UnstoredEnqueued
      <4>2. QED
        BY <1>1, <1>2, <1>3, <2>1, <3>2, <4>1 DEF PlainCharge
    <3>4. CASE p[1] # todo
      <4>1. p \notin Range(carried)
        BY DEF OrderInv, OldPathUnused, Range
      <4>2. Cardinality(InBox(p)') <= Cardinality(InBox(p))
        BY <2>1, <3>2, <3>4, <4>1, NewPending DEF WaitingInv
      <4>3. QED
        BY <1>1, <1>2, <1>3, <2>1, <2>2, <4>2 DEF PlainCharge
    <3>5. QED
      BY <3>3, <3>4
  <2>5. QED
    BY <2>3, <2>4
<1>8. QED
  BY <1>4, <1>5, <1>6, <1>7 DEF PlainStep

LEMMA InitPlainCharged == Init => PlainCharged /\ DoneMarked
<1> SUFFICES ASSUME Init
             PROVE  PlainCharged /\ DoneMarked
  OBVIOUS
<1>1. DoneMarked
  BY DEF Init, DoneMarked
<1>2. ASSUME NEW p \in Parts
      PROVE  PlainCharge(p) <= 1
  <2>1. InBox(p) = {} /\ Cardinality({}) = 0
    BY FS_EmptySet DEF Init, InBox
  <2>2. shown[p] = 0 /\ Unstored(p) \in {0, 1}
    BY DEF Init, Unstored
  <2>3. QED
    BY <2>1, <2>2 DEF PlainCharge
<1>3. QED
  BY <1>1, <1>2 DEF Init, PlainCharged

\* Every appearance of a part has a cause of its own: the first one, a failed operation, or
\* a crash -- and a crash pays for two only where the reply was stored a second time
\* (_flush_pending, _send_final, _run_locked, DurableOutbox.enqueue).
THEOREM RepeatsAreCaused == Spec => []RepeatsHaveCauses
<1>1. Spec => [](DeliveryInv /\ WaitingInv /\ Charged)
  <2>1. DeliveryInv /\ WaitingInv /\ Charged /\ [Next]_vars => WaitingInv' /\ Charged'
    <3> SUFFICES ASSUME DeliveryInv, WaitingInv, Charged, [Next]_vars
                 PROVE  WaitingInv' /\ Charged'
      OBVIOUS
    <3>1. TypeOK /\ PlacesOK
      BY DEF DeliveryInv
    <3>2. CarriedOK' /\ BoxFilesOK' /\ AtHandUnsent'
      BY <3>1, CarriedStep, BoxFilesStep, AtHandStep
    <3>3. QED
      BY <3>1, <3>2, ChargedStep DEF WaitingInv
  <2>2. QED
    BY <2>1, InitWaiting, DeliveryInvariant, PTL DEF Spec
<1>2. ASSUME DeliveryInv, Charged, NEW p \in Parts
      PROVE  shown[p] <= 1 + faults + 2 * crashes
  <2>1. TypeOK /\ PlacesOK
    BY <1>2 DEF DeliveryInv
  <2>2. /\ Charge(p) \in Nat /\ Charge(p) >= shown[p] /\ shown[p] \in Nat
        /\ faults \in Nat /\ crashes \in Nat
    BY <2>1, ChargeType, ConstantsAssumption DEF TypeOK, HistoryTypes
  <2>3. QED
    BY <1>2, <2>2 DEF Charged
<1>3. CASE Plain
  <2>1. Spec => [](OrderInv /\ PlainCharged /\ DoneMarked)
    <3>1. /\ DeliveryInv /\ WaitingInv /\ OrderInv /\ PlainCharged /\ DoneMarked
          /\ [Next]_vars
          => OrderInv' /\ PlainCharged' /\ DoneMarked'
      <4> SUFFICES ASSUME DeliveryInv, WaitingInv, OrderInv, PlainCharged, DoneMarked,
                          [Next]_vars
                   PROVE  OrderInv' /\ PlainCharged' /\ DoneMarked'
        OBVIOUS
      <4>1. TypeOK /\ PlacesOK
        BY DEF DeliveryInv
      <4>2. PlainStep
        BY <1>3, <4>1, PlainNext DEF OrderInv
      <4>3. QED
        BY <1>3, <4>1, <4>2, OrderStep, PlainChargedStep, DoneStep
    <3>2. QED
      BY <1>1, <3>1, InitOrder, InitPlainCharged, PTL DEF Spec
  <2>2. DeliveryInv /\ Charged /\ PlainCharged => RepeatsHaveCauses
    <3> SUFFICES ASSUME DeliveryInv, Charged, PlainCharged, NEW p \in Parts
                 PROVE  shown[p] <= 1 + faults
                          + (IF Plain /\ p[1] \notin dead THEN crashes ELSE 2 * crashes)
      BY DEF RepeatsHaveCauses
    <3>1. CASE p[1] \in dead
      BY <1>2, <3>1
    <3>2. CASE p[1] \notin dead
      <4>1. TypeOK
        BY DEF DeliveryInv
      <4>2. /\ shown[p] \in Nat /\ Cardinality(InBox(p)) \in Nat /\ Unstored(p) \in {0, 1}
            /\ faults \in Nat /\ crashes \in Nat
        BY <4>1, BoxPlaces, ConstantsAssumption DEF TypeOK, HistoryTypes, Unstored
      <4>3. shown[p] <= 1 + faults + crashes
        BY <3>2, <4>2 DEF PlainCharged, PlainCharge
      <4>4. QED
        BY <1>3, <3>2, <4>3
    <3>3. QED
      BY <3>1, <3>2
  <2>3. QED
    BY <1>1, <2>1, <2>2, PTL
<1>4. CASE ~Plain
  <2>1. DeliveryInv /\ Charged => RepeatsHaveCauses
    BY <1>2, <1>4 DEF RepeatsHaveCauses
  <2>2. QED
    BY <1>1, <2>1, PTL
<1>5. QED
  BY <1>3, <1>4
=============================================================================
