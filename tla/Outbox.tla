------------------------------- MODULE Outbox -------------------------------
(***************************************************************************)
(* Session -> Telegram: how AttachBridge (attach.py) reads the agent's     *)
(* replies from the transcript, stores them in DurableOutbox (durable.py)  *)
(* and delivers them part by part.                                         *)
(*                                                                         *)
(* One thread does all of it, _outbound_loop: every cycle first flushes    *)
(* the outbox and then the old in-memory queue, and then reads what the    *)
(* transcript has gained.  What makes it hard is that every step is a      *)
(* Telegram call whose answer may be lost or a write that may fail, that   *)
(* the agent writes on meanwhile, and that the process may die in between  *)
(* and start again from the disk, re-reading the current turn.             *)
(* An action is one Telegram call, one write, or one read of the store.    *)
(*                                                                         *)
(* Left out: replies without a key and the bridge's own notices, the       *)
(* choice of the recipient, retention and record limits of the store, and  *)
(* the two writes of give_up (see Inbound.tla; an interrupted move is      *)
(* finished by the next read of the store, and the record is not pending   *)
(* in between).                                                            *)
(***************************************************************************)
EXTENDS Integers, Sequences, FiniteSets, Functions

CONSTANTS
  LastReply,     \* the agent writes the replies 1 .. LastReply
  Chunks,        \* how many text chunks a reply is split into
  Files,         \* how many attachments a reply names
  Flaky,         \* attachments whose upload may fail, any number of times
  MaxAttempts,   \* OUTBOX_MAX_ATTEMPTS
  VoiceMode,     \* replies without attachments are tried as voice notes first
  FaultKinds,    \* what else may go wrong, subset of AllFaults
  MaxFaults,     \* how many operations fail in a behaviour
  MaxCrashes     \* how often the process dies in a behaviour

\* "send": Telegram does not get a message; "answer": it does, but the answer is lost;
\* "event": an exception while another record of the transcript is handled (a tool call
\* whose status bubble fails, a record the reader does not expect); the others are
\* operations on the disk.
AllFaults ==
  {"send", "answer", "read", "enqueue", "record", "ledger", "done", "queue", "event"}

Replies == 1 .. LastReply

ASSUME ConstantsAssumption ==
  /\ LastReply \in Nat
  /\ Chunks \in [Replies -> Nat]
  /\ Files \in [Replies -> Nat]
  /\ \A r \in Replies : Chunks[r] + Files[r] > 0
  /\ Flaky \subseteq Replies \X Nat
  /\ MaxAttempts \in Nat \ {0}
  /\ VoiceMode \in BOOLEAN
  /\ FaultKinds \subseteq AllFaults
  /\ MaxFaults \in Nat /\ MaxCrashes \in Nat

\* The parts of a reply are numbered: its text chunks first, then its attachments.
Parts == UNION {{r} \X (1 .. Chunks[r] + Files[r]) : r \in Replies}
TextParts(r) == {r} \X (1 .. Chunks[r])
OwnFiles(r) == [i \in 1 .. Files[r] |-> <<r, Chunks[r] + i>>]

VARIABLES
  \* the agent's transcript
  written,       \* replies 1 .. written are in it
  turnStart,     \* the first reply after the latest user message
  \* disk
  box,           \* the pending records of the outbox, oldest first
  dead,          \* replies with a dead-letter record
  sentDisk,      \* the ledger of delivered keys
  legacyDisk,    \* the file of the old queue
  \* memory of the process
  sentMem,       \* _sent_keys
  legacy,        \* _pending_send
  carried,       \* _pending_files
  tpos,          \* the transcript is read up to this reply (exclusive)
  todo,          \* the next reply of what was read to be handled
  popped,        \* the item just taken off the old queue
  pc,            \* where the outbound thread is
  \* bookkeeping of the model
  shown,         \* how often a part appeared in the chat
  refused,       \* attachments reported to the chat as not sent
  skipped,       \* replies dropped before they were stored, not to be read again soon
  faults, crashes

agentVars == <<written, turnStart>>
diskVars == <<box, dead, sentDisk, legacyDisk>>
readVars == <<tpos, todo>>
memVars == <<sentMem, legacy, carried, popped>>
histVars == <<shown, refused, skipped>>
vars == <<agentVars, diskVars, memVars, readVars, pc, histVars, faults, crashes>>

\* An operation of kind k fails: every one of them can, within the budget.
Fault(k) ==
  /\ k \in FaultKinds
  /\ faults < MaxFaults
  /\ faults' = faults + 1

Record(r, files) ==
  [reply |-> r, sent |-> 0, files |-> files, filesSent |-> 0, attempts |-> 0]

Init ==
  /\ written = 0 /\ turnStart = 1
  /\ box = <<>> /\ dead = {} /\ sentDisk = {} /\ legacyDisk = <<>>
  /\ sentMem = {} /\ legacy = <<>> /\ carried = <<>>
  /\ tpos = 1 /\ todo = 1 /\ popped = 0
  /\ pc = "flush"
  /\ shown = [p \in Parts |-> 0]
  /\ refused = {} /\ skipped = {}
  /\ faults = 0 /\ crashes = 0

-----------------------------------------------------------------------------
(* The agent writes its transcript: a reply, in the same turn or after a new user *)
(* message, or the user message alone.                                            *)

AgentReplies ==
  /\ written < LastReply
  /\ written' = written + 1
  /\ turnStart' \in {turnStart, written + 1}
  /\ UNCHANGED <<diskVars, memVars, readVars, pc, histVars, faults, crashes>>

NewTurn ==
  /\ turnStart <= written
  /\ turnStart' = written + 1
  /\ UNCHANGED <<written, diskVars, memVars, readVars, pc, histVars, faults, crashes>>

-----------------------------------------------------------------------------
(* The ledger of delivered keys *)

\* The key is in memory already, or it goes to memory and to the file.
MarkSent(r) ==
  \/ /\ r \in sentMem
     /\ UNCHANGED <<sentMem, sentDisk, faults>>
  \/ /\ r \notin sentMem
     /\ sentMem' = sentMem \cup {r}
     /\ sentDisk' = sentDisk \cup {r}
     /\ UNCHANGED faults

\* The ledger cannot be written: memory already holds the key, so the next
\* _mark_sent of it answers True without looking at the disk.
MarkSentFails(r) ==
  /\ r \notin sentMem
  /\ sentMem' = sentMem \cup {r}
  /\ Fault("ledger")
  /\ UNCHANGED sentDisk

-----------------------------------------------------------------------------
(* _flush_pending, the outbox: the head record, part by part *)

Rec == Head(box)
TextLeft(rec) == rec.sent < Chunks[rec.reply]
Complete(rec) == ~TextLeft(rec) /\ rec.filesSent = Len(rec.files)

NextPart(rec) ==
  IF TextLeft(rec) THEN <<rec.reply, rec.sent + 1>> ELSE rec.files[rec.filesSent + 1]

Confirmed(rec) ==
  IF TextLeft(rec) THEN [rec EXCEPT !.sent = @ + 1] ELSE [rec EXCEPT !.filesSent = @ + 1]

Appears(ps) == shown' = [p \in Parts |-> IF p \in ps THEN shown[p] + 1 ELSE shown[p]]

\* An exception ends the cycle: the loop logs it and starts the next one.
Abort(kind) ==
  /\ Fault(kind)
  /\ pc' = "flush"

HeadOfQueue ==
  /\ pc = "flush"
  /\ \/ pc' = (IF box = <<>> THEN "legacy" ELSE "send") /\ UNCHANGED faults
     \/ Abort("read")
  /\ UNCHANGED <<agentVars, diskVars, memVars, readVars, histVars, crashes>>

SendPart ==
  /\ pc = "send" /\ ~Complete(Rec)
  /\ Appears({NextPart(Rec)})
  /\ pc' = "confirm"
  /\ UNCHANGED <<agentVars, diskVars, memVars, readVars, refused, skipped, faults, crashes>>

\* Telegram shows the part but its answer is lost: the call retries (_call; send_message
\* and send_file also try a second form), so it goes on to SendPart or to a failure.
AnswerLost ==
  /\ pc = "send" /\ ~Complete(Rec)
  /\ Fault("answer")
  /\ Appears({NextPart(Rec)})
  /\ UNCHANGED <<agentVars, diskVars, memVars, readVars, pc, refused, skipped, crashes>>

\* Mutant of ChunkFails: the record goes to the end of the queue.
ChunkFailsRotate ==
  /\ pc = "send" /\ TextLeft(Rec)
  /\ Fault("send")
  /\ box' = Append(Tail(box), Rec)
  /\ pc' = "drain"
  /\ UNCHANGED <<agentVars, dead, sentDisk, legacyDisk, memVars, readVars, histVars, crashes>>

\* A chunk fails: the flush ends here, before the old queue, to keep the order.
ChunkFails ==
  /\ pc = "send" /\ TextLeft(Rec)
  /\ Fault("send")
  /\ pc' = "drain"
  /\ UNCHANGED <<agentVars, diskVars, memVars, readVars, histVars, crashes>>

AttachmentFails ==
  /\ pc = "send" /\ ~TextLeft(Rec) /\ ~Complete(Rec)
  /\ NextPart(Rec) \in Flaky
  /\ pc' = "count"
  /\ UNCHANGED <<agentVars, diskVars, memVars, readVars, histVars, faults, crashes>>

\* A path outside the allowed folders, or a file that vanished: reported and confirmed.
AttachmentRefused ==
  /\ pc = "send" /\ ~TextLeft(Rec) /\ ~Complete(Rec)
  /\ NextPart(Rec) \in Flaky
  /\ refused' = refused \cup {NextPart(Rec)}
  /\ pc' = "confirm"
  /\ UNCHANGED <<agentVars, diskVars, memVars, readVars, shown, skipped, faults, crashes>>

\* mark_chunk_sent, mark_file_sent
ConfirmPart ==
  /\ pc = "confirm"
  /\ \/ box' = [box EXCEPT ![1] = Confirmed(@)] /\ pc' = "send" /\ UNCHANGED faults
     \/ Abort("record") /\ UNCHANGED box
  /\ UNCHANGED <<agentVars, dead, sentDisk, legacyDisk, memVars, readVars, histVars, crashes>>

\* Mutant of CountAttempt: the attempts are not counted.
CountNothing ==
  /\ pc = "count"
  /\ pc' = "drain"
  /\ UNCHANGED <<agentVars, diskVars, memVars, readVars, histVars, faults, crashes>>

\* outbox.fail; at the limit the failure is reported to the chat.
CountAttempt ==
  /\ pc = "count"
  /\ \/ /\ box' = [box EXCEPT ![1].attempts = @ + 1]
        /\ IF Head(box').attempts >= MaxAttempts
           THEN refused' = refused \cup {NextPart(Rec)} /\ pc' = "giveup"
           ELSE pc' = "drain" /\ UNCHANGED refused
        /\ UNCHANGED faults
     \/ Abort("record") /\ UNCHANGED <<box, refused>>
  /\ UNCHANGED <<agentVars, dead, sentDisk, legacyDisk, memVars, readVars, shown, skipped,
                 crashes>>

\* The whole record goes to dead-letter and the queue moves on.
GiveUp ==
  /\ pc = "giveup"
  /\ \/ /\ dead' = dead \cup {Rec.reply}
        /\ box' = Tail(box)
        /\ pc' = "flush"
        /\ UNCHANGED faults
     \/ Abort("record") /\ UNCHANGED <<box, dead>>
  /\ UNCHANGED <<agentVars, sentDisk, legacyDisk, memVars, readVars, histVars, crashes>>

\* Everything is confirmed: first the ledger ...
RecordDelivered ==
  /\ pc = "send" /\ Complete(Rec)
  /\ \/ MarkSent(Rec.reply) /\ pc' = "done"
     \/ MarkSentFails(Rec.reply) /\ pc' = "drain"
  /\ UNCHANGED <<agentVars, box, dead, legacyDisk, legacy, carried, popped, readVars,
                 histVars, crashes>>

\* ... and then the record goes.
RemoveRecord ==
  /\ pc = "done"
  /\ \/ box' = Tail(box) /\ pc' = "flush" /\ UNCHANGED faults
     \/ Abort("done") /\ UNCHANGED box
  /\ UNCHANGED <<agentVars, dead, sentDisk, legacyDisk, memVars, readVars, histVars, crashes>>

-----------------------------------------------------------------------------
(* _flush_pending, the old queue: whole texts, no parts *)

\* A failing send_message has shown some prefix of the text.
Prefixes(r) == {{r} \X (1 .. k) : k \in 0 .. Chunks[r]}

LegacySend ==
  /\ pc = "legacy"
  /\ IF legacy = <<>>
     THEN pc' = "drain" /\ UNCHANGED <<shown, faults>>
     ELSE \/ Appears(TextParts(Head(legacy))) /\ pc' = "pop" /\ UNCHANGED faults
          \/ /\ Fault("send")
             /\ \E ps \in Prefixes(Head(legacy)) : Appears(ps)
             /\ pc' = "drain"
  /\ UNCHANGED <<agentVars, diskVars, memVars, readVars, refused, skipped, crashes>>

\* _persist_queue swallows a failing write.
Persist ==
  \/ legacyDisk' = legacy' /\ UNCHANGED faults
  \/ Fault("queue") /\ UNCHANGED legacyDisk

LegacyPop ==
  /\ pc = "pop"
  /\ legacy' = Tail(legacy) /\ popped' = Head(legacy)
  /\ Persist
  /\ pc' = "popped"
  /\ UNCHANGED <<agentVars, box, dead, sentDisk, sentMem, carried, readVars, histVars, crashes>>

\* What _mark_sent answers is ignored here.
LegacyMark ==
  /\ pc = "popped"
  /\ MarkSent(popped) \/ MarkSentFails(popped)
  /\ popped' = 0
  /\ pc' = "legacy"
  /\ UNCHANGED <<agentVars, box, dead, legacyDisk, legacy, carried, readVars, histVars,
                 crashes>>

-----------------------------------------------------------------------------
(* _drain_transcript and _send_final: what was read is handled reply by reply. *)

\* Mutant of Drain: a partial trailing line is skipped as if it were read.
DrainPartialLine ==
  /\ pc = "drain"
  /\ tpos' = written + 2
  /\ todo' = tpos
  /\ pc' = IF tpos >= written + 1 THEN "flush" ELSE "store"
  /\ UNCHANGED <<agentVars, diskVars, memVars, histVars, faults, crashes>>

\* The position moves to the end of what is read before any of it is handled.
Drain ==
  /\ pc = "drain"
  /\ tpos' = written + 1
  /\ todo' = tpos
  /\ pc' = IF tpos = written + 1 THEN "flush" ELSE "store"
  /\ UNCHANGED <<agentVars, diskVars, memVars, histVars, faults, crashes>>

\* The reply is dealt with; the cycle ends with the last one.
NextReply ==
  /\ todo' = todo + 1
  /\ pc' = IF todo' = tpos THEN "flush" ELSE "store"

\* Files that a failed enqueue left over go with the next reply.
FilesNow == carried \o OwnFiles(todo)
Spoken(r) == VoiceMode /\ Files[r] = 0
Storing == pc = "enqueue" \/ (pc = "store" /\ todo \notin sentMem /\ ~Spoken(todo))

SkipSent ==
  /\ pc = "store" /\ todo \in sentMem
  /\ NextReply
  /\ UNCHANGED <<agentVars, diskVars, memVars, tpos, histVars, faults, crashes>>

\* The exception ends the loop over what was read: the rest of it is behind the position.
DrainAborts ==
  /\ pc = "store"
  /\ Abort("event")
  /\ skipped' = skipped \cup (todo .. tpos - 1)
  /\ todo' = tpos
  /\ UNCHANGED <<agentVars, diskVars, memVars, tpos, shown, refused, crashes>>

\* _try_send_voice comes before the queue ...
Speak ==
  /\ pc = "store" /\ todo \notin sentMem /\ Spoken(todo)
  /\ Appears(TextParts(todo))
  /\ pc' = "spoken"
  /\ UNCHANGED <<agentVars, diskVars, memVars, readVars, refused, skipped, faults, crashes>>

\* ... and when it fails for whatever reason, or seems to, the reply goes on as text.
SpeakFails ==
  /\ pc = "store" /\ todo \notin sentMem /\ Spoken(todo)
  /\ \/ UNCHANGED <<shown, faults>>
     \/ Fault("answer") /\ Appears(TextParts(todo))
  /\ pc' = "enqueue"
  /\ UNCHANGED <<agentVars, diskVars, memVars, readVars, refused, skipped, crashes>>

\* What _mark_sent answers is ignored here too.
MarkSpoken ==
  /\ pc = "spoken"
  /\ MarkSent(todo) \/ MarkSentFails(todo)
  /\ NextReply
  /\ UNCHANGED <<agentVars, box, dead, legacyDisk, legacy, carried, popped, tpos, histVars,
                 crashes>>

Stored(r) == {i \in DOMAIN box : box[i].reply = r}

\* Mutant of Enqueue: the key counts as sent as soon as the reply is stored.
EnqueueAndMark ==
  /\ Storing
  /\ box' = IF Stored(todo) = {} THEN Append(box, Record(todo, FilesNow)) ELSE box
  /\ carried' = <<>>
  /\ MarkSent(todo)
  /\ NextReply
  /\ UNCHANGED <<agentVars, dead, legacyDisk, legacy, popped, tpos, histVars, crashes>>

\* Mutant of Enqueue: no look for a pending record with the same key.
EnqueueAgain ==
  /\ Storing
  /\ box' = Append(box, Record(todo, FilesNow))
  /\ carried' = <<>>
  /\ NextReply
  /\ UNCHANGED <<agentVars, dead, sentDisk, legacyDisk, sentMem, legacy, popped, tpos,
                 histVars, faults, crashes>>

\* outbox.enqueue: a pending record with the same key and content is the reply itself.
Enqueue ==
  /\ Storing
  /\ \A i \in Stored(todo) : box[i].files = FilesNow
  /\ box' = IF Stored(todo) = {} THEN Append(box, Record(todo, FilesNow)) ELSE box
  /\ carried' = <<>>
  /\ NextReply
  /\ UNCHANGED <<agentVars, dead, sentDisk, legacyDisk, sentMem, legacy, popped, tpos,
                 histVars, faults, crashes>>

\* Mutant of EnqueueFails: the failure is logged and the reply is forgotten.
EnqueueFailureDropped ==
  /\ Storing
  /\ Fault("enqueue")
  /\ NextReply
  /\ UNCHANGED <<agentVars, diskVars, memVars, tpos, histVars, crashes>>

\* The key is pending with different content, or the write fails: the old path.
EnqueueFails ==
  /\ Storing
  /\ \/ Fault("enqueue")
     \/ (\E i \in Stored(todo) : box[i].files # FilesNow) /\ UNCHANGED faults
  /\ carried' = FilesNow
  /\ pc' = IF legacy = <<>> THEN "direct" ELSE "append"
  /\ UNCHANGED <<agentVars, diskVars, sentMem, legacy, popped, readVars, histVars, crashes>>

DirectSend ==
  /\ pc = "direct"
  /\ \/ Appears(TextParts(todo)) /\ pc' = "directmark" /\ UNCHANGED faults
     \/ /\ Fault("send")
        /\ \E ps \in Prefixes(todo) : Appears(ps)
        /\ pc' = "append"
  /\ UNCHANGED <<agentVars, diskVars, memVars, readVars, refused, skipped, crashes>>

LegacyAppend ==
  /\ pc = "append"
  /\ legacy' = Append(legacy, todo)
  /\ Persist
  /\ NextReply
  /\ UNCHANGED <<agentVars, box, dead, sentDisk, sentMem, carried, popped, tpos, histVars,
                 crashes>>

DirectMark ==
  /\ pc = "directmark"
  /\ MarkSent(todo) \/ MarkSentFails(todo)
  /\ pc' = "attachments"
  /\ UNCHANGED <<agentVars, box, dead, legacyDisk, legacy, carried, popped, readVars, histVars,
                 crashes>>

\* _flush_files: one try for each, what fails is reported.
FlushFiles ==
  /\ pc = "attachments"
  /\ \E failing \in SUBSET (Range(carried) \cap Flaky) :
       /\ Appears(Range(carried) \ failing)
       /\ refused' = refused \cup failing
  /\ carried' = <<>>
  /\ NextReply
  /\ UNCHANGED <<agentVars, diskVars, sentMem, legacy, popped, tpos, skipped, faults, crashes>>

-----------------------------------------------------------------------------
(* The process dies and is started again (_run_locked): memory comes from disk, and *)
(* the current turn is read once more, but only if anything was ever delivered.     *)

Resume == IF sentDisk = {} THEN written + 1 ELSE turnStart

Restart ==
  /\ crashes < MaxCrashes
  /\ crashes' = crashes + 1
  /\ sentMem' = sentDisk /\ legacy' = legacyDisk /\ carried' = <<>> /\ popped' = 0
  /\ tpos' = Resume /\ todo' = Resume
  /\ skipped' = skipped \cup
       {r \in (todo .. written) \cup (Range(legacy) \ Range(legacyDisk)) : r < Resume}
  /\ pc' = "flush"
  /\ UNCHANGED <<agentVars, diskVars, shown, refused, faults>>

FlushOutbox == \/ HeadOfQueue \/ SendPart \/ AnswerLost \/ ChunkFails \/ AttachmentFails
               \/ AttachmentRefused \/ ConfirmPart \/ CountAttempt \/ GiveUp
               \/ RecordDelivered \/ RemoveRecord
FlushLegacy == LegacySend \/ LegacyPop \/ LegacyMark
DrainTranscript == \/ Drain \/ DrainAborts \/ SkipSent \/ Speak \/ SpeakFails
                   \/ MarkSpoken \/ Enqueue \/ EnqueueFails \/ DirectSend \/ LegacyAppend \/ DirectMark \/ FlushFiles
Outbound == FlushOutbox \/ FlushLegacy \/ DrainTranscript

Next == AgentReplies \/ NewTurn \/ Outbound \/ Restart

Spec == Init /\ [][Next]_vars
=============================================================================
