-------------------------- MODULE OutboxProperties ---------------------------
(***************************************************************************)
(* What must hold of Outbox.tla.                                           *)
(***************************************************************************)
EXTENDS Outbox

\* Every variable has its type; shown and the attempts of a record count without a bound.
Records ==
  [reply : Replies, sent : Nat, files : Seq(Parts), filesSent : Nat, attempts : Nat]
AgentTypes ==
  /\ written \in 0 .. LastReply /\ turnStart \in 1 .. LastReply + 1
  /\ turnStart <= written + 1
DiskTypes ==
  /\ box \in Seq(Records)
  /\ \A i \in DOMAIN box :
       box[i].sent <= Chunks[box[i].reply] /\ box[i].filesSent <= Len(box[i].files)
  /\ dead \in SUBSET Replies
  /\ sentDisk \in SUBSET Replies
  /\ legacyDisk \in Seq(Replies)
MemoryTypes ==
  /\ sentMem \in SUBSET Replies
  /\ legacy \in Seq(Replies)
  /\ carried \in Seq(Parts)
  /\ popped \in 0 .. LastReply
ReadTypes ==
  /\ tpos \in Nat /\ todo \in Nat
  /\ 1 <= todo /\ todo <= tpos /\ tpos <= written + 1
  /\ pc \in {"flush", "send", "confirm", "count", "giveup", "done", "legacy", "pop",
             "popped", "drain", "store", "spoken", "enqueue", "direct", "append",
             "directmark", "attachments"}
HistoryTypes ==
  /\ shown \in [Parts -> Nat]
  /\ refused \in SUBSET Parts /\ skipped \in SUBSET Replies
  /\ faults \in 0 .. MaxFaults /\ crashes \in 0 .. MaxCrashes
TypeOK == AgentTypes /\ DiskTypes /\ MemoryTypes /\ ReadTypes /\ HistoryTypes

-----------------------------------------------------------------------------
(* Safety *)

TextShown(r) == \A p \in TextParts(r) : shown[p] > 0

\* A reply the bridge is past is in a queue on disk or in memory, was shown, or lies in
\* the dead-letter directory ("a reply is never silently dropped", _handle_event) --
\* unless it was dropped before it was stored: by a restart that does not read it again,
\* with an old queue whose file could not be written, or by an exception in the middle of
\* what was read, which the position is already past.
NoReplyLost ==
  \A r \in 1 .. todo - 1 :
    \/ Stored(r) # {}
    \/ r \in Range(legacy)
    \/ TextShown(r)
    \/ r \in dead \cup skipped

\* A key is in the ledger, in memory or on disk, only if the whole text was shown: the
\* ledger is what keeps a reply from being sent again, so a key that is there too early
\* loses the reply ("Marks the dedup ledger only AFTER a confirmed send", _send_final).
LedgerMeansDelivered == \A r \in sentMem \cup sentDisk : TextShown(r)

\* Without voice replies, and as long as the outbox takes every reply, nothing goes
\* another way than through the outbox.
Plain == ~VoiceMode /\ "enqueue" \notin FaultKinds

\* The chat sees the replies, their chunks and their attachments in the order they were
\* written ("Deliver the queue FIFO, stopping at the first failure to preserve order",
\* _flush_pending), also across restarts.  A later part appears first only if the earlier
\* one was reported as not sent, buried, or dropped.  Voice notes and a failing enqueue
\* break this (see OrderIsPreserved).
Precedes(p, q) == p[1] < q[1] \/ (p[1] = q[1] /\ p[2] < q[2])
InOrder ==
  Plain =>
    \A p, q \in Parts :
      Precedes(p, q) /\ shown[q] > 0 =>
        shown[p] > 0 \/ p \in refused \/ p[1] \in dead \cup skipped

\* Delivery is at-least-once, and every repetition has a cause of its own: a part appears
\* once more for a failed operation, and once more for a crash.  Twice for a crash when the
\* part waits in two places: it is sent again from the outbox or the old queue, and its
\* reply, which is not in the ledger, is read and stored again.  On the plain path the
\* outbox recognizes the reply by its key (enqueue), unless its record was buried meanwhile.
RepeatsHaveCauses ==
  \A p \in Parts :
    shown[p] <= 1 + faults
                + (IF Plain /\ p[1] \notin dead THEN crashes ELSE 2 * crashes)

-----------------------------------------------------------------------------
(* Why nothing is lost and nothing is marked too early: what the place of the thread says *)
(* about the head of the queues and about the reply at hand, and that every confirmed     *)
(* chunk was shown.                                                                       *)

RecordPlaces == {"send", "confirm", "count", "giveup", "done"}
HandlingPlaces ==
  {"store", "spoken", "enqueue", "direct", "append", "directmark", "attachments"}
PlacesOK ==
  /\ pc \in RecordPlaces => box # <<>>
  /\ pc = "confirm" => ~Complete(Rec)
  /\ pc = "count" => ~TextLeft(Rec) /\ ~Complete(Rec)
  /\ pc = "done" => Complete(Rec)
  /\ pc = "pop" => legacy # <<>>
  /\ pc = "popped" => popped \in Replies
  /\ pc \in HandlingPlaces => todo < tpos
  /\ pc \notin HandlingPlaces => todo = tpos

ConfirmedShown ==
  \A i \in DOMAIN box : \A k \in 1 .. box[i].sent : shown[<<box[i].reply, k>>] > 0
PlaceShown ==
  /\ pc = "confirm" /\ TextLeft(Rec) => shown[NextPart(Rec)] > 0
  /\ pc = "pop" => TextShown(Head(legacy))
  /\ pc = "popped" => TextShown(popped)
  /\ pc \in {"spoken", "directmark", "attachments"} => TextShown(todo)

DeliveryInv ==
  /\ TypeOK /\ PlacesOK
  /\ ConfirmedShown /\ PlaceShown /\ LedgerMeansDelivered /\ NoReplyLost

-----------------------------------------------------------------------------
(* Liveness *)

\* The outbound loop catches every exception and comes back after OUTBOUND_TICK.
FairSpec == Spec /\ WF_vars(Outbound)

\* Every reply of the agent is eventually shown, buried, or was dropped before it was
\* stored; an attachment that fails again and again does not block the queue.  (A text
\* that Telegram refuses for ever would: the failures of texts are bounded here.)
EveryReplySettles ==
  \A r \in Replies : r <= written ~> TextShown(r) \/ r \in dead \cup skipped

-----------------------------------------------------------------------------
(* What the code promises and does not keep *)

\* "Order is preserved: if anything is already queued, this appends behind it"
\* (_send_final): with nothing failing and no restart, replies appear in their order.
OrderIsPreserved ==
  faults = 0 /\ crashes = 0 =>
    \A r, s \in Replies :
      r < s /\ (\E p \in TextParts(s) : shown[p] > 0) =>
        TextShown(r) \/ r \in dead

\* "The ledger write failed -> the record STAYS in the queue" (_flush_pending): the
\* record of a delivered reply goes only once its key is on disk.
LedgerFailureKeepsRecord == \A r \in sentMem \ sentDisk : Stored(r) # {}
=============================================================================
