-------------------------- MODULE InboundProperties --------------------------
(***************************************************************************)
(* What must hold of Inbound.tla.                                          *)
(***************************************************************************)
EXTENDS Inbound

WorkerPlaces == {"idle", "handle", "delete", "release", "unclaim", "count", "giveup", "bury"}

\* Every variable has its type.  The stamps of the records and of the snapshots are
\* logical times, attempts and handled are counters without a fixed bound.
DiskTypes ==
  /\ disk \in [Updates -> {"none", "pending", "dying"}]
  /\ born \in [Updates -> Nat]
  /\ attempts \in [Updates -> Nat]
  /\ dead \in SUBSET Updates
  /\ clock \in Nat
LedgerTypes ==
  /\ ledger \in Seq(Updates) /\ ledgerDisk \in Seq(Updates)
PollerTypes ==
  /\ confirmed \in Nat /\ offset \in Nat /\ offsetDisk \in Nat
  /\ ppc \in {"poll", "take", "save", "submit", "mark"}
  /\ cur \in Nat \ {0} /\ last \in 0 .. LastUpdate
  /\ ppc # "poll" => cur <= last
WorkerTypes ==
  /\ claims \in SUBSET Updates
  /\ queue \in Seq(Updates)
  /\ wpc \in WorkerPlaces
  /\ wpc = "idle" => wcur = 0
  /\ wpc # "idle" => wcur \in Updates
ReplayTypes ==
  /\ rpc \in [Replayers -> {"ready", "filter", "submit", "done"}]
  /\ snap \in [Replayers -> SUBSET Stamps]
HistoryTypes ==
  /\ handled \in [Updates -> Nat]
  /\ refused \in SUBSET Updates
  /\ faults \in Nat /\ crashes \in Nat
TypeOK ==
  DiskTypes /\ LedgerTypes /\ PollerTypes /\ WorkerTypes /\ ReplayTypes /\ HistoryTypes

-----------------------------------------------------------------------------
(* Safety *)

Accounted(u) == disk[u] # "none" \/ u \in dead \/ handled[u] > 0

\* An update Telegram has been told to forget is on disk, in the dead-letter directory
\* or was handled -- through any interleaving, crash and failing disk operation -- unless
\* its last write failed (_handle_update_once: "write to disk first, ACK only after").
ConfirmedAccounted ==
  \A u \in Updates : u < confirmed => Accounted(u) \/ u \in refused

\* The claim set is the set of records in circulation: everything claimed is in the
\* queue or with the worker (a leaked claim would never be retried), and nothing
\* circulates twice (a second copy would reach the session a second time).  The claim is
\* dropped before the failed attempt is counted, so the worker does not own it then.
HeldByWorker ==
  IF wpc \in {"handle", "delete", "release", "unclaim"} THEN {wcur} ELSE {}
ClaimsCirculateOnce ==
  /\ claims = Range(queue) \cup HeldByWorker
  /\ Range(queue) \cap HeldByWorker = {}
  /\ \A i, j \in DOMAIN queue : queue[i] = queue[j] => i = j

\* Without a crash and without a failing operation no message reaches the session twice,
\* however the poller, the worker and the two replays interleave (InboundDoneOrderingTests;
\* "the user would receive it twice", _inbound_inflight).
NoDoubleDelivery ==
  crashes = 0 /\ faults = 0 => \A u \in Updates : handled[u] <= 1

\* Messages reach the session in the order they were sent, also across restarts: an
\* update is handled before an earlier one only when that one has already failed once,
\* was given up, or was refused ("FIFO ... preserving message order for the owner",
\* _inbound_worker_loop).
FifoDelivery ==
  faults = 0 =>
    \A u, v \in Updates :
      v < u /\ handled[u] > 0 =>
        handled[v] > 0 \/ v \in dead \/ attempts[v] > 0

\* While the process runs, a record is buried only after MaxAttempts failed attempts
\* (INBOUND_MAX_ATTEMPTS); a restart may also bury what 30 days of downtime expired.
BuriedAfterAllAttempts ==
  [][\A u \in dead' \ dead : attempts[u] >= MaxAttempts \/ crashes' # crashes]_vars

-----------------------------------------------------------------------------
(* The contract *)

Custody == INSTANCE UpdateCustody WITH
  held <- {u \in Updates : u >= confirmed},
  kept <- {u \in Updates : disk[u] # "none"},
  handled <- {u \in Updates : handled[u] > 0},
  buried <- dead

\* Every behaviour of the threads, crashes included, keeps the custody contract.
KeepsCustody == Custody!CustodySpec

\* Why the contract holds: every offset the bridge knows lies behind settled updates, the
\* poller has settled what precedes its place in the batch, and whatever is in memory is
\* accounted for outside it, so that losing the memory loses nothing.
Settled(u) == Accounted(u) \/ u \in refused
OffsetsSettled ==
  \A u \in Updates : u < confirmed \/ u < offset \/ u < offsetDisk => Settled(u)
BatchSettled ==
  ppc # "poll" => confirmed <= cur /\ \A u \in Updates : u < cur => Settled(u)
CurrentStored == ppc \in {"save", "submit", "mark"} => Accounted(cur)
LedgersAccounted ==
  /\ \A i \in DOMAIN ledger : Accounted(ledger[i])
  /\ \A i \in DOMAIN ledgerDisk : Accounted(ledgerDisk[i])
CirculationAccounted ==
  /\ \A i \in DOMAIN queue : Accounted(queue[i])
  /\ wpc # "idle" => Accounted(wcur)
WorkerKnowsRecord ==
  /\ wpc = "delete" => handled[wcur] > 0
  /\ wpc = "giveup" => disk[wcur] = "pending"
  /\ wpc = "bury" => disk[wcur] = "dying"
CustodyInv ==
  /\ OffsetsSettled /\ BatchSettled /\ CurrentStored
  /\ LedgersAccounted /\ CirculationAccounted /\ WorkerKnowsRecord

-----------------------------------------------------------------------------
(* Liveness *)

\* Each thread keeps running while it can: the loops of the poller, the worker and the
\* outbound thread catch every exception and come back.
FairSpec ==
  /\ Spec
  /\ WF_vars(Poller)
  /\ WF_vars(Worker)
  /\ \A t \in Replayers : WF_vars(Replay(t))

\* Every update Telegram holds is eventually handled, buried, or refused by a failing
\* disk; in particular a record that failed, or whose submission failed, is retried.
EveryUpdateSettles ==
  \A u \in Updates : <>(handled[u] > 0 \/ u \in dead \/ u \in refused)

-----------------------------------------------------------------------------
(* What the code promises and does not keep *)

\* "If the write fails the offset does NOT advance and Telegram resends the message --
\* better twice than never" (_handle_update_once): nothing confirmed is ever lost.
ConfirmedNeverLost == \A u \in Updates : u < confirmed => Accounted(u)

\* A record in the dead-letter directory is one that "could not be delivered"
\* (_inbound_failed): with no crash and no failing operation it never reached the session.
DeadLetterWasNotDelivered ==
  crashes = 0 /\ faults = 0 => \A u \in dead : handled[u] = 0
=============================================================================
