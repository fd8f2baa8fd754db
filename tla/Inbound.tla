------------------------------- MODULE Inbound -------------------------------
(***************************************************************************)
(* Telegram -> session: how AttachBridge (attach.py) accepts an update,    *)
(* stores it in DurableInbox (durable.py), hands it to the session and     *)
(* forgets it.  Three threads share the state:                             *)
(*                                                                         *)
(*   poller    _inbound_loop: replays the backlog once, then long-polls    *)
(*             getUpdates, stores every update of the batch, saves the     *)
(*             offset, submits the record to the worker;                   *)
(*   worker    _inbound_worker_loop: takes records FIFO, runs _handle,     *)
(*             deletes the record or counts a failed attempt;              *)
(*   outbound  _outbound_loop: from its first cycle on it replays every    *)
(*             stored record that nobody has in flight.                    *)
(*                                                                         *)
(* The process may die between any two steps and start again from disk.    *)
(* An action is one step that other threads see as atomic: a store         *)
(* operation (under the RLock of the store), a section under the worker    *)
(* lock, or one access to the in-memory set of claims.                     *)
(*                                                                         *)
(* Left out: the "message received" acknowledgement between save and       *)
(* submit (it touches none of this state), updates without a numeric id    *)
(* and ids below the requested offset (Telegram sends neither), gaps in    *)
(* the ids, the content conflict of reserve (Telegram repeats an update    *)
(* unchanged) and the 90-day pruning of dead letters.                      *)
(***************************************************************************)
EXTENDS Integers, Sequences, Functions

CONSTANTS
  LastUpdate,     \* Telegram produces the updates 1 .. LastUpdate
  MaxAttempts,    \* INBOUND_MAX_ATTEMPTS
  LedgerLimit,    \* PROCESSED_UPDATE_LEDGER_LIMIT
  FaultKinds,     \* what may go wrong, subset of AllFaults
  MaxFaults,      \* how many operations fail in a behaviour
  MaxCrashes      \* how often the process dies in a behaviour

\* The disk operations that can fail; "tmux" is a send-keys that times out although the
\* keys arrived; "outage" allows the bridge to be down for longer than the retention.
AllFaults ==
  {"reserve", "offset", "ledger", "pending", "done", "fail", "move", "tmux", "outage"}

ASSUME ConstantsAssumption ==
  /\ LastUpdate \in Nat
  /\ MaxAttempts \in Nat \ {0}
  /\ LedgerLimit \in Nat \ {0}
  /\ FaultKinds \subseteq AllFaults
  /\ MaxFaults \in Nat
  /\ MaxCrashes \in Nat

Updates == 1 .. LastUpdate
Replayers == {"poller", "outbound"}
Stamps == Nat \X Updates          \* a record as replay sees it: created_ns, id

VARIABLES
  \* Telegram
  confirmed,      \* Telegram has forgotten every update below this offset
  \* disk
  disk,           \* per update: "none", "pending", or "dying" (status=dead, not yet moved)
  born,           \* created_ns of the record, as a logical time
  attempts,       \* failed attempts counted in the record
  dead,           \* updates with a dead-letter record
  offsetDisk, ledgerDisk,
  \* memory of the process
  offset,         \* the poller's local offset
  ledger,         \* _processed_update_order
  claims,         \* _inflight_ids
  queue,          \* _inbound_queue
  \* where the threads are
  ppc, cur, last, \* poller; the rest of its batch is cur .. last
  wpc, wcur,      \* worker and the record it has taken
  rpc, snap,      \* the two callers of _replay_pending_inbound and their snapshots
  \* bookkeeping of the model
  clock,          \* logical time of record creation
  handled,        \* how often the session has seen the update
  refused,        \* updates whose last reserve failed
  faults, crashes

diskVars == <<disk, born, attempts, dead, clock>>
offsetVars == <<offset, offsetDisk, ledger, ledgerDisk>>
memVars == <<claims, queue>>
pollVars == <<ppc, cur, last>>
workVars == <<wpc, wcur>>
replayVars == <<rpc, snap>>
histVars == <<handled, refused, crashes>>
vars == <<confirmed, diskVars, offsetVars, memVars, pollVars, workVars,
          replayVars, histVars, faults>>

MaxOf(a, b) == IF a > b THEN a ELSE b

Pending == {u \in Updates : disk[u] = "pending"}

\* An operation of kind k fails: every one of them can, within the budget.
Fault(k) ==
  /\ k \in FaultKinds
  /\ faults < MaxFaults
  /\ faults' = faults + 1

\* The store lock is held by the worker while it moves a record (_move_to_dead),
\* the worker lock while it deletes one and drops the claim (_inbound_done).
StoreFree == wpc # "bury"
WorkerLockFree == wpc # "release"

\* _maintain, run by every pending() and by the constructor: a record marked dead
\* whose move did not happen is moved now.
Dying == {u \in Updates : disk[u] = "dying"}
Maintain(expired) ==
  /\ disk' = [u \in Updates |-> IF u \in Dying \cup expired THEN "none" ELSE disk[u]]
  /\ dead' = dead \cup Dying \cup expired

Init ==
  /\ confirmed = 0
  /\ disk = [u \in Updates |-> "none"]
  /\ born = [u \in Updates |-> 0]
  /\ attempts = [u \in Updates |-> 0]
  /\ dead = {}
  /\ offsetDisk = 0 /\ offset = 0
  /\ ledgerDisk = <<>> /\ ledger = <<>>
  /\ claims = {} /\ queue = <<>>
  /\ ppc = "poll" /\ cur = 1 /\ last = 0
  /\ wpc = "idle" /\ wcur = 0
  /\ rpc = [t \in Replayers |-> "ready"]
  /\ snap = [t \in Replayers |-> {}]
  /\ clock = 0
  /\ handled = [u \in Updates |-> 0]
  /\ refused = {}
  /\ faults = 0 /\ crashes = 0

-----------------------------------------------------------------------------
(* The claim on a record: _submit_inbound_update, one section under the worker lock. *)

\* Mutant of Submit: a record that is already claimed is queued again.
SubmitIgnoringClaims(u) ==
  /\ WorkerLockFree /\ StoreFree
  /\ Maintain({})
  /\ IF disk[u] = "pending"
     THEN claims' = claims \cup {u} /\ queue' = Append(queue, u)
     ELSE UNCHANGED <<claims, queue>>

\* Mutant of Submit: the snapshot of the caller is trusted, the disk is not read again.
SubmitStaleSnapshot(u) ==
  /\ WorkerLockFree /\ StoreFree
  /\ IF u \in claims
     THEN UNCHANGED <<claims, queue>>
     ELSE claims' = claims \cup {u} /\ queue' = Append(queue, u)
  /\ UNCHANGED <<disk, dead>>

\* The record is queued only if nobody has it in flight and it is still pending on
\* disk; the look at the disk is a pending(), so it runs the maintenance too.
Submit(u) ==
  /\ WorkerLockFree /\ StoreFree
  /\ IF u \in claims
     THEN UNCHANGED <<claims, queue, disk, dead>>
     ELSE /\ Maintain({})
          /\ IF disk[u] = "pending"
             THEN claims' = claims \cup {u} /\ queue' = Append(queue, u)
             ELSE UNCHANGED <<claims, queue>>

\* The look at the disk raises (only reached when the record is not claimed).
SubmitFails(u) ==
  /\ WorkerLockFree /\ StoreFree
  /\ u \notin claims
  /\ Fault("pending")

-----------------------------------------------------------------------------
(* Poller *)

\* Mutant of NextOffset: off by one.
NextOffsetTooFar == MaxOf(offset, cur + 2)

NextOffset == MaxOf(offset, cur + 1)

\* Mutant of Advance: one step past the end of the batch.
AdvancePastBatch ==
  IF cur <= last THEN cur' = cur + 1 /\ last' = last /\ ppc' = "take"
                 ELSE cur' = 1 /\ last' = 0 /\ ppc' = "poll"

Advance ==
  IF cur < last THEN cur' = cur + 1 /\ last' = last /\ ppc' = "take"
                ELSE cur' = 1 /\ last' = 0 /\ ppc' = "poll"

\* Telegram forgets everything below the requested offset and returns a prefix of
\* what it holds; it may have nothing yet, or the answer may be lost.
GetUpdates ==
  /\ ppc = "poll" /\ rpc["poller"] = "done"
  /\ confirmed' = MaxOf(confirmed, offset)
  /\ \/ UNCHANGED pollVars
     \/ \E n \in MaxOf(1, confirmed') .. LastUpdate :
          /\ cur' = MaxOf(1, confirmed') /\ last' = n
          /\ ppc' = "take"
  /\ UNCHANGED <<diskVars, offsetVars, memVars, workVars, replayVars, histVars, faults>>

\* An update the ledger knows only moves the offset.
SkipProcessed ==
  /\ ppc = "take" /\ cur \in Range(ledger)
  /\ offset' = NextOffset
  /\ \/ offsetDisk' = NextOffset /\ UNCHANGED faults
     \/ Fault("offset") /\ UNCHANGED offsetDisk
  /\ Advance
  /\ UNCHANGED <<confirmed, diskVars, ledger, ledgerDisk, memVars, workVars,
                 replayVars, histVars>>

\* inbox.reserve: idempotent while a record of this id is on disk.
Reserve ==
  /\ ppc = "take" /\ cur \notin Range(ledger)
  /\ StoreFree
  /\ IF disk[cur] = "none"
     THEN /\ disk' = [disk EXCEPT ![cur] = "pending"]
          /\ attempts' = [attempts EXCEPT ![cur] = 0]
          /\ born' = [born EXCEPT ![cur] = clock + 1]
          /\ clock' = clock + 1
     ELSE UNCHANGED <<disk, attempts, born, clock>>
  /\ refused' = refused \ {cur}
  /\ ppc' = "save"
  /\ UNCHANGED <<confirmed, dead, offsetVars, memVars, cur, last, workVars, replayVars,
                 handled, crashes, faults>>

\* The write fails (or the store cannot be opened): the offset stays where it is, and
\* the loop goes on with the next update of the batch.
ReserveFails ==
  /\ ppc = "take" /\ cur \notin Range(ledger)
  /\ StoreFree /\ disk[cur] = "none"
  /\ Fault("reserve")
  /\ refused' = refused \cup {cur}
  /\ Advance
  /\ UNCHANGED <<confirmed, diskVars, offsetVars, memVars, workVars, replayVars,
                 handled, crashes>>

SaveOffset ==
  /\ ppc = "save"
  /\ \/ offsetDisk' = NextOffset /\ UNCHANGED faults
     \/ Fault("offset") /\ UNCHANGED offsetDisk
  /\ ppc' = "submit"
  /\ UNCHANGED <<confirmed, diskVars, offset, ledger, ledgerDisk, memVars, cur, last,
                 workVars, replayVars, histVars>>

PollerSubmit ==
  /\ ppc = "submit"
  /\ Submit(cur)
  /\ ppc' = "mark"
  /\ UNCHANGED <<confirmed, born, attempts, clock, offsetVars, cur, last, workVars,
                 replayVars, histVars, faults>>

\* The exception leaves _handle_update_once before the new offset is returned.
PollerSubmitFails ==
  /\ ppc = "submit"
  /\ SubmitFails(cur)
  /\ Advance
  /\ UNCHANGED <<confirmed, diskVars, offsetVars, memVars, workVars, replayVars, histVars>>

\* _mark_update_processed, then the return of the new offset to the loop.
MarkProcessed ==
  LET longer == Append(ledger, cur) IN
  /\ ppc = "mark"
  /\ ledger' = IF Len(longer) > LedgerLimit THEN Tail(longer) ELSE longer
  /\ \/ ledgerDisk' = ledger' /\ UNCHANGED faults
     \/ Fault("ledger") /\ UNCHANGED ledgerDisk
  /\ offset' = NextOffset
  /\ Advance
  /\ UNCHANGED <<confirmed, diskVars, offsetDisk, memVars, workVars, replayVars, histVars>>

-----------------------------------------------------------------------------
(* Replay, by the poller once at startup and by the outbound thread again and again *)

\* The poller goes on to long-polling, the outbound thread will come back.
Finished(t) == IF t = "poller" THEN "done" ELSE "ready"

ReplaySnapshot(t) ==
  /\ rpc[t] = "ready"
  /\ StoreFree
  /\ \/ /\ Maintain({})
        /\ snap' = [snap EXCEPT ![t] = {<<born[u], u>> : u \in Pending}]
        /\ rpc' = [rpc EXCEPT ![t] = IF Pending = {} THEN Finished(t) ELSE "filter"]
        /\ UNCHANGED faults
     \/ /\ Fault("pending")
        /\ rpc' = [rpc EXCEPT ![t] = Finished(t)]
        /\ UNCHANGED <<snap, disk, dead>>
  /\ UNCHANGED <<confirmed, born, attempts, clock, offsetVars, memVars, pollVars, workVars,
                 histVars>>

\* The claims are read without the worker lock.
ReplayFilter(t) ==
  LET waiting == {r \in snap[t] : r[2] \notin claims} IN
  /\ rpc[t] = "filter"
  /\ snap' = [snap EXCEPT ![t] = waiting]
  /\ rpc' = [rpc EXCEPT ![t] = IF waiting = {} THEN Finished(t) ELSE "submit"]
  /\ UNCHANGED <<confirmed, diskVars, offsetVars, memVars, pollVars, workVars, histVars,
                 faults>>

\* Mutant of Before: newest first.
NewestFirst(r, s) == r[1] > s[1] \/ (r[1] = s[1] /\ r[2] >= s[2])

\* Oldest first, as pending() sorts them.
Before(r, s) == r[1] < s[1] \/ (r[1] = s[1] /\ r[2] <= s[2])

ReplaySubmit(t) ==
  /\ rpc[t] = "submit"
  /\ \E r \in snap[t] :
       /\ \A s \in snap[t] : Before(r, s)
       /\ Submit(r[2])
       /\ snap' = [snap EXCEPT ![t] = @ \ {r}]
  /\ rpc' = [rpc EXCEPT ![t] = IF snap'[t] = {} THEN Finished(t) ELSE "submit"]
  /\ UNCHANGED <<confirmed, born, attempts, clock, offsetVars, pollVars, workVars, histVars,
                 faults>>

\* The exception ends this round; the outbound loop logs it and comes back.  (In the
\* poller's startup replay it ends the process, which Restart covers.)
ReplaySubmitFails ==
  /\ rpc["outbound"] = "submit"
  /\ \E r \in snap["outbound"] :
       /\ \A s \in snap["outbound"] : Before(r, s)
       /\ SubmitFails(r[2])
  /\ snap' = [snap EXCEPT !["outbound"] = {}]
  /\ rpc' = [rpc EXCEPT !["outbound"] = "ready"]
  /\ UNCHANGED <<confirmed, diskVars, offsetVars, memVars, pollVars, workVars, histVars>>

-----------------------------------------------------------------------------
(* Worker *)

Rest == wpc' = "idle" /\ wcur' = 0

Take ==
  /\ wpc = "idle" /\ queue # <<>>
  /\ wcur' = Head(queue) /\ queue' = Tail(queue)
  /\ wpc' = "handle"
  /\ UNCHANGED <<confirmed, diskVars, offsetVars, claims, pollVars, replayVars, histVars,
                 faults>>

\* _handle returns anything but False: the session saw the message, or there was
\* nothing to do for it.
HandleDelivers ==
  /\ wpc = "handle"
  /\ handled' = [handled EXCEPT ![wcur] = @ + 1]
  /\ wpc' = "delete"
  /\ UNCHANGED <<confirmed, diskVars, offsetVars, memVars, pollVars, wcur, replayVars,
                 refused, crashes, faults>>

\* An attempt of _inject times out after the session got the text; _inject tries again or
\* gives up (HandleDelivers, HandleFails).
InjectTimesOut ==
  /\ wpc = "handle"
  /\ Fault("tmux")
  /\ handled' = [handled EXCEPT ![wcur] = @ + 1]
  /\ UNCHANGED <<confirmed, diskVars, offsetVars, memVars, pollVars, workVars, replayVars,
                 refused, crashes>>

\* Mutant of HandleFails: the False that _handle returned is ignored.
HandleFailureIgnored ==
  /\ wpc = "handle"
  /\ wpc' = "delete"
  /\ UNCHANGED <<confirmed, diskVars, offsetVars, memVars, pollVars, wcur, replayVars,
                 histVars, faults>>

\* _handle returns False or raises.
HandleFails ==
  /\ wpc = "handle"
  /\ wpc' = "unclaim"
  /\ UNCHANGED <<confirmed, diskVars, offsetVars, memVars, pollVars, wcur, replayVars,
                 histVars, faults>>

\* _complete_inbound_record under the worker lock: first the record, then the claim,
\* and the claim also when the deletion failed.
DeleteRecord ==
  /\ wpc = "delete"
  /\ \/ disk' = [disk EXCEPT ![wcur] = "none"] /\ UNCHANGED faults
     \/ Fault("done") /\ UNCHANGED disk
  /\ wpc' = "release"
  /\ UNCHANGED <<confirmed, born, attempts, dead, clock, offsetVars, memVars, pollVars, wcur,
                 replayVars, histVars>>

ReleaseClaim ==
  /\ wpc = "release"
  /\ claims' = claims \ {wcur}
  /\ Rest
  /\ UNCHANGED <<confirmed, diskVars, offsetVars, queue, pollVars, replayVars, histVars,
                 faults>>

\* Mutant of Unclaim: the claim of a failed record is kept.
UnclaimForgotten ==
  /\ wpc = "unclaim"
  /\ wpc' = "count"
  /\ UNCHANGED <<confirmed, diskVars, offsetVars, memVars, pollVars, wcur, replayVars,
                 histVars, faults>>

\* _inbound_failed: the claim goes first and without the lock ...
Unclaim ==
  /\ wpc = "unclaim"
  /\ claims' = claims \ {wcur}
  /\ wpc' = "count"
  /\ UNCHANGED <<confirmed, diskVars, offsetVars, queue, pollVars, wcur, replayVars, histVars,
                 faults>>

\* Mutant of CountFailure: one attempt too few.
CountFailureOffByOne ==
  /\ wpc = "count"
  /\ disk[wcur] = "pending"
  /\ attempts' = [attempts EXCEPT ![wcur] = @ + 1]
  /\ IF attempts'[wcur] + 1 >= MaxAttempts
     THEN wpc' = "giveup" /\ wcur' = wcur
     ELSE Rest
  /\ UNCHANGED <<confirmed, disk, born, dead, clock, offsetVars, memVars, pollVars,
                 replayVars, histVars, faults>>

\* ... then inbox.fail counts the attempt, unless the record is gone or the write fails.
CountFailure ==
  /\ wpc = "count"
  /\ \/ /\ disk[wcur] = "pending"
        /\ attempts' = [attempts EXCEPT ![wcur] = @ + 1]
        /\ IF attempts'[wcur] >= MaxAttempts
           THEN wpc' = "giveup" /\ wcur' = wcur
           ELSE Rest
        /\ UNCHANGED faults
     \/ /\ disk[wcur] # "pending"
        /\ Rest
        /\ UNCHANGED <<attempts, faults>>
     \/ /\ disk[wcur] = "pending"
        /\ Fault("fail")
        /\ Rest
        /\ UNCHANGED attempts
  /\ UNCHANGED <<confirmed, disk, born, dead, clock, offsetVars, memVars, pollVars,
                 replayVars, histVars>>

\* _move_to_dead: status=dead is written in place, then the file moves.
GiveUp ==
  /\ wpc = "giveup"
  /\ \/ /\ disk' = [disk EXCEPT ![wcur] = "dying"]
        /\ wpc' = "bury" /\ wcur' = wcur
        /\ UNCHANGED faults
     \/ /\ Fault("fail")
        /\ Rest
        /\ UNCHANGED disk
  /\ UNCHANGED <<confirmed, born, attempts, dead, clock, offsetVars, memVars, pollVars,
                 replayVars, histVars>>

Bury ==
  /\ wpc = "bury"
  /\ \/ /\ disk' = [disk EXCEPT ![wcur] = "none"]
        /\ dead' = dead \cup {wcur}
        /\ UNCHANGED faults
     \/ /\ Fault("move")
        /\ UNCHANGED <<disk, dead>>
  /\ Rest
  /\ UNCHANGED <<confirmed, born, attempts, clock, offsetVars, memVars, pollVars,
                 replayVars, histVars>>

-----------------------------------------------------------------------------
(* The process dies and is started again: memory is lost, the store runs its *)
(* maintenance, and records the bridge slept over for 30 days are buried.    *)

Restart ==
  /\ crashes < MaxCrashes
  /\ crashes' = crashes + 1
  /\ \E expired \in SUBSET Pending :
       /\ expired = {} \/ "outage" \in FaultKinds
       /\ Maintain(expired)
  /\ offset' = offsetDisk /\ ledger' = ledgerDisk
  /\ claims' = {} /\ queue' = <<>>
  /\ ppc' = "poll" /\ cur' = 1 /\ last' = 0
  /\ wpc' = "idle" /\ wcur' = 0
  /\ rpc' = [t \in Replayers |-> "ready"]
  /\ snap' = [t \in Replayers |-> {}]
  /\ UNCHANGED <<confirmed, born, attempts, clock, offsetDisk, ledgerDisk, handled, refused,
                 faults>>

Poller == \/ GetUpdates \/ SkipProcessed \/ Reserve \/ ReserveFails \/ SaveOffset
          \/ PollerSubmit \/ PollerSubmitFails \/ MarkProcessed
Replay(t) == ReplaySnapshot(t) \/ ReplayFilter(t) \/ ReplaySubmit(t)
Worker == \/ Take \/ InjectTimesOut \/ HandleDelivers \/ HandleFails \/ DeleteRecord
          \/ ReleaseClaim \/ Unclaim \/ CountFailure \/ GiveUp \/ Bury

Next ==
  \/ Poller
  \/ \E t \in Replayers : Replay(t)
  \/ ReplaySubmitFails
  \/ Worker
  \/ Restart

Spec == Init /\ [][Next]_vars
=============================================================================
