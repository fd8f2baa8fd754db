# A TLA+ verification of Agent2Telegram

Agent2Telegram connects a Telegram chat with a coding agent that runs in a tmux pane. This
directory holds TLA+ models of its message paths, the TLC configurations that check them, and
theorems about them checked by TLAPS. All source paths are below `src/agent2telegram/`.

## 1. The system

| part | source | state it keeps | operations |
|---|---|---|---|
| inbound path | `attach.py` | offset, ledger of processed updates, in-flight claims, FIFO of records | poll, reserve, submit, replay, handle, complete, fail |
| durable inbox / outbox | `durable.py` | one JSON file per record, a dead-letter directory | reserve/enqueue, pending/head, mark part sent, done, fail, give up, maintenance |
| outbound path | `attach.py` | transcript position, ledger of delivered keys, the old queue, waiting attachments | drain, send final, flush, mark sent |
| turn | `attach.py`, `stop_hook.py` | active flag, origin, "text sent", end-of-turn marker, current chat | begin, inject, end, backstop, wait for a chat switch |
| status bubble, typing | `attach.py` | message id of the bubble, its file | push, clear, expire, clean up an orphan |
| readers | `readers.py` | two windows of recent hashes (Codex) | parse a transcript record |
| background watcher | `background.py` | known sub-agent files and their positions | scan, report |
| session | `session.py` | none (tmux) | check the pane, send keys |
| one-shot bridge | `bridge.py` | offset, a worker and a queue per chat | dispatch, process, reset |
| Telegram client | `telegram.py` | none | call with retries, flood control, splitting |
| instance lock, restart notice, updater | `compat.py`, `notices.py`, `updater.py`, `service.py` | lock files, marker of the last notice | start, claim, send; select, pull, install, recheck, replace, probe |
| hook registration | `claude_hooks.py` | the agent's settings file | read-modify-replace |
| configuration, wizard, services, self-test, speech, redaction | the other modules | none shared with the running bridge | sequential I/O and text functions |

**Interaction.** In attach mode one process runs four threads over shared memory: the *poller*
(`_inbound_loop`, the main thread), the *inbound worker*, the *outbound loop* and a typing loop (plus
a screen scraper for Codex and a watcher for sub-agents). The poller hands records to the worker
through a queue; the worker talks to tmux; the agent writes its transcript; the outbound loop reads
the transcript and talks to Telegram, and also replays undelivered inbound records. Everything that
must survive lives in small files written one by one.

**What is hard.** The three threads meet over the claim set and the records; a record, the offset and
the two ledgers are separate files, so a crash or a failing write between any two of them leaves them
in disagreement; Telegram answers can be lost after the message was shown; the process restarts and
reads part of the transcript again; turn boundaries are inferred from late signals.
The concrete places are the `hazards` of `PROJECT.json`.

**What correct means**, part by part:

* inbound: a message Telegram has forgotten is on disk, delivered or dead-lettered; order is kept;
  without failures it is delivered once; every message settles;
* outbound: a reply is not lost, its parts appear in order, a repetition has a cause, one bad
  attachment does not block the others, the ledger never runs ahead of the delivery;
* stores: a record changes in one atomic step, and an interrupted move is finished;
* turn: a reply goes to the chat its turn came from, and no Telegram turn ends unanswered;
* progress messages: none is left behind without a cause, none takes a reply with it, who works is listed;
* one-shot bridge: tasks of a chat run in order, none is confirmed that nobody took, `/reset` separates;
* supervision: one poller per bot, old code is not stopped before new code is there, notices are rare.

## 2. Structure

| component | model | properties | instance | proofs |
|---|---|---|---|---|
| inbound path, durable inbox | `Inbound`, contract `UpdateCustody` | `InboundProperties` | `MCInbound` | `InboundProofs` |
| outbound path, durable outbox | `Outbox` | `OutboxProperties` | `MCOutbox` | `OutboxProofs` |
| turns: worker x outbound loop x session | `Turn` | `TurnProperties` | `MCTurn` | `TurnProofs` |
| status bubble, sub-agent list | `StatusBubble`, `SubagentWatcher`, joined by `Progress` | `ProgressProperties` | `MCProgress` | `ProgressProofs` |
| one-shot bridge | `OneShotBridge` | `OneShotProperties` | `MCOneShot` | `OneShotProofs`, `OneShotOrderProofs` |
| lock, notice, service manager, updater | `Supervision` | `SupervisionProperties` | `MCSupervision` | `SupervisionProofs`, `SupervisionUpdateProofs` |

The models meet at named borders: `Inbound` hands a message to the session in one step that succeeds
or fails, which `Turn` takes apart; `Turn` stores an answer in one step, and what happens to it then
is `Outbox`. Left for later: a delivery contract refined by `Outbox`, a store with its limits, two
senders over the old queue.

## 3. Modules

### Inbound

`Inbound.tla` follows one update from `getUpdates` to the session. An action is a step other threads
see as atomic: a store operation (the store's lock), a section under the worker lock, one access to
the claim set. The `pc` variables are places in `_handle_update_once` (`ppc`), in
`_inbound_worker_loop` and what it calls (`wpc`) and in `_replay_pending_inbound` for each of its two
callers (`rpc`).

| variables | code |
|---|---|
| `disk`, `born`, `attempts`, `dead` | the inbox records, their `created_ns`, their counter, `dead-letter/`; `"dying"` is status=dead not yet moved |
| `offset`, `offsetDisk`, `ledger`, `ledgerDisk` | local offset, `offset` file, `_processed_update_order`, `processed_updates` file |
| `claims`, `queue` | `_inflight_ids`, `_inbound_queue` |
| `confirmed`, `handled`, `refused` | history: what Telegram forgot, how often the session saw an update, whose last write failed |

Poller: `GetUpdates`, `SkipProcessed`, `Reserve`/`ReserveFails`, `SaveOffset`, `PollerSubmit[Fails]`,
`MarkProcessed`. Replay: `ReplaySnapshot`, `ReplayFilter` (without the lock, as in the code),
`ReplaySubmit[Fails]`. Worker: `Take`, `InjectTimesOut`, `HandleDelivers`/`HandleFails`,
`DeleteRecord`, `ReleaseClaim`, `Unclaim`, `CountFailure`, `GiveUp`, `Bury`. `Restart` is a crash at any
point followed by the start-up loads.

`UpdateCustody.tla` is the contract: Telegram may be told to forget an update only when the bridge
keeps it, has delivered it or has buried it, or when its write failed. `InboundProperties!KeepsCustody`
instantiates it with `held`, `kept`, `handled`, `buried` computed from the detailed state.

### Outbox

`Outbox.tla` follows one reply from the transcript to the chat. One thread acts; the difficulty is in
the failures. The program counter `pc` walks through a cycle of `_outbound_loop`: `flush`, `send`,
`confirm`, `count`, `giveup`, `done` (the durable outbox), `legacy`, `pop`, `popped` (the old
in-memory queue), `drain`, `store`, `spoken`, `enqueue`, `direct`, `append`, `directmark`,
`attachments` (`_drain_transcript` and `_send_final`). A reply is a number, its parts are its text
chunks followed by its attachments; `shown` counts how often each part appeared in the chat.

| variables | code |
|---|---|
| `written`, `turnStart` | the transcript: its last reply, the first reply after the last user message |
| `box`, `dead` | outbox records in order of creation, dead letters |
| `sentMem`, `sentDisk` | `_sent_keys` and the ledger file |
| `legacy`, `legacyDisk`, `popped` | `_pending_send`, its file, the item just taken off |
| `carried` | `_pending_files` |
| `tpos`, `todo` | the read position (advanced before handling), the reply being handled |

`Restart` reloads the ledger and the old queue and resumes at the start of the current turn if
anything was ever delivered, else at the end of the transcript; replies that are then not read again
are recorded in `skipped`.

### Turn

`Turn.tla` is the life of a turn. Three parties act: the session (agent and terminal), the inbound
worker and the outbound loop. Between them lie plain attributes of the bridge that both threads read
and write without a lock, the transcript, and the marker file of the Stop hook.

| variables | code |
|---|---|
| `todo`, `run`, `said`, `log`, `late`, `marker` | input queue of the agent, prompt it works on, transcript, text on its way to it, the `turn_end` file |
| `owner`, `active`, `fromTg`, `textSent`, `reaction`, `pendingEnd` | `_owner_chat`, `_turn_active`, `_turn_from_tg`, `_turn_text_sent`, `_turn_is_reaction`, `_pending_turn_end` |
| `tpos`, `turnTpos`, `readTexts`, `readWords` | `_tpos`, `_turn_tpos`, the windows of the Codex reader |
| `stored`, `sent` | replies in the outbox with their recipient, `_sent_keys` |

Worker: `TakeMessage`/`TakeReaction`, `BeginTurn`, `InjectStarts`, `InjectDone`, `InjectRefused`,
`InjectTimesOut` (the keys arrived, the bridge believes they did not), `InjectRepeats` (the same, and the
retry of `_inject` types the prompt a second time). Outbound: `Flush`,
`DrainBlock` and `Apply` (`_handle_event`), `EndSeen`, `Silence`, `FinishTurn`, the backstop
(`StartBackstop`, `BackstopAnswers`, `BackstopRetries`, `BackstopGivesUp`), `CloseTurn`.
Outside a Telegram turn a text is forwarded only with the routing marker of the configuration (`Tagged`, `_has_marker`),
to the chat of the last message; `marked` is the other marker, which sends an answer to the group.
Three facts the model shows and the properties name as exceptions: the lock on the recipient is the
bridge's turn and not the agent's work; one end closes the turns of all prompts that queue up behind
it; and a reaction does not move the recipient.

### StatusBubble, SubagentWatcher, Progress

`StatusBubble.tla` has the push (`Push`, `PushSent`, `PushSet`, `PushPersist`: the outbound thread for
Claude, the scraper for Codex) against the clear (`ClearDelete`, `ClearForget` for memory and `ClearUnlink`
for the file, `EndTurn`), the worker's change of recipient and a crash. Every call and every write of
the file may fail, which the code ignores: a bubble whose number is in memory but not in the file, because the write
failed or a clear removed the file it was just written to, is `unsaved` until the next clear, and a crash loses it.
At the start the deletion, the removal of the file or both may fail. A message is a chat and a number, so that numbers of two
chats coincide as they do in Telegram. The bridge keeps the number but not the chat of a bubble:
after a switch of chat or a restart a deletion can therefore hit a message of another chat, which
is the exception (`moved`) of `RepliesAreKept`.

`SubagentWatcher.tla` is `scan`, `tick` and `cleanup_orphan`, with the same failures (`wunsaved`). Silence is counted in the four classes the
windows make. Files change only between the watcher's reads of them (`BetweenReads`) and age only between
its ticks (`polled`): the windows are long against a poll. A sub-agent is closed at the size its file has
*after* the scan read it, so a resumption in between is not noticed (`missed`).
`SubagentWatcher.close()` of the code is called by nothing.

The two share no state; `Progress.tla` runs one or the other (`part`), which keeps the instance a sum and
not a product.

### OneShotBridge

The poller (`Poll`, `Dispatch...`, `ResetContents`/`ResetDirectory` for the two halves of `rmtree`,
`SaveOffset`), one worker per chat (`Take`, `RunStarts`, `RunSucceeds`/`RunFails`, `Reply`/`ReplyFails`),
and `Shutdown`, `Exit`, `Crash`, `Restart`. The offset and the directory of a chat survive, the queues
do not. `fate`, `lost`, `raced`, `starts` record what a property needs. A failing echo of
a voice transcript drops the prompt (`DispatchFails`).

### Supervision

Processes are pids with a bridge and the code they run; the lock file goes with its process. A process
boots (lock, in attach mode only), claims and sends its start notice, polls, stops. The client posts a notice that
was not answered again, up to `Retries` times, and then the plain text in the same way (`post`): each of these posts may have
been shown, and `repeated` counts those that were and were not the last. A 429 shows nothing and is
posted again after a pause, without being counted: no step of the model. The service managers start
what ended. The updater walks `status`, `plan`, `pull`, `install`, `recheck` and for each bridge `kick` or
`term`, `wait`, `spawn`, `probe`. One-shot bridges take no lock: systemd and the updater can both start
one, which is the exception of `OnePoller`.

## 4. What the runs check

| run | instance | shows |
|---|---|---|
| `inbound_faults` | 2 updates, 2 attempts, ledger of 1, any one of 8 kinds of failure | types; the claims are exactly what circulates, once; no double delivery; every update settles |
| `inbound_crash` | the same with a crash anywhere, a lost offset write, an outage beyond retention | `ConfirmedAccounted`, `FifoDelivery`, `BuriedAfterAllAttempts`, the custody contract |
| `inbound_lost` | 2 updates, one failing write | violation: a failed write followed by a good one in a batch loses an update |
| `inbound_dead_delivered` | 1 update, nothing fails | violation: a dead-lettered message is delivered afterwards |
| `outbox_faults` | 2 replies (2 chunks + attachment; 1 chunk, voice mode), 2 failures of 9 kinds, 1 crash | types; `LedgerMeansDelivered`, `NoReplyLost`, `EveryReplySettles` |
| `outbox_order` | 3 replies, the second with two attachments, 2 failures, 2 crashes, no voice, working outbox | `InOrder`, `RepeatsHaveCauses` |
| `turn` | 5 dialogues of 2-3 prompts (owner, group, owner, with both markers; the owner twice with the same words; owner and terminal; the terminal twice, once with the routing marker; a reaction and a command between chats), both agents, one failure of 8 kinds, 1 backstop retry | `RepliesReachTheAsker`, `AnswersAreStored`, `TerminalStaysLocal`, `EndsHaveCauses`, `TurnsComeAndGo` |
| `one_shot` | 4 scripts of 3-4 updates in 2 chats, 1 failure, 1 stop or crash | `ForgottenIsAccounted`, `RerunsNeedAnUncleanEnd`, `DirectoryHoldsMarker`, `InOrder`, `ResetSeparates`, `AttachmentsAreOwn`, `PromptsSettle` |
| `supervision` | 2 bridges in 5 installations, 5 pids, `Retries = 0` (two posts a notice), 1 failing step, 1 death, 1 passing cooldown, one update | `OnePoller`, `NoticesAreRare`, `StoppedForNewCode`, `SuccessMeansNewCode`, `BridgesComeBack` |
| `progress` | bubble: 2 turns, 2 pushes, 2 replies, 1 failing call or write, 1 crash; list: 2 sub-agents, 3 records, 1 failure or crash | `StraysHaveCauses`, `RepliesAreKept`, `WorkIsListed`, `BubblesGo`, `ListingGoes` |
| `outbox_voice` | 2 replies, nothing fails | violation: a spoken reply overtakes a stored one |
| `outbox_ledger` | 1 reply, one failing ledger write | violation: the record does not stay in the queue |

The four violations are disagreements between the code and its own comments; they are the
`findings` of `PROJECT.json`.

**Bounds.** `MaxFaults` and `MaxCrashes` bound what goes wrong in one behaviour, `LastUpdate` and
`LastReply` the traffic. Two updates are enough for every race of the inbound path: each involves one
record and, for order and for the offset, one neighbour. `MaxAttempts = 2` distinguishes the first from
the last attempt; `LedgerLimit = 1` makes the ledger forget at once. Two replies show the
interplay of a record at the head with one behind it, three put one on either side of an attachment.
Two attachments of one reply let the outbox show the first again after a crash before the second buries the record,
after which the reply is read and stored once more: a part may then appear once more than crashes and failures (see 5).
The chunks and attachments chosen include a part that is first, middle and last.
`turn`: a race of two turns needs two prompts, a wrong recipient a third in another chat; the end of
a terminal turn is left behind for the next one when two of them follow each other. `one_shot`: the race
of `/reset` needs a prompt before and one after it, and a second attachment for a name to be used again.
`supervision`: five pids are two bridges, their two replacements and one more that a service manager starts in
between; with `Retries = 0` a notice is posted once formatted and once plain, so that it can already be repeated, and
`Retries = 1` was run once by hand. `progress`: two pushes are the bubble that is cleared and the one that races the clear; three records
let a sub-agent finish and resume. Two failures of the list were run once by hand (a write that fails, then a crash).
No symmetry is used: updates and replies are ordered.

**Fairness.** Each thread is a loop that catches every exception and comes back, so each gets weak
fairness (`FairSpec`), as a whole and not per outcome: TLC may let `_handle` fail every time
until the record is buried, or an attachment every time until it is given up. Crashes, faults, Telegram and
the user get no fairness. Beyond the threads:
`Turn` lets the agent finish what it works on and its records reach the disk, and, strongly, lets the idle
limit pass in a session that stays silent (`Silence`, enabled again and again between two cycles).
`Progress` lets the pushing thread finish, active turns end, a silent background bubble expire, the watcher
poll, and, strongly, the pause between two edits and the windows of silence end (each is enabled only
between polls). `OneShotBridge` has the poller and each worker (a run of the agent has a timeout, `join` has
one, the service is restarted). `Supervision` has the processes, the service managers and the updater.

**Deadlock** is not checked: with the traffic bounded, a behaviour in which everything is delivered may
come to rest.

## 5. What is proved

`InboundProofs.tla`, for every number of updates, attempts, ledger entries, faults and crashes, from
`ConstantsAssumption` alone:

* `TypeCorrect`: `Spec => []TypeOK`.
* `CustodyKept`: `Spec => []CustodyInv`. `ConfirmedAccounted` is not inductive: it speaks of what
  Telegram forgot, but the next `getUpdates` confirms whatever the offset says, and after a restart
  the offset is the one on disk. The invariant therefore says that every update below *any* offset
  the bridge knows, and below the poller's place in its batch, is settled, that ledger, queue and
  worker hold only accounted updates, and what the worker's place implies about its record.
* `NothingConfirmedIsLost`: `Spec => []ConfirmedAccounted`.
* `ClaimsCirculate` (`[]ClaimsCirculateOnce`), inductive with the types: a record is queued only when nobody
  claims it, and the worker takes the claim over with the record.
* `BurialEarned` (`BuriedAfterAllAttempts`), from `Exhausted`: a record marked dead, or about to be, has used up its
  attempts, so that a maintenance which finishes the move buries nothing too early.
* `NoMessageTwice` (`[]NoDoubleDelivery`), from `Once`: a handled update has no record except in the worker's hands and
  circulates no more, and whatever was stored lies behind the poller's offset, so it is not stored again.
* `MessagesInOrder` (`[]FifoDelivery`), from `Order`: records are created in the order of their ids (`StoredInOrder`,
  which rests on `OffsetsAgree`), so a snapshot of replay is complete up to its last record (`SnapshotsComplete`), the
  poller submits only when every earlier pending record circulates (`PollerComplete`), and the queue with what the
  worker holds is in order (`QueueInOrder`). A claim is dropped before the failure is counted: `Circulates` and `InHand`
  cover that window.
* `ImplementsCustody`: `Spec => KeepsCustody`; each action is mapped to a step of the contract or to a
  stutter.

`OutboxProofs` proves of the outbound side, again from `ConstantsAssumption` alone, for any number of
replies, chunks and attachments, with and without voice replies:

* `DeliveryInvariant`: `Spec => []DeliveryInv`. Neither `NoReplyLost` nor `LedgerMeansDelivered` is
  inductive. A record leaves the outbox because its *counters* say it is complete, so the invariant
  has to tie the counters to the chat: every confirmed chunk was shown (`ConfirmedShown`), and where
  the thread stands between a Telegram call and its confirmation the part is in the chat already
  (`PlaceShown`). That in turn rests on what the place says of the queues (`PlacesOK`: a record is at
  the head while it is worked on, there is a reply at hand exactly while one is handled). The step
  of a removed record goes: complete, hence all chunks confirmed, hence all shown, hence the key may
  be marked and the reply is not lost.
* `TypeCorrect`, `LedgerIsHonest` (`Spec => []LedgerMeansDelivered`) and `NoReplyIsLost`
  (`Spec => []NoReplyLost`) follow from it.
* `ChatInOrder` (`Spec => []InOrder`). `InOrder` speaks of instances without voice replies and with an outbox
  that takes every reply; there `OldPathUnused` says that the old queue, its file and the left-over files stay
  empty, so that only the head record shows anything (`PlainNext`, `ShowingStep`). The chat's order then rests on
  one relation kept by `OrderInv`: before a record (`BoxOrdered`) and before the place in the transcript
  (`ReadOrdered`) every reply is past or stored ahead, and within a record everything before the next part is
  past (`BoxPassed`, `ConfirmPassed`). A record leaves only complete or buried (`LeavingPassed`); a restart that
  jumps forward puts what it jumps over among the dropped, and one that jumps back finds each reply stored, in
  the ledger with everything shown (`SentPassed`), or sends it again.
* `RepeatsAreCaused` (`Spec => []RepeatsHaveCauses`). How often a part was shown says nothing of how often it will
  be, so the invariant counts both: `Charge` adds to the appearances every place where the part still waits, which are the
  records of the outbox that have yet to send it, the left-over attachments, the old queue or its file (whichever has it
  more often, since a restart takes the file for the queue) and the transcript. `Charged` bounds the sum.
  Showing a part, storing a reply, giving one up to the old path and handing its attachments on only move it
  between the places (`FlushOutboxCharge`, `FlushLegacyCharge`, `DrainCharge`); a failure adds one, since what was shown waits
  again, and a crash two, since the part may wait again in its queue and in the transcript
  (`RestartCharge`). `WaitingInv` keeps the places apart: attachments are named once, and are left over only by replies the
  thread is past. On the plain path a reply that is stored is not stored again (`enqueue` knows its key), so
  `PlainCharge` counts the transcript only for a reply that is not stored, and a crash costs one; that a finished
  record goes only when its key is marked (`DoneMarked`) closes the gap. A buried record is the exception:
  its reply is neither stored nor in the ledger. A stronger bound, one appearance for each crash and failure throughout, was
  checked before; the proof did not close, and TLC shows why with two attachments: the first is shown, the bridge
  dies before the counter is written, it is shown again, the second attachment uses up the attempts of the record,
  and when the position in the transcript is still before the reply it is read, stored and shown a third time.

`OneShotProofs`, for any scripts, failures and deaths, from `OneShotAssumption`:

* `TypeCorrect`; `DirectoryIsWhole` (`[]DirectoryHoldsMarker`), inductive with the types: `rmtree` takes the
  contents before the directory and a failing `touch` leaves no marker behind;
* `NothingForgottenIsUnknown` (`[]ForgottenIsAccounted`). Telegram forgets what lies below the offset of the
  *next* call, and that offset may be the one on disk: `CustodyInv` says that every prompt below `forgotten`,
  `offset`, `saved` or `next` is settled, in memory or known to be lost. A worker moves a prompt from its queue to its
  hands and to its fate without a gap (`WorkerAccounts`), the end of the process turns memory into `lost`
  (`EndAccounts`).

`OneShotOrderProofs`, for the same instances, with `RunInvariant` (`[](TypeInv /\ RunInv)`), whose parts need each other:

* `PlaceInv`: the offset in memory never runs ahead of the poller's place in the batch, and the one on disk not ahead
  of the one in memory. Every task a worker has therefore lies below the next update (`OrderInv`), so that
  the queues rise and `TasksRunInOrder` (`InOrder`) follows.
* `RerunInv`: a prompt may be run again because it waits, or because Telegram would still deliver it (`Owed`: relative
  to the offset on disk between batches, to the poller's place inside one); it never is both more often than
  crashes and failing writes allow. `RerunsAreExplained` (`[]RerunsNeedAnUncleanEnd`) follows.
* `OwnInv` and `ResetInv`: a `/reset` that removes an attachment, or separates a conversation, while a task of the chat
  waits or runs, is one of those that `raced` names. `AttachmentsStayOwn` (`AttachmentsAreOwn`) and
  `ResetsSeparate` (`ResetSeparates`) follow.

`SupervisionProofs`, for any number of bridges, pids, failures, deaths and cooldowns, from
`SupervisionAssumption`:

* `TypeCorrect`; `StoppedOnlyForNewCode` (`[]StoppedForNewCode`) with `UpdateInv`: from the recheck on both
  the clone and the installation are new;
* `NoticesStayRare` (`[]NoticesAreRare`): only the holder of the notice lock is between claim and send
  (`HolderInv`), and the claims are counted against the cooldowns (`CountInv`). One claim may show several notices, since
  the client repeats what was not answered; the theorem bounds the notices by the claims and these repetitions, and the
  repetitions by `2 * Retries + 1` a claim, from the post a sender is at (`Left`);
* `OneAttachPoller`: `OnePoller` without its exception, for bridges in attach mode: who polls holds the lock
  (`LockInv`).

`SupervisionUpdateProofs`, for the same instances, with `UpdateInvariant` (`[](TypeInv /\ UpdateInv /\ UpdInv)`):

* a bridge has one process while the update stops nothing, and what a service manager keeps is it (`SoleInv`); hence
  the updater selects each bridge once (`PidInv`), leaves launchd's processes to launchd (`EnvInv`: a plan to restart
  one directly was made for a process that was gone, which the recheck refuses), and what it is about to stop is the only process of a
  bridge nobody else starts (`AloneInv`). `PollersExclude` (`[]OnePoller`, with its exception) follows with
  `OneAttachPoller`;
* from the recheck on, a process on the old code is one the updater has yet to stop (`OldInv`): `SuccessIsNewCode`
  (`SuccessMeansNewCode`).

`ProgressProofs`, for any number of turns, pushes, replies, sub-agents, records, failures and crashes:

* `ProgressInvariant`: `BubbleInv` and `WatcherInv` are inductive. Memory and file name the same bubble except during
  a push or while it is `unsaved` (`IdInv`); a bubble is tracked, pushed or a stray, and the outbound thread forgets a number only when
  nothing hangs on it (`SeenInv`); while the recipient stays, what may be deleted is no reply (`KeptInv`, resting on
  `NumbersInv`: numbers of a chat are given out once). Who works is tracked, was seen to grow, is missed,
  or is found by the first scan after a crash (`ScanInv`).
* `TypeCorrect`, `NothingStraysUnnoticed` (`[]StraysHaveCauses`), `RepliesStay` (`[]RepliesAreKept`) and `WorkIsShown`
  (`[]WorkIsListed`) follow from it.

`TurnProofs`, for any dialogue of the chats and the terminal, both agents, any number of retries and failures, from
`TurnAssumption`:

* `TurnInvariant` (`[]TurnInv`). None of the three safety properties is inductive, and they need each other. A prompt of
  Telegram the bridge has not finished with keeps its turn open or was open when it was closed (`ActiveInv`), so the
  worker does not move the recipient (`OwnerInv`); this rests on `EnteredInv`: a prompt enters the
  session only while the worker has it in its hands, so a new one is never among those that are closed, however often it was
  typed. When a text is handled, the record before it is of the same prompt
  (`LogInv`) and the flag of the turn is still that of this prompt (`FlagInv`, `LocalInv`). The backstop may
  look at texts that were handled before: they are stored already, or in the window of the Codex reader (`WindowInv`).
  A prompt of the terminal that met no turn is never in reach of a backstop (`CalmInv`); in the drain only the
  routing marker can take its answer to Telegram.
* `TypeCorrect`, `AskerGetsTheReply` (`[]RepliesReachTheAsker`), `NoAnswerIsDropped` (`[]AnswersAreStored`) and
  `TerminalTurnsStayLocal` (`[]TerminalStaysLocal`) follow from it.

* `EndsAreOwn` (`EndsHaveCauses`, an action property), from `EndInv`. No end may be in sight of a prompt that waits or
  runs and met no turn: none read and pending, no marker, none in the transcript behind what was handled (`SightInv`).
  That holds because such a prompt is alone among what is open (`SoloInv`), so nothing else can end, and because its own
  end comes only when it runs no more, and, as long as nothing fails, it is in the session once (`OnceInv`). The property speaks of an end that closes an open
  turn. Without that it is false, which the proof attempt showed: when two prompts of the terminal follow each
  other, the marker of the first is handled while the second runs, and finds no turn to close. The instance of
  `turn` has this dialogue since.

**Only model-checked**: liveness (`EveryUpdateSettles`, `EveryReplySettles`, `TurnsComeAndGo`, `PromptsSettle`,
`BubblesGo`, `ListingGoes`, `BridgesComeBack`), since liveness under fairness is outside the prover's reach.
Every other property of a passing run is a theorem. The four properties of the violation runs are false.

## 6. What is not modelled

* The inbound worker as a second caller of `_send_final` (an error of a transcription) and the bridge's own
  notices: both threads then share the old queue and the waiting attachments.
* A store opened twice, its limits and corrupt files, dead-letter pruning: a refused write appears as a failing
  `reserve` or `enqueue`.
* A text that Telegram refuses for ever: it stops the outbox in every cycle, and no fairness of the
  code helps; the models bound the failures of texts.
* The re-resolution of the transcript when the agent's session changes, parsing of its records, and how the pane
  is recognised: the readers appear as the kinds of records they return and the windows they keep.
* The registration of the hooks in the agent's settings file: it happens once, at the start.
* The agent process of a one-shot bridge that outlives a killed bridge.
* Configuration, wizard, command line, self-test, speech, redaction, mentions, formatting, monitoring, the daily
  report: sequential I/O or pure text functions with no state shared with the running bridge.
