---------------------------- MODULE StatusBubble ----------------------------
(***************************************************************************)
(* The status bubble of AttachBridge (attach.py): one Telegram message that *)
(* shows what the agent is doing, edited in place, deleted before the next *)
(* text and at the end of the turn.  It is pushed by the outbound thread   *)
(* for Claude Code, also for turns that nobody on Telegram started, and by *)
(* the thread that scrapes the terminal for Codex; it is cleared by the    *)
(* outbound thread.  Its message id is kept in memory and in a file, so    *)
(* that the next process can delete what a crash left behind; the chat it  *)
(* was sent to is kept nowhere.  Turns themselves are Turn.tla.            *)
(***************************************************************************)
EXTENDS Integers

CONSTANTS
  MaxTurns,      \* turns started from Telegram
  MaxPushes,     \* bubbles that are started
  MaxReplies,    \* texts that are forwarded
  BubbleFaults,  \* failing calls to Telegram and writes of the file
  BubbleCrashes  \* crashes, each followed by a restart

ASSUME BubbleAssumption ==
  {MaxTurns, MaxPushes, MaxReplies, BubbleFaults, BubbleCrashes} \subseteq Nat

VARIABLES
  agent,         \* "claude" or "codex"
  owner,         \* _owner_chat
  active,        \* _turn_active, of a turn from Telegram
  \* Telegram
  posted,        \* messages sent to a chat so far; a message is its chat and number
  bubbles,       \* bubbles that are visible
  texts,         \* replies
  erased,        \* replies that were deleted
  \* the bridge
  mid,           \* _status["mid"], 0: none
  saved,         \* id in the status file, 0: no file
  background,    \* _bg_status
  ppc,           \* the pushing thread: "idle", "send", "set", "persist"
  pchat, pmid,   \* chat it sends to; id it got
  opc,           \* the outbound thread: "idle", "forget", "unlink", "end"
  goal,          \* what it clears the bubble for: "text", "finish", "expire"
  \* bookkeeping of the model
  strays,        \* bubbles the bridge lost sight of, for a reason recorded below
  moved,         \* the recipient has moved while the number of a bubble was known
  late,          \* bubbles sent while the outbound thread was ending the turn
  unsaved,       \* the last number known did not get into the file, or was removed from it
  turns, pushes, replies, faultsLeft, crashesLeft

telegramVars == <<posted, bubbles, texts, erased>>
statusVars == <<mid, saved, background>>
pushVars == <<ppc, pchat, pmid>>
clearVars == <<opc, goal>>
markVars == <<strays, moved, late, unsaved>>
countVars == <<turns, pushes, replies, faultsLeft, crashesLeft>>
bubbleVars == <<agent, owner, active, telegramVars, statusVars, pushVars, clearVars, markVars, countVars>>

Home == "home"
Chats == {Home, "group"}
Message(c, i) == [chat |-> c, id |-> i]

Fault ==
  /\ faultsLeft > 0
  /\ faultsLeft' = faultsLeft - 1
  /\ UNCHANGED <<turns, pushes, replies, crashesLeft>>

BubbleInit ==
  /\ agent \in {"claude", "codex"}
  /\ owner = Home /\ active = FALSE
  /\ posted = [c \in Chats |-> 0] /\ bubbles = {} /\ texts = {} /\ erased = {}
  /\ mid = 0 /\ saved = 0 /\ background = FALSE
  /\ ppc = "idle" /\ pchat = Home /\ pmid = 0
  /\ opc = "idle" /\ goal = "text"
  /\ strays = {} /\ moved = FALSE /\ late = {} /\ unsaved = FALSE
  /\ turns = 0 /\ pushes = 0 /\ replies = 0
  /\ faultsLeft = BubbleFaults /\ crashesLeft = BubbleCrashes

\* Claude's tool calls are pushed by the outbound thread itself; it does one thing at a time.
OutboundFree == opc = "idle" /\ (agent = "claude" => ppc = "idle")

\* What the tracked id stands for, and whether that is where a deletion would look.
Tracked == {m \in bubbles : m.id = mid /\ m.chat = owner}

\* The recipient becomes c; a number of the old chat says nothing in the new one.
Moves(c) ==
  /\ owner' = c
  /\ moved' = (moved \/ (c # owner /\ (mid # 0 \/ saved # 0 \/ ppc # "idle")))

\* The bubbles whose number the bridge knows but whose chat is not the current one.
Elsewhere(i, c) == {m \in bubbles : m.id = i /\ m.chat # c}

-----------------------------------------------------------------------------
(* The worker *)

\* _begin_turn, for a message of any chat: the recipient moves only between turns.
BeginTurn ==
  /\ turns < MaxTurns
  /\ \E c \in Chats :
       /\ ~active \/ c = owner
       /\ Moves(c)
       /\ strays' = strays \cup (IF mid # 0 THEN Elsewhere(mid, c) ELSE {})
  /\ active' = TRUE
  /\ turns' = turns + 1
  /\ UNCHANGED <<agent, telegramVars, statusVars, pushVars, clearVars, late, unsaved,
                 pushes, replies, faultsLeft, crashesLeft>>

-----------------------------------------------------------------------------
(* _status_push *)

\* Mutant: a push does not ask whether a turn is running.
PushAnyTime(bg) ==
  /\ ppc = "idle" /\ pushes < MaxPushes
  /\ agent = "claude" => opc = "idle"
  /\ background' = background
  /\ IF mid = 0
     THEN ppc' = "send" /\ pchat' = owner
     ELSE UNCHANGED <<ppc, pchat>>
  /\ pushes' = pushes + 1
  /\ UNCHANGED <<agent, owner, active, telegramVars, mid, saved, pmid, clearVars, markVars,
                 turns, replies, faultsLeft, crashesLeft>>

\* A tool call of a turn from Telegram; or, for Claude, a live record of any other turn,
\* which makes the bubble a background bubble.  An existing bubble is edited.
Push(bg) ==
  /\ ppc = "idle" /\ pushes < MaxPushes
  /\ agent = "claude" => opc = "idle"
  /\ IF bg THEN agent = "claude" /\ ~active ELSE active
  /\ background' = (background \/ bg)
  /\ IF mid = 0
     THEN ppc' = "send" /\ pchat' = owner
     ELSE UNCHANGED <<ppc, pchat>>
  /\ pushes' = pushes + 1
  /\ UNCHANGED <<agent, owner, active, telegramVars, mid, saved, pmid, clearVars, markVars,
                 turns, replies, faultsLeft, crashesLeft>>

\* The message appears in the chat the recipient was when the call was made.
Appears ==
  /\ posted' = [posted EXCEPT ![pchat] = @ + 1]
  /\ bubbles' = bubbles \cup {Message(pchat, posted[pchat] + 1)}
  /\ UNCHANGED <<texts, erased>>

\* A bubble the scraper shows while the turn is being ended outlives it.
Late(m) == IF agent = "codex" /\ (opc # "idle" \/ ~active) THEN {m} ELSE {}

PushSent ==
  /\ ppc = "send"
  /\ Appears
  /\ ppc' = "set" /\ pmid' = posted[pchat] + 1
  /\ late' = late \cup Late(Message(pchat, pmid'))
  /\ UNCHANGED <<agent, owner, active, statusVars, pchat, clearVars, strays, moved, unsaved, countVars>>

\* The answer is lost: the client tries again, or gives up and there is no id.
PushAnswerLost ==
  /\ ppc = "send"
  /\ Fault
  /\ Appears
  /\ strays' = strays \cup {Message(pchat, posted[pchat] + 1)}
  /\ ppc' \in {"send", "idle"}
  /\ UNCHANGED <<agent, owner, active, statusVars, pchat, pmid, clearVars, moved, late, unsaved>>

PushFails ==
  /\ ppc = "send"
  /\ Fault
  /\ ppc' = "idle"
  /\ UNCHANGED <<agent, owner, active, telegramVars, statusVars, pchat, pmid, clearVars, markVars>>

\* The id is remembered.  The outbound thread, in the middle of clearing, is about to forget
\* it unseen; and the recipient may have moved meanwhile.
PushSet ==
  /\ ppc = "set"
  /\ mid' = pmid
  /\ ppc' = "persist"
  /\ LET m == Message(pchat, pmid) IN
       /\ strays' = strays \cup (IF opc = "forget" \/ pchat # owner THEN {m} ELSE {})
       /\ late' = late \cup Late(m)
  /\ UNCHANGED <<agent, owner, active, moved, unsaved, telegramVars, saved, background, pchat, pmid,
                 clearVars, countVars>>

\* Mutant: the id is not written to the file.
PushPersistNothing ==
  /\ ppc = "persist"
  /\ ppc' = "idle"
  /\ UNCHANGED <<agent, owner, active, telegramVars, mid, saved, background, pchat, pmid, clearVars,
                 markVars, countVars>>

\* The push is over; after a clear that ran meanwhile the number is in memory no more.
PushOver ==
  /\ ppc = "persist"
  /\ ppc' = "idle" /\ pchat' = Home /\ pmid' = 0
  /\ strays' = strays \cup (IF mid # pmid THEN {Message(pchat, pmid)} ELSE {})
  /\ UNCHANGED <<agent, owner, active, telegramVars, mid, background, clearVars, moved, late>>

\* It is written to the file: after a clear that ran meanwhile, the file names a bubble that is gone.
PushPersist ==
  /\ PushOver
  /\ saved' = pmid /\ unsaved' = FALSE
  /\ UNCHANGED countVars

\* A failing write is ignored: the file is as before, or empty.
PushPersistFails ==
  /\ PushOver
  /\ Fault
  /\ saved' \in {saved, 0} /\ unsaved' = TRUE

-----------------------------------------------------------------------------
(* _status_clear, by the outbound thread *)

\* Mutant: the number is deleted in every chat, wherever the bubble may be.
DeleteEverywhere(c, i) ==
  LET gone == {Message(d, i) : d \in Chats} IN
    /\ bubbles' = bubbles \ gone
    /\ erased' = erased \cup (texts \cap gone)
    /\ UNCHANGED <<posted, texts>>

\* deleteMessage for number i of chat c: a bubble, a reply, or nothing at all.
Delete(c, i) ==
  /\ bubbles' = bubbles \ {Message(c, i)}
  /\ erased' = erased \cup (texts \cap {Message(c, i)})
  /\ UNCHANGED <<posted, texts>>

\* A text is about to be forwarded, the turn is over, or a background bubble has been silent
\* for too long.  The end of a turn is also seen for turns that did not come from Telegram.
Wanted(g) ==
  CASE g = "text" -> replies < MaxReplies
    [] g = "finish" -> active \/ background
    [] g = "expire" -> background /\ ~active

ClearDelete(g) ==
  /\ OutboundFree /\ Wanted(g)
  /\ IF mid # 0 THEN Delete(owner, mid) ELSE UNCHANGED telegramVars
  /\ opc' = "forget" /\ goal' = g
  /\ UNCHANGED <<agent, owner, active, statusVars, pushVars, markVars, countVars>>

\* The deletion fails, which is only logged.
ClearDeleteFails(g) ==
  /\ OutboundFree /\ Wanted(g)
  /\ mid # 0
  /\ Fault
  /\ strays' = strays \cup Tracked
  /\ opc' = "forget" /\ goal' = g
  /\ UNCHANGED <<agent, owner, active, telegramVars, statusVars, pushVars, moved, late, unsaved>>

\* Whatever id is there now is forgotten.
ClearForget ==
  /\ opc = "forget"
  /\ mid' = 0 /\ background' = FALSE /\ unsaved' = FALSE
  /\ opc' = "unlink"
  /\ UNCHANGED <<agent, owner, active, telegramVars, saved, pushVars, goal, strays, moved, late, countVars>>

\* The file is removed, with whatever number the scraper has written to it meanwhile, or cannot be
\* removed, which is ignored.
FileGoes ==
  \/ saved' = 0 /\ UNCHANGED faultsLeft
  \/ saved # 0 /\ UNCHANGED saved /\ faultsLeft > 0 /\ faultsLeft' = faultsLeft - 1

\* Then the text goes out.
ClearUnlink ==
  /\ opc = "unlink"
  /\ FileGoes
  /\ unsaved' = (unsaved \/ (mid # 0 /\ ppc # "persist" /\ saved' = 0))
  /\ opc' = IF goal = "finish" THEN "end" ELSE "idle"
  /\ goal' = "text"
  /\ IF goal = "text"
     THEN /\ posted' = [posted EXCEPT ![owner] = @ + 1]
          /\ texts' = texts \cup {Message(owner, posted[owner] + 1)}
          /\ replies' = replies + 1
     ELSE UNCHANGED <<posted, texts, replies>>
  /\ UNCHANGED <<agent, owner, active, bubbles, erased, mid, background, pushVars,
                 strays, moved, late, turns, pushes, crashesLeft>>

\* The backstop runs between the two; only then is the turn closed.
EndTurn ==
  /\ opc = "end"
  /\ active' = FALSE
  /\ opc' = "idle"
  /\ UNCHANGED <<agent, owner, telegramVars, statusVars, pushVars, goal, markVars, countVars>>

-----------------------------------------------------------------------------
\* What the next process cannot find: the bubbles of another chat, and those not in the file.
Unrecoverable ==
  {m \in bubbles :
     \/ m.chat # Home
     \/ unsaved /\ m \in Tracked
     \/ ppc \in {"set", "persist"} /\ m = Message(pchat, pmid)}

\* The process dies and the next one starts: _cleanup_orphan_status deletes the number in the
\* file, in the chat every process starts with, and removes the file whether or not the
\* deletion succeeded.  Either may fail, which is ignored.
CrashAndRestart ==
  /\ crashesLeft > 0
  /\ crashesLeft' = crashesLeft - 1
  /\ \E deleted, removed \in BOOLEAN :
       /\ IF saved = 0 \/ (deleted /\ removed)
          THEN UNCHANGED faultsLeft
          ELSE faultsLeft > 0 /\ faultsLeft' = faultsLeft - 1
       /\ IF saved # 0 /\ deleted THEN Delete(Home, saved) ELSE UNCHANGED telegramVars
       /\ strays' = strays \cup Unrecoverable
                      \cup (IF deleted THEN {} ELSE bubbles \cap {Message(Home, saved)})
       /\ saved' = IF removed THEN 0 ELSE saved
  /\ Moves(Home) /\ active' = FALSE
  /\ mid' = 0 /\ background' = FALSE /\ unsaved' = FALSE
  /\ ppc' = "idle" /\ pchat' = Home /\ pmid' = 0 /\ opc' = "idle" /\ goal' = "text"
  /\ UNCHANGED <<agent, late, turns, pushes, replies>>

Pusher == PushSent \/ PushSet \/ PushPersist
Clearing ==
  \/ ClearForget \/ ClearUnlink \/ EndTurn
  \/ active /\ ClearDelete("finish")
  \/ ClearDelete("expire")
Goals == {"text", "finish", "expire"}

BubbleNext ==
  \/ BeginTurn
  \/ \E bg \in BOOLEAN : Push(bg)
  \/ PushSent \/ PushAnswerLost \/ PushFails \/ PushSet \/ PushPersist \/ PushPersistFails
  \/ \E g \in Goals : ClearDelete(g) \/ ClearDeleteFails(g)
  \/ ClearForget \/ ClearUnlink \/ EndTurn
  \/ CrashAndRestart

=============================================================================
