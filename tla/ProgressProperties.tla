------------------------- MODULE ProgressProperties -------------------------
(***************************************************************************)
(* What must hold of the progress messages: they are technical, and must   *)
(* neither stay nor take an answer with them.                              *)
(***************************************************************************)
EXTENDS Progress

Messages == [chat : Chats, id : Nat]

BubbleTypes ==
  /\ agent \in {"claude", "codex"} /\ owner \in Chats /\ active \in BOOLEAN
  /\ posted \in [Chats -> Nat]
  /\ bubbles \in SUBSET Messages /\ texts \in SUBSET Messages /\ erased \in SUBSET Messages
  /\ mid \in Nat /\ saved \in Nat /\ background \in BOOLEAN
  /\ ppc \in {"idle", "send", "set", "persist"} /\ pchat \in Chats /\ pmid \in Nat
  /\ opc \in {"idle", "forget", "unlink", "end"} /\ goal \in Goals
  /\ strays \in SUBSET Messages /\ moved \in BOOLEAN /\ late \in SUBSET Messages
  /\ unsaved \in BOOLEAN
  /\ {turns, pushes, replies, faultsLeft, crashesLeft} \subseteq Nat
  /\ agent = "claude" => ppc = "idle" \/ opc = "idle"

WatcherTypes ==
  /\ last \in [SubAgents -> {"none", "tool", "text", "end"}]
  /\ silence \in [SubAgents -> Silences] /\ here \in BOOLEAN
  /\ listing \in SUBSET Nat /\ sentCount \in Nat
  /\ agents \in SUBSET SubAgents /\ closed \in SUBSET (SubAgents \ agents)
  /\ grown \in SUBSET SubAgents /\ leaving \in SUBSET agents
  /\ wmid \in Nat /\ wsaved \in Nat /\ shown \in SUBSET SubAgents /\ wunsaved \in BOOLEAN
  /\ wpc \in {"idle", "close", "act", "persist", "unlink"}
  /\ polled \in BOOLEAN /\ orphans \in SUBSET Nat /\ missed \in SUBSET SubAgents
  /\ {records, troubles} \subseteq Nat

\* The types of both parts; the outbound thread never clears in the middle of its own push, and
\* no sub-agent is tracked and closed at once.
TypeOK == BubbleTypes /\ WatcherTypes

\* A progress message that is visible is the one the bridge tracks, or is just being sent or
\* deleted, or was lost sight of for a reason: a lost answer, a failing deletion, at start-up too,
\* a crash while its number was not in the file (not yet, or because the write failed, or because
\* a clear removed the file it had just been written to) or in a chat that is not the first one,
\* a recipient that moved while a bubble stood in the old chat, or the scraper finishing its call
\* during a clear.
StraysHaveCauses ==
  /\ \A m \in bubbles :
       \/ m \in strays \/ m \in Tracked
       \/ ppc \in {"set", "persist"} /\ m = Message(pchat, pmid)
  /\ listing \subseteq orphans \cup {wmid}

\* A deletion that is meant for a bubble takes a reply of another chat only when the recipient
\* has moved, by a switch of chat or by a restart, while the number of a bubble was known:
\* numbers of different chats coincide.
RepliesAreKept == erased # {} => moved

\* Bubbles go ("deleted at turn end", _status_push): what the bridge did not lose sight of is
\* gone when the agent rests, except a bubble the scraper sent while the turn was being ended.
BubblesGo == <>[](bubbles \subseteq strays \cup late)

\* The list of sub-agents goes ("deleted when the last one finishes or goes silent", the
\* module's comment), also when they are killed in the middle of a call or their session ends.
ListingGoes == <>[](listing \subseteq orphans)

\* Once the watcher has polled, every sub-agent in the middle of its work is listed, also one
\* that was finished and is resumed ("tracked again only when the file grows", _closed), unless
\* it was resumed within the very scan that closed it, was silent while no bridge ran, or
\* Telegram failed.
WorkIsListed ==
  wpc = "idle" /\ polled =>
    \A a \in Existing :
      last[a] = "tool" /\ silence[a] < Stale
        => a \in shown \cup missed \/ (wmid = 0 /\ troubles > 0)
=============================================================================
