--------------------------- MODULE TurnProperties ---------------------------
(***************************************************************************)
(* What must hold of Turn.tla.                                             *)
(***************************************************************************)
EXTENDS Turn

Records == [kind : {"user", "text", "note", "end"}, p : Prompts]
Replies == [p : Prompts, chat : Chats]

\* Every variable has its type, and the outbound thread is inside a block only while it
\* applies one.
SessionTypes ==
  /\ agent \in Agents
  /\ todo \in Seq(Prompts) /\ run \in Prompts \cup {0} /\ said \in BOOLEAN
  /\ log \in Seq(Records) /\ late \in Prompts \cup {0}
  /\ marker \in BOOLEAN /\ typed \in SUBSET Prompts
FlagTypes ==
  /\ owner \in Chats
  /\ active \in BOOLEAN /\ fromTg \in BOOLEAN /\ textSent \in BOOLEAN
  /\ reaction \in BOOLEAN /\ pendingEnd \in BOOLEAN
ReadTypes ==
  /\ tpos \in 0 .. Len(log) /\ turnTpos \in 0 .. Len(log)
  /\ readTexts \in SUBSET Prompts
StoreTypes == stored \in SUBSET Replies /\ sent \in SUBSET Prompts
WorkerTypes ==
  /\ wpc \in {"idle", "begin", "inject", "keys"}
  /\ wcur \in Prompts \cup {0}
  /\ wpc # "idle" => wcur \in Prompts /\ FromTelegram(wcur)
OutboundTypes ==
  /\ opc \in {"flush", "drain", "check", "finish", "scan", "rescan", "close"}
  /\ ret \in {"check", "finish", "rescan"}
  /\ at \in 0 .. tpos /\ tries \in 0 .. Retries
  /\ at < tpos => opc = "drain"
HistoryTypes ==
  /\ closedEarly \in SUBSET Prompts /\ overlapped \in SUBSET Prompts
  /\ swallowed \in SUBSET Records /\ faults \in Nat
TypeOK ==
  SessionTypes /\ FlagTypes /\ ReadTypes /\ StoreTypes /\ WorkerTypes /\ OutboundTypes
    /\ HistoryTypes

-----------------------------------------------------------------------------
(* Safety *)

AskedIn(p) == IF Marked(p) /\ Chat(p) = Home THEN {Chat(p), Group} ELSE {Chat(p)}

\* The answer to a message is stored for the chat that asked ("a message from another chat
\* must not switch the recipient while a turn is still answering the previous chat", _handle;
\* FAIL-CLOSED, _wait_for_turn_before_chat_switch), or for the group when the owner's own
\* turn says so (_route_group_marker).  The exceptions: the bridge closed its turn while this
\* prompt was still open -- the lock on the recipient is the turn of the bridge, not the work
\* of the agent, and one end closes the turns of all queued prompts -- or the prompt was a
\* reaction, which does not move the recipient.
RepliesReachTheAsker ==
  \A s \in stored :
    FromTelegram(s.p) /\ Kind(s.p) = "message" /\ s.p \notin closedEarly
      => s.chat \in AskedIn(s.p)

\* Every answer to a Telegram prompt that the bridge reads is stored, whatever happened to
\* its turn, unless the window of the Codex reader dropped the answer or its prompt, or a
\* record of the harness passed for a prompt after the bridge had closed the turn ("a
\* Telegram-originated turn must NEVER go unanswered", _finish_turn).  An answer with the
\* routing marker is stored in the latter cases too, and from any turn ("a text that carries
\* the routing marker is addressed to Telegram no matter what the turn bookkeeping says",
\* _handle_event).
Read(r) == \E i \in 1 .. at : log[i] = r
AnswersAreStored ==
  \A p \in Prompts :
    (FromTelegram(p) \/ Tagged(p)) /\ Read(Rec("text", p)) =>
      \/ \E s \in stored : s.p = p
      \/ Rec("text", p) \in swallowed
      \/ ~Tagged(p) /\ Rec("user", p) \in swallowed
      \/ ~Tagged(p) /\ Read(Rec("note", p)) /\ p \in closedEarly

\* What the agent answers to a prompt typed at the terminal stays there, unless the prompt
\* ran into a turn of Telegram or the answer carries the routing marker
\* ("terminal-originated turns stay local", _handle_event).
TerminalStaysLocal ==
  \A s \in stored : ~FromTelegram(s.p) => s.p \in overlapped \/ Tagged(s.p)

\* An open turn is closed only when it is over, if it met no other one: without a failure no
\* end closes the turn of a prompt that is waiting or running, in particular none that an
\* earlier turn left behind ("a late one could land after the next turn had already started
\* and end it within ~1 s", _begin_turn).  The end of a turn of the terminal may come when
\* the next prompt is already typed; it finds no open turn to close.
EndsHaveCauses ==
  [][(FinishTurn \/ CloseTurn) /\ active /\ faults = 0
       => (Range(todo) \cup {run}) \cap Prompts \subseteq overlapped]_vars

-----------------------------------------------------------------------------
(* Liveness *)

\* Every message gets its turn and every turn is closed at last, although ends are missed
\* and hooks do not run: the wait for another chat's turn ends, "typing..." goes out
\* (IDLE_DONE_HOOKED is the fallback).
TurnsComeAndGo == <>[](wpc = "idle" /\ NextMessage = 0 /\ ~active)
=============================================================================
