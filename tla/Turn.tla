-------------------------------- MODULE Turn --------------------------------
(***************************************************************************)
(* The life of a turn in AttachBridge (attach.py): a Telegram message is   *)
(* typed into the agent's session, the agent writes its transcript, the    *)
(* bridge forwards the answer to the chat that asked, and the end of the   *)
(* turn is noticed.  Three parties run concurrently:                       *)
(*                                                                         *)
(*   worker    takes the stored messages FIFO (_handle): waits for the     *)
(*             running turn before the recipient changes, opens a turn     *)
(*             (_begin_turn), types the prompt (_inject);                  *)
(*   outbound  reads the transcript, forwards texts, looks for the end of  *)
(*             the turn (a transcript record, the marker of the Stop hook, *)
(*             silence) and closes it, with a backstop for the answer;     *)
(*   session   the agent itself and its terminal: prompts queue up behind  *)
(*             the running one, records reach the transcript with a delay. *)
(*                                                                         *)
(* Whether a turn is open, where replies go and whether the turn belongs   *)
(* to Telegram are plain attributes of the bridge that worker and outbound *)
(* thread read and write without a common lock.                            *)
(*                                                                         *)
(* An agent writes at most one text per prompt here, also when a retry     *)
(* typed the prompt twice.  What happens to a reply once it is stored is   *)
(* Outbox.tla; here "stored" ends its way.                                 *)
(***************************************************************************)
EXTENDS Integers, Sequences, Functions

CONSTANTS
  Dialogues,      \* what people say: sequences of prompts, in the order they are sent
  Agents,         \* agents to consider, a subset of {"claude", "codex"}
  Retries,        \* BACKSTOP_RETRY_ATTEMPTS
  FaultKinds,     \* what may go wrong, subset of AllFaults
  MaxFaults       \* how often it goes wrong in a behaviour

Home == "home"          \* the owner's private chat, allowed_user_ids[0]
Group == "group"        \* allowed_group_ids[0]
Terminal == "terminal"  \* not a chat: the prompt was typed into the pane by hand
Chats == {Home, Group}

\* A prompt: the chat it comes from (or the terminal), its kind ("command": answered by the
\* bridge itself), what it says, and whether its answer starts with the group marker
\* (`marked`) and with the routing marker "[TG]" (`tagged`).
PromptType ==
  [chat : Chats \cup {Terminal}, kind : {"message", "reaction", "command"},
   words : STRING, marked : BOOLEAN, tagged : BOOLEAN]

\* "typed": send-keys reports a timeout though the keys arrived; "refused": they did not;
\* "silence": nothing is written for longer than the idle limit although the agent works;
\* "hook": the Stop hook does not run; "foreign": the hook of another session marks the end
\* of a bridge without a session guard; "note": a record of Claude's harness looks like a
\* prompt; "late": a text reaches the transcript late; "send": Telegram does not take what
\* is stored, for one cycle.
AllFaults == {"typed", "refused", "silence", "hook", "foreign", "note", "late", "send"}

ASSUME TurnAssumption ==
  /\ \A d \in Dialogues : d = <<>> \/ d \in Seq(PromptType)
  /\ Agents \subseteq {"claude", "codex"}
  /\ Retries \in Nat \ {0}
  /\ FaultKinds \subseteq AllFaults
  /\ MaxFaults \in Nat

VARIABLES
  dialogue,       \* the prompts of this behaviour
  \* the session
  agent,          \* which agent runs in the pane
  todo,           \* prompts in the agent's input queue
  run,            \* the prompt it works on, 0: none
  said,           \* it has written its text for that prompt
  log,            \* the transcript
  late,           \* prompt whose text is on its way to the transcript, 0: none
  marker,         \* the turn_end file of the Stop hook exists
  typed,          \* terminal prompts that were typed
  \* attributes of the bridge
  owner,          \* _owner_chat
  active,         \* _turn_active
  fromTg,         \* _turn_from_tg
  textSent,       \* _turn_text_sent
  reaction,       \* _turn_is_reaction
  pendingEnd,     \* _pending_turn_end
  tpos, turnTpos, \* _tpos, _turn_tpos, counted in records
  readTexts, readWords,  \* the windows of the Codex reader (_recent_msgs, _recent_users)
  stored,         \* replies in the outbox: prompt answered, recipient
  sent,           \* _sent_keys: replies known to be delivered
  \* where the threads are
  wpc, wcur,      \* worker and its prompt
  opc, ret,       \* outbound, and where it goes on after a drain
  at,             \* records handled; the block being drained is at + 1 .. tpos
  tries,          \* attempts of the backstop
  \* bookkeeping of the model
  closedEarly,    \* prompts that were open when the bridge closed its turn
  overlapped,     \* prompts whose turn ran into another one
  swallowed,      \* records the windows of the reader dropped
  faults

sessionVars == <<dialogue, agent, todo, run, said, log, late, marker, typed>>
flagVars == <<owner, active, fromTg, textSent, reaction, pendingEnd>>
readVars == <<tpos, turnTpos, readTexts, readWords>>
storeVars == <<stored, sent>>
workVars == <<wpc, wcur>>
outVars == <<opc, ret, at, tries>>
histVars == <<closedEarly, overlapped, swallowed, faults>>
vars == <<sessionVars, flagVars, readVars, storeVars, workVars, outVars, histVars>>

Fault(k) ==
  /\ k \in FaultKinds
  /\ faults < MaxFaults
  /\ faults' = faults + 1

Prompts == 1 .. Len(dialogue)
Chat(p) == dialogue[p].chat
Kind(p) == dialogue[p].kind
Words(p) == dialogue[p].words
Marked(p) == dialogue[p].marked
Tagged(p) == dialogue[p].tagged
FromTelegram(p) == Chat(p) # Terminal

Rec(k, p) == [kind |-> k, p |-> p]

\* Prompts the session or the bridge has not finished with: typed or being typed, in the
\* agent's queue, running, or with records the bridge has not read.
Unread == {log[i] : i \in at + 1 .. Len(log)}
Open ==
  Range(todo) \cup ({run, late} \ {0}) \cup {r.p : r \in Unread}
    \cup (IF wpc \in {"inject", "keys"} THEN {wcur} ELSE {})

\* A new prompt meets one the agent has not finished or a turn being closed: from here on
\* the two share the flags of the bridge.
Closing == opc \in {"finish", "scan", "rescan", "close"} \/ (opc = "drain" /\ ret # "check")
Meet(p, busy) ==
  overlapped' = IF Open # {} \/ Closing \/ busy THEN overlapped \cup Open \cup {p} ELSE overlapped

Init ==
  /\ dialogue \in Dialogues
  /\ agent \in Agents
  /\ todo = <<>> /\ run = 0 /\ said = FALSE
  /\ log = <<>> /\ late = 0 /\ marker = FALSE /\ typed = {}
  /\ owner = Home
  /\ active = FALSE /\ fromTg = FALSE /\ textSent = FALSE
  /\ reaction = FALSE /\ pendingEnd = FALSE
  /\ tpos = 0 /\ turnTpos = 0 /\ readTexts = {} /\ readWords = {}
  /\ stored = {} /\ sent = {}
  /\ wpc = "idle" /\ wcur = 0
  /\ opc = "flush" /\ ret = "check" /\ at = 0 /\ tries = 0
  /\ closedEarly = {} /\ overlapped = {} /\ swallowed = {} /\ faults = 0

-----------------------------------------------------------------------------
(* The session: the agent and its terminal *)

\* Somebody types a prompt into the pane by hand.
TypeAtTerminal ==
  \E p \in Prompts \ typed :
    /\ ~FromTelegram(p)
    /\ typed' = typed \cup {p}
    /\ todo' = Append(todo, p)
    /\ Meet(p, active \/ wpc # "idle")
    /\ UNCHANGED <<dialogue, agent, run, said, log, late, marker, flagVars, readVars, storeVars,
                   workVars, outVars, closedEarly, swallowed, faults>>

AgentStarts ==
  /\ run = 0 /\ late = 0 /\ todo # <<>>
  /\ run' = Head(todo) /\ todo' = Tail(todo)
  /\ log' = Append(log, Rec("user", Head(todo)))
  /\ UNCHANGED <<dialogue, agent, said, late, marker, typed, flagVars, readVars, storeVars,
                 workVars, outVars, histVars>>

\* The text reaches the transcript at once, or later than the end of the turn is reported.
AgentSpeaks ==
  /\ run # 0 /\ ~said /\ Rec("text", run) \notin Range(log)
  /\ said' = TRUE
  /\ \/ log' = Append(log, Rec("text", run)) /\ UNCHANGED <<late, faults>>
     \/ agent = "claude" /\ Fault("late") /\ late' = run /\ UNCHANGED log
  /\ UNCHANGED <<dialogue, agent, todo, run, marker, typed, flagVars, readVars, storeVars,
                 workVars, outVars, closedEarly, overlapped, swallowed>>

\* A record without the origin prefix that is not a prompt (the reader filters those it knows).
HarnessNote ==
  /\ agent = "claude" /\ run # 0 /\ late = 0
  /\ Fault("note")
  /\ log' = Append(log, Rec("note", run))
  /\ UNCHANGED <<dialogue, agent, todo, run, said, late, marker, typed, flagVars, readVars,
                 storeVars, workVars, outVars, closedEarly, overlapped, swallowed>>

\* The turn of the agent ends, with or without a text.  Codex records it in the transcript
\* (task_complete, behind the text); Claude Code runs the Stop hook.
AgentStops ==
  /\ run # 0
  /\ run' = 0 /\ said' = FALSE
  /\ \/ agent = "codex" /\ log' = Append(log, Rec("end", run))
        /\ UNCHANGED <<marker, faults>>
     \/ agent = "claude" /\ marker' = TRUE /\ UNCHANGED <<log, faults>>
     \/ agent = "claude" /\ Fault("hook") /\ UNCHANGED <<log, marker>>
  /\ UNCHANGED <<dialogue, agent, todo, late, typed, flagVars, readVars, storeVars, workVars,
                 outVars, closedEarly, overlapped, swallowed>>

\* stop_hook.main of another Claude session: this bridge has no session guard.
ForeignHook ==
  /\ agent = "claude" /\ ~marker
  /\ Fault("foreign")
  /\ marker' = TRUE
  /\ UNCHANGED <<dialogue, agent, todo, run, said, log, late, typed, flagVars, readVars, storeVars,
                 workVars, outVars, closedEarly, overlapped, swallowed>>

LateTextAppears ==
  /\ late # 0
  /\ log' = Append(log, Rec("text", late)) /\ late' = 0
  /\ UNCHANGED <<dialogue, agent, todo, run, said, marker, typed, flagVars, readVars,
                 storeVars, workVars, outVars, histVars>>

-----------------------------------------------------------------------------
(* The worker *)

NextMessage ==
  LET rest == {p \in wcur + 1 .. Len(dialogue) : FromTelegram(p)}
  IN  IF rest = {} THEN 0 ELSE CHOOSE p \in rest : \A q \in rest : p <= q

\* A reaction goes straight to the session: the recipient does not change.
TakeReaction ==
  /\ wpc = "idle" /\ NextMessage # 0
  /\ Kind(NextMessage) = "reaction"
  /\ wcur' = NextMessage /\ wpc' = "begin"
  /\ UNCHANGED <<sessionVars, flagVars, readVars, storeVars, outVars, histVars>>

\* Mutant of MaySwitch: the turn in progress is not waited for.
MaySwitchAnyTime(c) == c \in Chats

\* _wait_for_turn_before_chat_switch: only the worker opens turns, so what it sees holds.
MaySwitch(c) == owner = c \/ ~active

\* The recipient follows the message, also one the bridge answers itself (/help).
TakeMessage ==
  /\ wpc = "idle" /\ NextMessage # 0
  /\ Kind(NextMessage) # "reaction"
  /\ MaySwitch(Chat(NextMessage))
  /\ owner' = Chat(NextMessage)
  /\ wcur' = NextMessage
  /\ wpc' = IF Kind(NextMessage) = "command" THEN "idle" ELSE "begin"
  /\ UNCHANGED <<sessionVars, active, fromTg, textSent, reaction, pendingEnd, readVars,
                 storeVars, outVars, histVars>>

\* Mutant of ForgetEnd: what the previous turn left behind is kept.
ForgetNothing == UNCHANGED <<marker, pendingEnd>>

\* The end of an earlier turn must not end this one: the marker is removed, and an end the
\* outbound thread has read but not acted on is forgotten.
ForgetEnd == marker' = FALSE /\ pendingEnd' = FALSE

BeginTurn ==
  /\ wpc = "begin"
  /\ ForgetEnd
  /\ active' = TRUE /\ fromTg' = TRUE /\ textSent' = FALSE
  /\ reaction' = (Kind(wcur) = "reaction" /\ ~active)
  /\ turnTpos' = tpos
  /\ Meet(wcur, FALSE)
  /\ wpc' = "inject"
  /\ UNCHANGED <<dialogue, agent, todo, run, said, log, late, typed, owner, tpos, readTexts, readWords,
                 storeVars, wcur, outVars, closedEarly, swallowed, faults>>

InjectStarts ==
  /\ wpc = "inject"
  /\ active' = TRUE
  /\ wpc' = "keys"
  /\ UNCHANGED <<sessionVars, owner, fromTg, textSent, reaction, pendingEnd, readVars,
                 storeVars, wcur, outVars, histVars>>

InjectDone ==
  /\ wpc = "keys"
  /\ todo' = Append(todo, wcur)
  /\ wpc' = "idle"
  /\ UNCHANGED <<dialogue, agent, run, said, log, late, marker, typed, flagVars, readVars, storeVars,
                 wcur, outVars, histVars>>

\* send-keys times out though the keys arrived, and _inject tries again: the prompt will be in
\* the session twice.  MaxFaults stands for the bound on the attempts, INJECT_ATTEMPTS.
InjectRepeats ==
  /\ wpc = "keys"
  /\ Fault("typed")
  /\ todo' = Append(todo, wcur)
  /\ UNCHANGED <<dialogue, agent, run, said, log, late, marker, typed, flagVars, readVars, storeVars,
                 workVars, outVars, closedEarly, overlapped, swallowed>>

\* The turn is closed when the prompt did not get through; the message stays stored (its
\* later attempts are those of Inbound.tla).  The pane may not run the agent any more
\* (_pane_ok), or every attempt failed -- as far as the bridge can tell.
GiveUpInjecting ==
  /\ wpc = "keys"
  /\ active' = FALSE
  /\ wpc' = "idle"
  /\ UNCHANGED <<dialogue, agent, run, said, log, late, marker, typed, owner, fromTg, textSent,
                 reaction, pendingEnd, readVars, storeVars, wcur, outVars, overlapped, swallowed>>
  /\ closedEarly' = closedEarly \cup Open'
InjectRefused ==
  /\ Fault("refused")
  /\ UNCHANGED todo
  /\ GiveUpInjecting
InjectTimesOut ==
  /\ Fault("typed")
  /\ todo' = Append(todo, wcur)
  /\ GiveUpInjecting

-----------------------------------------------------------------------------
(* The outbound thread: one cycle is flush, drain, check *)

\* What the queue does is Outbox.tla: what is stored is delivered, or not in this cycle.
Flush ==
  /\ opc = "flush"
  /\ \/ sent' = {s.p : s \in stored} /\ UNCHANGED faults
     \/ stored # {} /\ Fault("send") /\ UNCHANGED sent
  /\ opc' = "drain" /\ ret' = "check"
  /\ UNCHANGED <<sessionVars, flagVars, readVars, stored, workVars, at, tries,
                 closedEarly, overlapped, swallowed>>

\* _drain_transcript reads a block; the position moves past it before its records are handled.
DrainNothing ==
  /\ opc = "drain" /\ at = tpos /\ tpos = Len(log)
  /\ opc' = ret
  /\ UNCHANGED <<sessionVars, flagVars, readVars, storeVars, workVars, ret, at, tries,
                 histVars>>
DrainBlock ==
  /\ opc = "drain" /\ at = tpos /\ tpos < Len(log)
  /\ tpos' = Len(log)
  /\ UNCHANGED <<sessionVars, flagVars, turnTpos, readTexts, readWords, storeVars, workVars,
                 outVars, histVars>>

\* _route_group_marker: the text may pick the group only in a turn of the owner's own chat.
Recipient(p) == IF Marked(p) /\ owner = Home THEN Group ELSE owner

\* _send_final: a reply whose key is in the outbox is not stored again.
Store(p) ==
  /\ stored' = IF \E s \in stored : s.p = p THEN stored
                ELSE stored \cup {[p |-> p, chat |-> Recipient(p)]}
  /\ textSent' = TRUE

\* Codex >= 0.149 writes every message in a form older versions wrote a second time, so the
\* reader drops what is in its window, and remembers what it has parsed.
Fresh(r) ==
  agent = "codex" =>
    /\ r.kind = "user" => Words(r.p) \notin readWords
    /\ r.kind = "text" => r.p \notin readTexts
Remember(recs) ==
  IF agent = "codex"
  THEN /\ readTexts' = readTexts \cup {r.p : r \in {x \in recs : x.kind = "text"}}
       /\ readWords' = readWords \cup {Words(r.p) : r \in {x \in recs : x.kind = "user"}}
  ELSE UNCHANGED <<readTexts, readWords>>

\* Mutant of UserRecord: a record without the prefix makes a live turn local.
UserRecordDowngrades(r) ==
  fromTg' = (r.kind = "user" /\ FromTelegram(r.p) /\ Fresh(r))

\* Mutant of UserRecord: nothing makes the turn local again.
UserRecordOnlyRaises(r) ==
  fromTg' = (fromTg \/ (r.kind = "user" /\ FromTelegram(r.p) /\ Fresh(r)))

\* A prompt with the origin prefix makes the turn one of Telegram; one without it, or the
\* task_started record of Codex, makes it local, but only while no turn is open.
UserRecord(r) ==
  fromTg' = IF r.kind = "user" /\ FromTelegram(r.p) /\ Fresh(r) THEN TRUE
            ELSE fromTg /\ active

\* A text is forwarded in a turn of Telegram, and outside one when it carries the routing
\* marker, whatever the flag says.
TextRecord(r) ==
  IF Fresh(r) /\ (fromTg \/ Tagged(r.p)) /\ r.p \notin sent
  THEN Store(r.p)
  ELSE UNCHANGED <<stored, textSent>>

\* _handle_event for the next record of the block.
Apply ==
  /\ opc = "drain" /\ at < tpos
  /\ LET r == log[at + 1]
     IN  /\ IF r.kind \in {"user", "note"} THEN UserRecord(r) ELSE UNCHANGED fromTg
         /\ IF r.kind = "text" THEN TextRecord(r) ELSE UNCHANGED <<stored, textSent>>
         /\ pendingEnd' = (pendingEnd \/ r.kind = "end")
         /\ Remember({r})
         /\ swallowed' = IF Fresh(r) THEN swallowed ELSE swallowed \cup {r}
  /\ at' = at + 1
  /\ opc' = IF at + 1 = tpos THEN ret ELSE opc
  /\ UNCHANGED <<sessionVars, owner, active, reaction, tpos, turnTpos, sent, workVars, ret,
                 tries, closedEarly, overlapped, faults>>

\* The end of the turn: a record, else the marker (_end_turn drains once more), else
\* silence beyond _idle_limit.  A session with nothing left to do stays silent; one that is
\* at work may be silent for too long, but typing a prompt is quicker than the limit.
Still == at = Len(log) /\ wpc \notin {"inject", "keys"}

\* Mutant of Quiet: there is no fallback for an end that was missed.
NeverQuiet == FALSE

Quiet == Still /\ todo = <<>> /\ run = 0 /\ late = 0
EndSeen ==
  /\ opc = "check"
  /\ \/ pendingEnd /\ opc' = "finish" /\ UNCHANGED ret
     \/ ~pendingEnd /\ marker /\ opc' = "drain" /\ ret' = "finish"
  /\ UNCHANGED <<sessionVars, flagVars, readVars, storeVars, workVars, at, tries, histVars>>
Silence ==
  /\ opc = "check" /\ ~pendingEnd /\ ~marker /\ active
  /\ \/ Quiet /\ UNCHANGED faults
     \/ Still /\ run # 0 /\ Fault("silence")
  /\ opc' = "drain" /\ ret' = "finish"
  /\ UNCHANGED <<sessionVars, flagVars, readVars, storeVars, workVars, at, tries,
                 closedEarly, overlapped, swallowed>>
NoEnd ==
  /\ opc = "check" /\ ~pendingEnd /\ ~marker
  /\ opc' = "flush"
  /\ UNCHANGED <<sessionVars, flagVars, readVars, storeVars, workVars, ret, at, tries,
                 histVars>>

\* The last steps of _finish_turn, one after the other without anything slow between them.
Close ==
  /\ active' = FALSE /\ pendingEnd' = FALSE /\ marker' = FALSE
  /\ closedEarly' = closedEarly \cup Open
  /\ opc' = "flush" /\ ret' = "check" /\ tries' = 0
  /\ UNCHANGED <<dialogue, agent, todo, run, said, log, late, typed, owner, fromTg, textSent,
                 reaction, readVars, storeVars, workVars, at, overlapped, swallowed, faults>>

\* _finish_turn reads the flags: an unanswered Telegram turn gets the backstop, a reaction
\* does not.
Unanswered == active /\ fromTg /\ ~textSent /\ ~reaction
FinishTurn == opc = "finish" /\ ~Unanswered /\ Close
StartBackstop ==
  /\ opc = "finish" /\ Unanswered
  /\ opc' = "scan"
  /\ UNCHANGED <<sessionVars, flagVars, readVars, storeVars, workVars, ret, at, tries,
                 histVars>>

\* _last_assistant_text parses what was written since the turn began, with the live reader,
\* and takes the last text that was not delivered.
SinceTurn == turnTpos + 1 .. Len(log)
Undelivered ==
  {i \in SinceTurn : log[i].kind = "text" /\ log[i].p \notin sent /\ Fresh(log[i])}
LastText == CHOOSE i \in Undelivered : \A j \in Undelivered : j <= i

BackstopAnswers ==
  /\ opc \in {"scan", "rescan"}
  /\ opc = "rescan" => ~textSent
  /\ Undelivered # {}
  /\ Store(log[LastText].p)
  /\ Remember({log[i] : i \in SinceTurn})
  /\ opc' = "close"
  /\ UNCHANGED <<sessionVars, owner, active, fromTg, reaction, pendingEnd, tpos, turnTpos,
                 sent, workVars, ret, at, tries, histVars>>

\* Mutant of MayRetry: one attempt too many.
MayRetryOnceMore == tries <= Retries

MayRetry == tries < Retries

\* Nothing yet: the transcript may lag behind, so it is drained and looked at again.
BackstopRetries ==
  /\ opc \in {"scan", "rescan"}
  /\ ~textSent /\ Undelivered = {} /\ MayRetry
  /\ tries' = tries + 1
  /\ Remember({log[i] : i \in SinceTurn})
  /\ opc' = "drain" /\ ret' = "rescan"
  /\ UNCHANGED <<sessionVars, flagVars, tpos, turnTpos, storeVars, workVars, at, histVars>>

\* The text came through the drain, or there is none ("ended without an answer").
BackstopGivesUp ==
  /\ opc \in {"scan", "rescan"}
  /\ textSent \/ (Undelivered = {} /\ ~MayRetry)
  /\ Remember(IF textSent THEN {} ELSE {log[i] : i \in SinceTurn})
  /\ opc' = "close"
  /\ UNCHANGED <<sessionVars, flagVars, tpos, turnTpos, storeVars, workVars, ret, at,
                 tries, histVars>>

CloseTurn == opc = "close" /\ Close

-----------------------------------------------------------------------------
Session == TypeAtTerminal \/ AgentStarts \/ AgentSpeaks \/ HarnessNote \/ AgentStops
             \/ ForeignHook \/ LateTextAppears
Worker == TakeReaction \/ TakeMessage \/ BeginTurn \/ InjectStarts \/ InjectDone \/ InjectRepeats
            \/ InjectRefused \/ InjectTimesOut
Drain == DrainNothing \/ DrainBlock \/ Apply
Finish == FinishTurn \/ StartBackstop \/ BackstopAnswers \/ BackstopRetries \/ BackstopGivesUp
            \/ CloseTurn
Outbound == Flush \/ Drain \/ EndSeen \/ Silence \/ NoEnd \/ Finish

Next == Session \/ Worker \/ Outbound

Spec == Init /\ [][Next]_vars

\* Every thread keeps running, the agent finishes what it works on and its records reach
\* the disk; in a session that stays silent the idle limit passes.
FairSpec ==
  /\ Spec
  /\ WF_vars(Worker) /\ WF_vars(Outbound) /\ SF_vars(Silence /\ Quiet)
  /\ WF_vars(AgentStarts) /\ WF_vars(AgentStops) /\ WF_vars(LateTextAppears)
=============================================================================
