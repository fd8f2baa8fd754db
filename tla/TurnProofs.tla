----------------------------- MODULE TurnProofs -----------------------------
(***************************************************************************)
(* Proofs about Turn.tla, for any dialogue, agents, number of retries and  *)
(* failures.                                                               *)
(***************************************************************************)
EXTENDS TurnProperties, SequenceTheorems, WellFoundedInduction, TLAPS

-----------------------------------------------------------------------------
(* Sequences and numbers *)

LEMMA AppendFacts ==
  ASSUME NEW S, NEW s \in Seq(S), NEW e \in S, NEW t, t = Append(s, e)
  PROVE  /\ t \in Seq(S) /\ Len(s) \in Nat /\ Len(t) = Len(s) + 1 /\ Len(t) \in Nat
         /\ \A i \in 1 .. Len(s) : t[i] = s[i]
         /\ t[Len(s) + 1] = e
<1>1. /\ t \in Seq(S) /\ Len(t) = Len(s) + 1
      /\ \A i \in 1 .. Len(s) : t[i] = s[i]
      /\ t[Len(s) + 1] = e
  BY AppendProperties
<1>2. Len(s) \in Nat
  BY LenProperties
<1>3. QED
  BY <1>1, <1>2

LEMMA AppendRange ==
  ASSUME NEW S, NEW s \in Seq(S), NEW e \in S
  PROVE  Append(s, e) \in Seq(S) /\ Range(Append(s, e)) = Range(s) \cup {e}
<1> DEFINE t == Append(s, e)
<1>1. /\ t \in Seq(S) /\ Len(t) = Len(s) + 1
      /\ \A i \in 1 .. Len(s) : t[i] = s[i]
      /\ t[Len(s) + 1] = e
  BY AppendProperties
<1> HIDE DEF t
<1>2. Len(s) \in Nat /\ DOMAIN s = 1 .. Len(s) /\ DOMAIN t = 1 .. Len(t)
  BY <1>1, LenProperties
<1>3. DOMAIN t = DOMAIN s \cup {Len(s) + 1}
  BY <1>1, <1>2
<1>4. \A i \in DOMAIN s : t[i] = s[i]
  BY <1>1, <1>2
<1>5. Range(t) = Range(s) \cup {e}
  BY <1>1, <1>3, <1>4 DEF Range
<1>6. QED
  BY <1>1, <1>5 DEF t

LEMMA TailFacts ==
  ASSUME NEW S, NEW s \in Seq(S), s # <<>>
  PROVE  /\ Head(s) \in S /\ Tail(s) \in Seq(S)
         /\ Head(s) \in Range(s) /\ Range(Tail(s)) \subseteq Range(s)
<1>1. Len(s) \in Nat /\ Len(s) # 0 /\ DOMAIN s = 1 .. Len(s) /\ 1 \in DOMAIN s
  BY EmptySeq, LenProperties
<1>2. Head(s) \in S /\ Tail(s) \in Seq(S) /\ Len(Tail(s)) = Len(s) - 1
      /\ \A i \in 1 .. Len(Tail(s)) : Tail(s)[i] = s[i + 1]
  BY HeadTailProperties
<1>3. Head(s) = s[1]
  OBVIOUS
<1>4. DOMAIN Tail(s) = 1 .. Len(Tail(s))
  BY <1>2, LenProperties
<1>5. \A i \in DOMAIN Tail(s) : i + 1 \in DOMAIN s /\ Tail(s)[i] = s[i + 1]
  BY <1>1, <1>2, <1>4
<1>6. QED
  BY <1>1, <1>2, <1>3, <1>5 DEF Range

LEMMA RangeFacts ==
  ASSUME NEW S, NEW s \in Seq(S)
  PROVE  Range(s) \subseteq S
<1>1. DOMAIN s = 1 .. Len(s) /\ \A i \in 1 .. Len(s) : s[i] \in S
  BY LenProperties, ElementOfSeq
<1>2. QED
  BY <1>1 DEF Range

\* The smaller-than relation leaves every set of numbers with a smallest one.
LEMMA Smallest ==
  ASSUME NEW T \in SUBSET Nat, T # {}
  PROVE  \E x \in T : \A y \in T : x <= y
<1> DEFINE R == OpToRel(<, Nat)
<1>1. IsWellFoundedOn(R, Nat)
  BY NatLessThanWellFounded
<1>2. \A x, y \in Nat : y < x => <<y, x>> \in R
  BY DEF OpToRel
<1> HIDE DEF R
<1>3. PICK x \in T : \A y \in T : ~(<<y, x>> \in R)
  BY <1>1, WFMin
<1>4. \A y \in T : ~(y < x)
  BY <1>2, <1>3
<1>5. QED
  BY <1>4

LEMMA Largest ==
  ASSUME NEW n \in Nat, NEW T \in SUBSET (1 .. n), T # {}
  PROVE  \E x \in T : \A y \in T : y <= x
<1> DEFINE D == {d \in 0 .. n : \E y \in T : d + y = n}
<1>1. D \in SUBSET Nat /\ D # {}
  <2>1. PICK x \in T : TRUE
    OBVIOUS
  <2>2. n - x \in 0 .. n /\ (n - x) + x = n
    OBVIOUS
  <2>3. D \in SUBSET Nat
    OBVIOUS
  <2>4. \E y \in T : (n - x) + y = n
    BY <2>2
  <2>5. n - x \in D
    BY <2>2, <2>4
  <2>6. QED
    BY <2>3, <2>5
<1>2. PICK d \in D : \A e \in D : d <= e
  BY <1>1, Smallest
<1>3. PICK x \in T : d + x = n
  BY <1>2
<1>4. ASSUME NEW y \in T PROVE y <= x
  <2>1. n - y \in D
    <3>1. n - y \in 0 .. n /\ (n - y) + y = n
      OBVIOUS
    <3>2. QED
      BY <3>1
  <2>2. d <= n - y
    BY <1>2, <2>1
  <2>3. QED
    BY <1>3, <2>2
<1>5. QED
  BY <1>4

-----------------------------------------------------------------------------
(* The inductive invariant *)

\* Prompts that reached the session: each is taken from Telegram, or typed, only once, though
\* the attempts at typing one may leave several of it.
InLog == {log[i].p : i \in 1 .. Len(log)}
Working == Range(todo) \cup ({run, late} \ {0})
EnteredInv ==
  \A p \in Working \cup InLog :
    IF FromTelegram(p) THEN p < wcur \/ (p = wcur /\ wpc \in {"idle", "keys"}) ELSE p \in typed

\* The transcript: records of one prompt follow each other, the first is the prompt itself, and
\* what the agent works on or still owes a text for comes last.
LogInv ==
  /\ \A i \in 1 .. Len(log) : log[i].kind = "user" \/ (i > 1 /\ log[i - 1].p = log[i].p)
  /\ \A p \in {run, late} \ {0} : Len(log) > 0 /\ log[Len(log)].p = p

\* A prompt of Telegram the bridge has not finished with keeps the turn of the bridge open, and
\* with it the recipient, unless the bridge closed the turn while it was open.
ActiveInv == \A p \in Open : FromTelegram(p) => active \/ p \in closedEarly
OwnerInv ==
  /\ \A p \in Open : FromTelegram(p) /\ Kind(p) = "message" /\ p \notin closedEarly => owner = Chat(p)
  /\ wpc # "idle" /\ Kind(wcur) = "message" => owner = Chat(wcur)

\* The prompt being read is known to come from Telegram.
Excused(p) ==
  \/ Rec("user", p) \in swallowed
  \/ Read(Rec("note", p)) /\ p \in closedEarly
FlagInv == at > 0 /\ FromTelegram(log[at].p) => fromTg \/ Excused(log[at].p)

\* The window of the Codex reader holds every text that was read; Claude's has none.
WindowInv ==
  IF agent = "claude" THEN swallowed = {}
  ELSE \A i \in 1 .. at : log[i].kind = "text" => log[i].p \in readTexts

SentInv == \A p \in sent : \E s \in stored : s.p = p

\* A prompt of the terminal that met no turn finds none open, nor one that is being searched
\* for its answer, and is read with the flag down.
Backstop == opc \in {"scan", "rescan"} \/ (opc = "drain" /\ ret = "rescan")
Calm == ~active /\ wpc \in {"idle", "begin"} /\ ~Backstop
Alone(p) == ~FromTelegram(p) /\ p \notin overlapped
CalmInv ==
  /\ \A p \in Open : Alone(p) => Calm
  /\ \A i \in turnTpos + 1 .. Len(log) : Alone(log[i].p) => Calm
LocalInv == at > 0 /\ log[at].p \in Open /\ Alone(log[at].p) => ~fromTg

TurnInv ==
  /\ TypeOK /\ EnteredInv /\ LogInv /\ ActiveInv /\ OwnerInv /\ FlagInv /\ WindowInv /\ SentInv
  /\ CalmInv /\ LocalInv /\ AnswersAreStored /\ RepliesReachTheAsker /\ TerminalStaysLocal

-----------------------------------------------------------------------------
(* Types *)

LEMMA DialogueFacts ==
  ASSUME dialogue \in Dialogues
  PROVE  /\ Len(dialogue) \in Nat /\ Prompts \subseteq Nat \ {0}
         /\ \A p \in Prompts : dialogue[p] \in PromptType
<1>1. dialogue = <<>> \/ dialogue \in Seq(PromptType)
  BY TurnAssumption
<1>2. dialogue \in Seq(PromptType)
  BY <1>1, EmptySeq
<1>3. Len(dialogue) \in Nat
  BY <1>2, LenProperties
<1>4. QED
  BY <1>2, <1>3, ElementOfSeq DEF Prompts

LEMMA ChatFacts ==
  ASSUME dialogue \in Dialogues, NEW p \in Prompts
  PROVE  /\ Chat(p) \in Chats \cup {Terminal}
         /\ FromTelegram(p) => Chat(p) \in Chats
BY DialogueFacts DEF Chat, FromTelegram, PromptType

\* What the theorems say of every state; the dialogue never changes.
Typed == dialogue \in Dialogues /\ TypeOK

LEMMA RecordFacts ==
  /\ \A k \in {"user", "text", "note", "end"}, p \in Prompts : Rec(k, p) \in Records
  /\ \A r \in Records : r.p \in Prompts /\ r.kind \in {"user", "text", "note", "end"} /\ r = Rec(r.kind, r.p)
  /\ \A k, p : Rec(k, p).kind = k /\ Rec(k, p).p = p
BY DEF Rec, Records

LEMMA LogFacts ==
  ASSUME Typed
  PROVE  /\ Len(log) \in Nat /\ tpos \in Nat /\ at \in Nat /\ at <= tpos /\ tpos <= Len(log)
         /\ turnTpos \in Nat /\ turnTpos <= Len(log)
         /\ \A i \in 1 .. Len(log) : log[i] \in Records
BY LenProperties, ElementOfSeq DEF Typed, TypeOK, SessionTypes, ReadTypes, OutboundTypes

LEMMA OpenTypes ==
  ASSUME Typed
  PROVE  Open \subseteq Prompts /\ Working \subseteq Prompts
<1>1. Range(todo) \subseteq Prompts
  BY RangeFacts DEF Typed, TypeOK, SessionTypes
<1>2. {run, late} \ {0} \subseteq Prompts
  BY DEF Typed, TypeOK, SessionTypes
<1>3. \A r \in Unread : r \in Records
  BY LogFacts DEF Unread
<1>4. {r.p : r \in Unread} \subseteq Prompts
  BY <1>3, RecordFacts
<1>5. wpc \in {"inject", "keys"} => wcur \in Prompts
  BY DEF Typed, TypeOK, WorkerTypes
<1>6. QED
  BY <1>1, <1>2, <1>4, <1>5 DEF Open, Working

LEMMA NextFacts ==
  ASSUME Typed, NextMessage # 0
  PROVE  NextMessage \in Prompts /\ wcur < NextMessage /\ FromTelegram(NextMessage)
<1> DEFINE rest == {p \in wcur + 1 .. Len(dialogue) : FromTelegram(p)}
<1>1. Len(dialogue) \in Nat /\ wcur \in Nat
  BY DialogueFacts DEF Typed, TypeOK, WorkerTypes
<1>2. rest # {} /\ rest \in SUBSET Nat
  BY <1>1 DEF NextMessage
<1>3. \E p \in rest : \A q \in rest : p <= q
  BY <1>2, Smallest
<1>4. NextMessage \in rest
  BY <1>2, <1>3 DEF NextMessage
<1>5. QED
  BY <1>1, <1>4 DEF Prompts

LEMMA LastTextFacts ==
  ASSUME Typed, Undelivered # {}
  PROVE  /\ LastText \in Undelivered /\ LastText \in turnTpos + 1 .. Len(log)
         /\ LastText \in 1 .. Len(log) /\ log[LastText] \in Records
         /\ log[LastText].kind = "text" /\ log[LastText].p \in Prompts /\ Fresh(log[LastText])
<1>1. Undelivered \in SUBSET (1 .. Len(log))
  BY LogFacts DEF Undelivered, SinceTurn
<1>2. \E i \in Undelivered : \A j \in Undelivered : j <= i
  BY <1>1, LogFacts, Largest
<1>3. LastText \in Undelivered
  BY <1>2 DEF LastText
<1>4. QED
  BY <1>1, <1>3, LogFacts, RecordFacts DEF Undelivered, SinceTurn

\* A step keeps the types of the variables it leaves alone.
LEMMA FrameTypes ==
  ASSUME Typed, dialogue' = dialogue
  PROVE  /\ UNCHANGED <<agent, todo, run, said, log, late, marker, typed>> => SessionTypes'
         /\ UNCHANGED flagVars => FlagTypes'
         /\ UNCHANGED <<tpos, turnTpos, readTexts, log>> => ReadTypes'
         /\ UNCHANGED storeVars => StoreTypes'
         /\ UNCHANGED workVars => WorkerTypes'
         /\ UNCHANGED <<outVars, tpos>> => OutboundTypes'
         /\ UNCHANGED histVars => HistoryTypes'
<1>1. Prompts' = Prompts /\ Records' = Records /\ Replies' = Replies
      /\ \A p : FromTelegram(p)' = FromTelegram(p)
  BY DEF Prompts, Records, Replies, FromTelegram, Chat
<1> USE DEF Typed, TypeOK
<1>2. UNCHANGED <<agent, todo, run, said, log, late, marker, typed>> => SessionTypes'
  BY <1>1 DEF SessionTypes
<1>3. UNCHANGED flagVars => FlagTypes'
  BY DEF FlagTypes, flagVars
<1>4. UNCHANGED <<tpos, turnTpos, readTexts, log>> => ReadTypes'
  BY <1>1 DEF ReadTypes
<1>5. UNCHANGED storeVars => StoreTypes'
  BY <1>1 DEF StoreTypes, storeVars
<1>6. UNCHANGED workVars => WorkerTypes'
  BY <1>1 DEF WorkerTypes, workVars
<1>7. UNCHANGED <<outVars, tpos>> => OutboundTypes'
  BY DEF OutboundTypes, outVars
<1>8. UNCHANGED histVars => HistoryTypes'
  BY <1>1 DEF HistoryTypes, histVars
<1>9. QED
  BY <1>2, <1>3, <1>4, <1>5, <1>6, <1>7, <1>8

LEMMA FaultTypes == ASSUME Typed, NEW k, Fault(k) PROVE faults' \in Nat
BY DEF Typed, TypeOK, HistoryTypes, Fault

\* The session: the input queue moves, and records of what it works on are appended.
SessionStep ==
  /\ UNCHANGED <<dialogue, agent, typed, flagVars, readVars, storeVars, workVars, outVars,
                 closedEarly, overlapped, swallowed>>
  /\ todo' \in Seq(Prompts) /\ run' \in Prompts \cup {0} /\ said' \in BOOLEAN
  /\ late' \in Prompts \cup {0} /\ marker' \in BOOLEAN /\ faults' \in Nat
  /\ Working' \subseteq Working
  /\ \/ log' = log /\ run' \in {0, run} /\ late' \in {0, late, run}
     \/ \E r \in Records :
          /\ log' = Append(log, r) /\ r.p \in Working
          /\ r.kind = "user" \/ r.p \in {run, late} \ {0}
          /\ \A p \in {run', late'} \ {0} : p = r.p

LEMMA WorkingParts ==
  ASSUME Typed
  PROVE  /\ todo \in Seq(Prompts) /\ run \in Prompts \cup {0} /\ late \in Prompts \cup {0}
         /\ Working = Range(todo) \cup ({run, late} \ {0})
         /\ said \in BOOLEAN /\ marker \in BOOLEAN /\ faults \in Nat /\ 0 \notin Prompts
BY DialogueFacts DEF Typed, TypeOK, SessionTypes, HistoryTypes, Working

LEMMA SessionSteps ==
  ASSUME Typed, LogInv,
         AgentStarts \/ AgentSpeaks \/ HarnessNote \/ AgentStops \/ ForeignHook \/ LateTextAppears
  PROVE  SessionStep
<1>0. \A p \in {run, late} \ {0} : log[Len(log)].p = p
  BY DEF LogInv
<1>a. run # 0 /\ late # 0 => run = late
  BY <1>0
<1>1. CASE AgentStarts
  <2>1. /\ Head(todo) \in Prompts /\ Tail(todo) \in Seq(Prompts)
        /\ Head(todo) \in Range(todo) /\ Range(Tail(todo)) \subseteq Range(todo)
    BY <1>1, WorkingParts, TailFacts DEF AgentStarts
  <2> DEFINE r == Rec("user", Head(todo))
  <2>2. r \in Records /\ r.p = Head(todo) /\ r.kind = "user"
    BY <2>1, RecordFacts
  <2> HIDE DEF r
  <2>3. /\ todo' = Tail(todo) /\ run' = Head(todo) /\ log' = Append(log, r) /\ run = 0 /\ late = 0
        /\ UNCHANGED <<said, late, marker, faults>>
    BY <1>1 DEF AgentStarts, histVars, r
  <2>4. Working' \subseteq Working /\ r.p \in Working
    BY <2>1, <2>2, <2>3 DEF Working
  <2>5. QED
    BY <1>1, <2>1, <2>2, <2>3, <2>4, WorkingParts DEF AgentStarts, SessionStep, histVars
<1>2. CASE AgentSpeaks
  <2> DEFINE r == Rec("text", run)
  <2>1. r \in Records /\ r.p = run /\ run # 0
    BY <1>2, WorkingParts, RecordFacts DEF AgentSpeaks
  <2> HIDE DEF r
  <2>2. /\ UNCHANGED <<todo, run, marker>> /\ said' = TRUE
        /\ \/ log' = Append(log, r) /\ UNCHANGED <<late, faults>>
           \/ late' = run /\ log' = log /\ faults' \in Nat
    BY <1>2, FaultTypes DEF AgentSpeaks, r
  <2>3. Working' \subseteq Working /\ run \in Working
    BY <2>1, <2>2 DEF Working
  <2>4. QED
    BY <1>2, <1>a, <2>1, <2>2, <2>3, WorkingParts DEF AgentSpeaks, SessionStep
<1>3. CASE HarnessNote
  <2> DEFINE r == Rec("note", run)
  <2>1. r \in Records /\ r.p = run /\ run # 0
    BY <1>3, WorkingParts, RecordFacts DEF HarnessNote
  <2> HIDE DEF r
  <2>2. UNCHANGED <<todo, run, late, marker, said>> /\ log' = Append(log, r) /\ faults' \in Nat
    BY <1>3, FaultTypes DEF HarnessNote, r
  <2>3. Working' \subseteq Working /\ run \in Working
    BY <2>1, <2>2 DEF Working
  <2>4. QED
    BY <1>3, <1>a, <2>1, <2>2, <2>3, WorkingParts DEF HarnessNote, SessionStep
<1>4. CASE AgentStops
  <2> DEFINE r == Rec("end", run)
  <2>1. r \in Records /\ r.p = run /\ run # 0
    BY <1>4, WorkingParts, RecordFacts DEF AgentStops
  <2> HIDE DEF r
  <2>2. /\ UNCHANGED <<todo, late>> /\ run' = 0 /\ said' = FALSE /\ marker' \in BOOLEAN /\ faults' \in Nat
        /\ log' \in {log, Append(log, r)}
    BY <1>4, FaultTypes, WorkingParts DEF AgentStops, r
  <2>3. Working' \subseteq Working /\ run \in Working
    BY <2>1, <2>2 DEF Working
  <2>4. QED
    BY <1>4, <1>a, <2>1, <2>2, <2>3, WorkingParts DEF AgentStops, SessionStep
<1>5. CASE ForeignHook
  <2>1. UNCHANGED <<todo, run, late, log, said>> /\ faults' \in Nat /\ marker' = TRUE
    BY <1>5, FaultTypes DEF ForeignHook
  <2>2. Working' = Working
    BY <2>1 DEF Working
  <2>3. QED
    BY <1>5, <2>1, <2>2, WorkingParts DEF ForeignHook, SessionStep
<1>6. CASE LateTextAppears
  <2> DEFINE r == Rec("text", late)
  <2>1. r \in Records /\ r.p = late /\ late # 0
    BY <1>6, WorkingParts, RecordFacts DEF LateTextAppears
  <2> HIDE DEF r
  <2>2. UNCHANGED <<todo, run, said, marker, faults>> /\ late' = 0 /\ log' = Append(log, r)
    BY <1>6 DEF LateTextAppears, histVars, r
  <2>3. Working' \subseteq Working /\ late \in Working
    BY <2>1, <2>2 DEF Working
  <2>4. QED
    BY <1>6, <1>a, <2>1, <2>2, <2>3, WorkingParts DEF LateTextAppears, SessionStep, histVars
<1>7. QED
  BY <1>1, <1>2, <1>3, <1>4, <1>5, <1>6

\* The log grows at its end, by a record of a prompt that is being worked on.
LEMMA LogGrows ==
  ASSUME Typed, LogInv, SessionStep
  PROVE  /\ log' \in Seq(Records) /\ Len(log') \in Nat /\ Len(log) <= Len(log')
         /\ \A i \in 1 .. Len(log) : log'[i] = log[i]
         /\ \A i \in 1 .. Len(log') : i \in 1 .. Len(log) \/ log'[i].p \in Working
         /\ LogInv'
<1>1. Len(log) \in Nat /\ log \in Seq(Records)
  BY LogFacts DEF Typed, TypeOK, SessionTypes
<1>2. CASE log' = log /\ run' \in {0, run} /\ late' \in {0, late, run}
  BY <1>1, <1>2 DEF LogInv
<1>3. ASSUME NEW r \in Records, log' = Append(log, r), r.p \in Working,
             r.kind = "user" \/ r.p \in {run, late} \ {0},
             \A p \in {run', late'} \ {0} : p = r.p
      PROVE  /\ log' \in Seq(Records) /\ Len(log') \in Nat /\ Len(log) <= Len(log')
             /\ \A i \in 1 .. Len(log) : log'[i] = log[i]
             /\ \A i \in 1 .. Len(log') : i \in 1 .. Len(log) \/ log'[i].p \in Working
             /\ LogInv'
  <2>1. /\ log' \in Seq(Records) /\ Len(log') = Len(log) + 1 /\ log'[Len(log) + 1] = r
        /\ \A i \in 1 .. Len(log) : log'[i] = log[i]
    BY <1>1, <1>3, AppendFacts
  <2>2. \A i \in 1 .. Len(log') : i \in 1 .. Len(log) \/ i = Len(log) + 1
    BY <1>1, <2>1
  <2>3. \A i \in 1 .. Len(log') : log'[i].kind = "user" \/ (i > 1 /\ log'[i - 1].p = log'[i].p)
    <3>1. ASSUME NEW i \in 1 .. Len(log)
          PROVE  log'[i].kind = "user" \/ (i > 1 /\ log'[i - 1].p = log'[i].p)
      <4>1. i > 1 => i - 1 \in 1 .. Len(log)
        BY <1>1
      <4>2. QED
        BY <2>1, <4>1 DEF LogInv
    <3>2. r.kind = "user" \/ (Len(log) + 1 > 1 /\ log'[(Len(log) + 1) - 1].p = r.p)
      <4>1. CASE r.kind = "user"
        BY <4>1
      <4>2. CASE r.p \in {run, late} \ {0}
        <5>1. Len(log) > 0 /\ log[Len(log)].p = r.p
          BY <4>2 DEF LogInv
        <5>2. Len(log) + 1 > 1 /\ (Len(log) + 1) - 1 = Len(log) /\ Len(log) \in 1 .. Len(log)
          BY <1>1, <5>1
        <5>3. QED
          BY <2>1, <5>1, <5>2
      <4>3. QED
        BY <1>3, <4>1, <4>2
    <3>3. QED
      BY <2>1, <2>2, <3>1, <3>2
  <2>4. \A p \in {run', late'} \ {0} : Len(log') > 0 /\ log'[Len(log')].p = p
    <3>1. Len(log') > 0 /\ log'[Len(log')].p = r.p
      BY <1>1, <2>1
    <3>2. QED
      BY <1>3, <3>1
  <2>5. LogInv'
    BY <2>3, <2>4 DEF LogInv
  <2>6. QED
    BY <1>1, <1>3, <2>1, <2>2, <2>5
<1>4. QED
  BY <1>2, <1>3 DEF SessionStep

LEMMA SessionTyped ==
  ASSUME Typed, LogInv, SessionStep
  PROVE  Typed'
<1>1. /\ log' \in Seq(Records) /\ Len(log') \in Nat /\ Len(log) <= Len(log')
  BY LogGrows
<1>2. dialogue' = dialogue /\ Prompts' = Prompts /\ Records' = Records
  BY DEF SessionStep, Prompts, Records
<1>3. FlagTypes' /\ StoreTypes' /\ WorkerTypes'
  BY <1>2, FrameTypes DEF SessionStep
<1>4. OutboundTypes'
  BY <1>2, FrameTypes DEF SessionStep, readVars
<1>5. ReadTypes'
  BY <1>1, <1>2, LogFacts DEF SessionStep, Typed, TypeOK, ReadTypes, readVars
<1>6. SessionTypes'
  BY <1>1, <1>2 DEF SessionStep, Typed, TypeOK, SessionTypes
<1>7. HistoryTypes'
  BY <1>2 DEF SessionStep, Typed, TypeOK, HistoryTypes
<1>8. QED
  BY <1>2, <1>3, <1>4, <1>5, <1>6, <1>7 DEF Typed, TypeOK

\* What a step of the session leaves open was open; what it makes known was known.
LEMMA SessionOpens ==
  ASSUME Typed, LogInv, SessionStep
  PROVE  Open' \subseteq Open /\ InLog' \subseteq InLog \cup Working /\ Working' \subseteq Working
<1>1. Working \subseteq Open
  BY DEF Working, Open
<1>2. at' = at /\ wpc' = wpc /\ wcur' = wcur /\ Working' \subseteq Working
  BY DEF SessionStep, workVars, outVars
<1>3. ASSUME NEW i \in at + 1 .. Len(log') PROVE log'[i].p \in Open
  <2>1. i \in 1 .. Len(log')
    BY LogFacts, LogGrows
  <2>2. CASE i \in 1 .. Len(log)
    <3>1. i \in at + 1 .. Len(log) /\ log'[i] = log[i]
      BY <2>2, LogFacts, LogGrows
    <3>2. QED
      BY <3>1 DEF Open, Unread
  <2>3. QED
    BY <1>1, <2>1, <2>2, LogGrows
<1>4. Open' = Working' \cup {log'[i].p : i \in at + 1 .. Len(log')}
                 \cup (IF wpc \in {"inject", "keys"} THEN {wcur} ELSE {})
  BY <1>2 DEF Open, Working, Unread
<1>5. (IF wpc \in {"inject", "keys"} THEN {wcur} ELSE {}) \subseteq Open
  BY DEF Open
<1>6. Open' \subseteq Open
  BY <1>1, <1>2, <1>3, <1>4, <1>5
<1>7. InLog' \subseteq InLog \cup Working
  BY LogGrows DEF InLog
<1>8. QED
  BY <1>2, <1>6, <1>7

LEMMA DialogueSame ==
  ASSUME dialogue' = dialogue
  PROVE  /\ Prompts' = Prompts
         /\ \A p : /\ FromTelegram(p)' = FromTelegram(p) /\ Kind(p)' = Kind(p) /\ Chat(p)' = Chat(p)
                   /\ AskedIn(p)' = AskedIn(p) /\ Marked(p)' = Marked(p)
                   /\ Tagged(p)' = Tagged(p)
BY DEF Prompts, FromTelegram, Kind, Chat, Marked, Tagged, AskedIn

LEMMA ReadSame ==
  ASSUME Typed, at' = at, \A i \in 1 .. Len(log) : log'[i] = log[i]
  PROVE  /\ \A r : Read(r)' = Read(r)
         /\ at > 0 => log'[at] = log[at] /\ at \in 1 .. Len(log)
         /\ \A i \in 1 .. at : log'[i] = log[i]
<1>1. \A i \in 1 .. at : i \in 1 .. Len(log)
  BY LogFacts
<1>2. at > 0 => at \in 1 .. Len(log)
  BY LogFacts
<1>3. QED
  BY <1>1, <1>2 DEF Read

\* The invariants on what was read and stored hold while nothing is read and stored.
LEMMA NothingRead ==
  ASSUME Typed, FlagInv, WindowInv, SentInv, AnswersAreStored, RepliesReachTheAsker, TerminalStaysLocal,
         dialogue' = dialogue, agent' = agent, at' = at, \A i \in 1 .. Len(log) : log'[i] = log[i],
         UNCHANGED <<stored, swallowed>>, readTexts \subseteq readTexts',
         sent' \subseteq {s.p : s \in stored},
         fromTg => fromTg', closedEarly \subseteq closedEarly', overlapped \subseteq overlapped'
  PROVE  /\ FlagInv' /\ WindowInv' /\ SentInv' /\ AnswersAreStored' /\ RepliesReachTheAsker'
         /\ TerminalStaysLocal'
<1>1. /\ \A r : Read(r)' = Read(r)
      /\ at > 0 => log'[at] = log[at]
      /\ \A i \in 1 .. at : log'[i] = log[i]
  BY ReadSame
<1>2. \A p : Excused(p) => Excused(p)'
  BY <1>1 DEF Excused
<1>3. FlagInv'
  BY <1>1, <1>2, DialogueSame DEF FlagInv
<1>4. WindowInv' /\ SentInv'
  BY <1>1 DEF WindowInv, SentInv
<1>5. AnswersAreStored'
  BY <1>1, DialogueSame DEF AnswersAreStored
<1>6. RepliesReachTheAsker' /\ TerminalStaysLocal'
  BY DialogueSame DEF RepliesReachTheAsker, TerminalStaysLocal
<1>7. QED
  BY <1>3, <1>4, <1>5, <1>6

\* The invariants on open turns hold while the flags of the bridge stay and nothing opens.
LEMMA NothingOpens ==
  ASSUME Typed, EnteredInv, ActiveInv, OwnerInv, LocalInv,
         dialogue' = dialogue, typed' = typed, workVars' = workVars, at' = at,
         \A i \in 1 .. Len(log) : log'[i] = log[i],
         Working' \cup InLog' \subseteq Working \cup InLog, Open' \subseteq Open,
         active' = active, owner' = owner, fromTg' = fromTg,
         closedEarly \subseteq closedEarly', overlapped \subseteq overlapped'
  PROVE  EnteredInv' /\ ActiveInv' /\ OwnerInv' /\ LocalInv'
<1>1. at > 0 => log'[at] = log[at]
  BY ReadSame
<1>2. wpc' = wpc /\ wcur' = wcur
  BY DEF workVars
<1>3. EnteredInv'
  BY <1>2, DialogueSame DEF EnteredInv
<1>4. ActiveInv' /\ OwnerInv'
  BY <1>2, DialogueSame DEF ActiveInv, OwnerInv
<1>5. LocalInv'
  BY <1>1, DialogueSame DEF LocalInv, Alone
<1>6. QED
  BY <1>3, <1>4, <1>5

LEMMA SessionKeeps ==
  ASSUME TurnInv /\ dialogue \in Dialogues, SessionStep
  PROVE  TurnInv' /\ dialogue' \in Dialogues
<1> USE DEF TurnInv
<1>1. Typed
  BY DEF Typed
<1>2. Typed' /\ LogInv'
  BY <1>1, SessionTyped, LogGrows
<1>3. /\ UNCHANGED <<dialogue, agent, typed, flagVars, readVars, storeVars, workVars, outVars,
                     closedEarly, overlapped, swallowed>>
      /\ \A i \in 1 .. Len(log) : log'[i] = log[i]
      /\ Open' \subseteq Open /\ InLog' \subseteq InLog \cup Working /\ Working' \subseteq Working
  BY <1>1, LogGrows, SessionOpens DEF SessionStep
<1>4. /\ UNCHANGED <<owner, active, fromTg, tpos, turnTpos, readTexts, stored, sent, wpc, opc, ret, at>>
  BY <1>3 DEF flagVars, readVars, storeVars, workVars, outVars
<1>5. sent' \subseteq {s.p : s \in stored}
  BY <1>4 DEF SentInv
<1>6. /\ FlagInv' /\ WindowInv' /\ SentInv' /\ AnswersAreStored' /\ RepliesReachTheAsker'
      /\ TerminalStaysLocal'
  BY <1>1, <1>3, <1>4, <1>5, NothingRead
<1>7. EnteredInv' /\ ActiveInv' /\ OwnerInv' /\ LocalInv'
  BY <1>1, <1>3, <1>4, NothingOpens
<1>8. CalmInv'
  <2>1. Calm' = Calm /\ \A p : Alone(p)' = Alone(p)
    BY <1>3, <1>4, DialogueSame DEF Calm, Backstop, Alone
  <2>2. \A p \in Open' : Alone(p)' => Calm'
    BY <1>3, <2>1 DEF CalmInv
  <2>3. ASSUME NEW i \in turnTpos + 1 .. Len(log'), Alone(log'[i].p) PROVE Calm
    <3>1. i \in 1 .. Len(log')
      BY <1>1, LogFacts, LogGrows
    <3>2. CASE i \in 1 .. Len(log)
      <4>1. i \in turnTpos + 1 .. Len(log) /\ log'[i] = log[i]
        BY <1>1, <1>3, <3>2, LogFacts
      <4>2. QED
        BY <2>3, <4>1 DEF CalmInv
    <3>3. CASE log'[i].p \in Working
      <4>1. log'[i].p \in Open
        BY <3>3 DEF Open, Working
      <4>2. QED
        BY <2>3, <4>1 DEF CalmInv
    <3>4. QED
      BY <1>1, <3>1, <3>2, <3>3, LogGrows
  <2>4. \A i \in turnTpos' + 1 .. Len(log') : Alone(log[i].p)' => Calm'
    BY <1>4, <2>1, <2>3
  <2>5. QED
    BY <2>2, <2>4 DEF CalmInv
<1>9. QED
  BY <1>2, <1>6, <1>7, <1>8 DEF Typed

\* A prompt is typed at the terminal.
LEMMA TerminalKeeps ==
  ASSUME TurnInv /\ dialogue \in Dialogues, TypeAtTerminal
  PROVE  TurnInv' /\ dialogue' \in Dialogues
<1> USE DEF TurnInv
<1>1. Typed
  BY DEF Typed
<1>2. PICK p \in Prompts \ typed :
        /\ ~FromTelegram(p) /\ typed' = typed \cup {p} /\ todo' = Append(todo, p)
        /\ Meet(p, active \/ wpc # "idle")
  BY DEF TypeAtTerminal
<1>3. /\ UNCHANGED <<dialogue, agent, run, said, log, late, marker, flagVars, readVars, storeVars,
                     workVars, outVars, closedEarly, swallowed, faults>>
      /\ UNCHANGED <<owner, active, fromTg, tpos, turnTpos, readTexts, stored, sent, wpc, wcur, opc, ret, at>>
  BY DEF TypeAtTerminal, flagVars, readVars, storeVars, workVars, outVars
<1>4. /\ todo' \in Seq(Prompts) /\ Range(todo') = Range(todo) \cup {p}
  <2>1. todo \in Seq(Prompts)
    BY <1>1, WorkingParts
  <2>2. p \in Prompts /\ todo' = Append(todo, p)
    BY <1>2
  <2>3. QED
    BY <2>1, <2>2, AppendRange
<1>5. /\ Working' = Working \cup {p} /\ InLog' = InLog /\ Open' = Open \cup {p}
  BY <1>3, <1>4 DEF Working, InLog, Open, Unread
<1>6. /\ overlapped \subseteq overlapped' /\ overlapped' \subseteq overlapped \cup Open \cup {p}
      /\ p \notin overlapped' => Open = {} /\ ~Closing /\ ~active /\ wpc = "idle"
  BY <1>2 DEF Meet
<1>7. Typed'
  <2>1. dialogue' = dialogue /\ Prompts' = Prompts /\ Records' = Records
    BY <1>3 DEF Prompts, Records
  <2>2. SessionTypes'
    BY <1>2, <1>3, <1>4, <2>1 DEF TypeOK, SessionTypes
  <2>3. HistoryTypes'
    BY <1>1, <1>3, <1>6, <2>1, OpenTypes DEF TypeOK, HistoryTypes
  <2>4. FlagTypes' /\ ReadTypes' /\ StoreTypes' /\ WorkerTypes' /\ OutboundTypes'
    BY <1>1, <1>3, FrameTypes
  <2>5. QED
    BY <2>1, <2>2, <2>3, <2>4 DEF Typed, TypeOK
<1>8. LogInv' /\ EnteredInv'
  BY <1>2, <1>3, <1>5, DialogueSame DEF LogInv, EnteredInv
<1>9. ActiveInv' /\ OwnerInv'
  BY <1>2, <1>3, <1>5, DialogueSame DEF ActiveInv, OwnerInv
<1>10. /\ FlagInv' /\ WindowInv' /\ SentInv' /\ AnswersAreStored' /\ RepliesReachTheAsker'
       /\ TerminalStaysLocal'
  <2>1. sent' \subseteq {s.p : s \in stored}
    BY <1>3 DEF SentInv
  <2>2. QED
    BY <1>1, <1>3, <1>6, <2>1, NothingRead
<1>11. /\ \A q : Alone(q)' => Alone(q)
       /\ Calm' = Calm /\ (Alone(p)' => Calm)
  BY <1>3, <1>6, DialogueSame DEF Alone, Calm, Backstop, Closing
<1>12. CalmInv'
  BY <1>3, <1>5, <1>11 DEF CalmInv
<1>13. LocalInv'
  <2>1. at > 0 => log[at].p \in InLog
    BY <1>1, LogFacts DEF InLog
  <2>2. at > 0 => log[at].p # p
    BY <1>2, <2>1 DEF EnteredInv
  <2>3. QED
    BY <1>3, <1>5, <1>11, <2>2 DEF LocalInv
<1>14. QED
  BY <1>7, <1>8, <1>9, <1>10, <1>12, <1>13 DEF Typed

-----------------------------------------------------------------------------
(* The worker *)

\* A message or a reaction is taken: the recipient moves only when nothing is open.
LEMMA TakeKeeps ==
  ASSUME TurnInv /\ dialogue \in Dialogues, TakeReaction \/ TakeMessage
  PROVE  TurnInv' /\ dialogue' \in Dialogues
<1> USE DEF TurnInv
<1>1. Typed
  BY DEF Typed
<1>2. /\ UNCHANGED <<sessionVars, readVars, storeVars, outVars, histVars>>
      /\ UNCHANGED <<active, fromTg, textSent, reaction, pendingEnd>>
      /\ UNCHANGED <<dialogue, agent, todo, run, said, log, late, marker, typed, tpos, turnTpos, readTexts,
                     stored, sent, opc, ret, at, closedEarly, overlapped, swallowed>>
      /\ wpc = "idle" /\ wpc' \in {"idle", "begin"} /\ wcur' = NextMessage /\ NextMessage # 0
  BY DEF TakeReaction, TakeMessage, sessionVars, flagVars, readVars, storeVars, outVars, histVars
<1>3. NextMessage \in Prompts /\ wcur < NextMessage /\ FromTelegram(NextMessage)
  BY <1>1, <1>2, NextFacts
<1>4. \/ owner' = owner /\ (wpc' # "idle" => Kind(NextMessage) # "message")
      \/ owner' = Chat(NextMessage) /\ MaySwitch(Chat(NextMessage))
  BY DEF TakeReaction, TakeMessage, flagVars
<1>5. Working' = Working /\ InLog' = InLog /\ Open' = Open
  BY <1>2 DEF Working, InLog, Open, Unread
<1>6. Typed'
  <2>1. dialogue' = dialogue /\ Prompts' = Prompts
    BY <1>2 DEF Prompts
  <2>2. owner' \in Chats
    BY <1>1, <1>3, <1>4, ChatFacts DEF Typed, TypeOK, FlagTypes
  <2>3. FlagTypes'
    BY <1>2, <2>2 DEF TypeOK, FlagTypes
  <2>4. WorkerTypes'
    BY <1>2, <1>3, <2>1, DialogueSame DEF TypeOK, WorkerTypes
  <2>5. SessionTypes' /\ ReadTypes' /\ StoreTypes' /\ OutboundTypes' /\ HistoryTypes'
    BY <1>1, <1>2, FrameTypes DEF sessionVars, readVars
  <2>6. QED
    BY <2>1, <2>3, <2>4, <2>5, <1>2 DEF Typed, TypeOK
<1>7. LogInv' /\ EnteredInv'
  <2>1. LogInv'
    BY <1>2 DEF LogInv
  <2>2. Working \cup InLog \subseteq Nat /\ wcur \in Nat /\ NextMessage \in Nat
    <3>1. InLog \subseteq Prompts
      BY <1>1, LogFacts, RecordFacts DEF InLog
    <3>2. QED
      BY <1>1, <1>3, <3>1, OpenTypes, DialogueFacts DEF TypeOK, WorkerTypes
  <2>3. \A p \in Working \cup InLog : FromTelegram(p) => p < NextMessage
    BY <1>2, <1>3, <2>2 DEF EnteredInv
  <2>4. EnteredInv'
    BY <1>2, <1>5, <2>3, DialogueSame DEF EnteredInv
  <2>5. QED
    BY <2>1, <2>4
<1>8. ActiveInv'
  BY <1>2, <1>5, DialogueSame DEF ActiveInv
<1>9. OwnerInv'
  <2>1. \A p \in Open : FromTelegram(p) /\ p \notin closedEarly => active
    BY DEF ActiveInv
  <2>2. \A p \in Open : FromTelegram(p) /\ p \notin closedEarly => owner' = owner
    BY <1>4, <2>1 DEF MaySwitch
  <2>3. wpc' # "idle" /\ Kind(NextMessage) = "message" => owner' = Chat(NextMessage)
    BY <1>4
  <2>4. QED
    BY <1>2, <1>5, <2>2, <2>3, DialogueSame DEF OwnerInv
<1>10. /\ FlagInv' /\ WindowInv' /\ SentInv' /\ AnswersAreStored' /\ RepliesReachTheAsker'
       /\ TerminalStaysLocal'
  <2>1. sent' \subseteq {s.p : s \in stored}
    BY <1>2 DEF SentInv
  <2>2. QED
    BY <1>1, <1>2, <2>1, NothingRead
<1>11. CalmInv' /\ LocalInv'
  <2>1. (Calm => Calm') /\ \A p : Alone(p)' = Alone(p)
    BY <1>2, DialogueSame DEF Calm, Backstop, Alone
  <2>2. QED
    BY <1>2, <1>5, <2>1 DEF CalmInv, LocalInv
<1>12. QED
  BY <1>6, <1>7, <1>8, <1>9, <1>10, <1>11 DEF Typed

\* A turn is opened: whoever is still open shares it.
LEMMA BeginKeeps ==
  ASSUME TurnInv /\ dialogue \in Dialogues, BeginTurn
  PROVE  TurnInv' /\ dialogue' \in Dialogues
<1> USE DEF TurnInv
<1>1. Typed
  BY DEF Typed
<1>2. /\ UNCHANGED <<dialogue, agent, todo, run, said, log, late, typed, owner, tpos, readTexts, readWords,
                     storeVars, wcur, outVars, closedEarly, swallowed, faults>>
      /\ UNCHANGED <<stored, sent, at>>
      /\ wpc = "begin" /\ wpc' = "inject" /\ active' = TRUE /\ fromTg' = TRUE /\ textSent' = FALSE
      /\ marker' = FALSE /\ pendingEnd' = FALSE /\ turnTpos' = tpos /\ Meet(wcur, FALSE)
      /\ reaction' \in BOOLEAN
  BY DEF BeginTurn, ForgetEnd, storeVars, outVars
<1>3. wcur \in Prompts /\ FromTelegram(wcur)
  BY <1>2 DEF TypeOK, WorkerTypes
<1>4. Working' = Working /\ InLog' = InLog /\ Open' = Open \cup {wcur}
  BY <1>2 DEF Working, InLog, Open, Unread
<1>5. /\ overlapped \subseteq overlapped' /\ overlapped' \subseteq overlapped \cup Open \cup {wcur}
      /\ Open \subseteq overlapped'
  BY <1>2 DEF Meet
<1>6. Typed'
  <2>1. dialogue' = dialogue /\ Prompts' = Prompts /\ Records' = Records
    BY <1>2 DEF Prompts, Records
  <2>2. SessionTypes' /\ FlagTypes' /\ WorkerTypes'
    BY <1>2, <1>3, <2>1, DialogueSame DEF TypeOK, SessionTypes, FlagTypes, WorkerTypes
  <2>3. HistoryTypes'
    BY <1>1, <1>2, <1>3, <1>5, <2>1, OpenTypes DEF TypeOK, HistoryTypes
  <2>4. ReadTypes'
    BY <1>2, <2>1 DEF TypeOK, ReadTypes
  <2>5. StoreTypes' /\ OutboundTypes'
    BY <1>1, <1>2, FrameTypes
  <2>6. QED
    BY <2>1, <2>2, <2>3, <2>4, <2>5, <1>2 DEF Typed, TypeOK
<1>7. LogInv' /\ EnteredInv'
  BY <1>2, <1>4, DialogueSame DEF LogInv, EnteredInv
<1>8. ActiveInv' /\ OwnerInv'
  BY <1>2, <1>4, DialogueSame DEF ActiveInv, OwnerInv
<1>9. /\ FlagInv' /\ WindowInv' /\ SentInv' /\ AnswersAreStored' /\ RepliesReachTheAsker'
      /\ TerminalStaysLocal'
  <2>1. sent' \subseteq {s.p : s \in stored}
    BY <1>2 DEF SentInv
  <2>2. QED
    BY <1>1, <1>2, <1>5, <2>1, NothingRead
<1>10. \A p \in Open' : ~Alone(p)'
  BY <1>2, <1>3, <1>4, <1>5, DialogueSame DEF Alone
<1>11. \A i \in turnTpos' + 1 .. Len(log') : log'[i].p \in Open
  <2>1. \A i \in tpos + 1 .. Len(log) : i \in at + 1 .. Len(log)
    BY <1>1, LogFacts
  <2>2. QED
    BY <1>2, <2>1 DEF Open, Unread
<1>12. CalmInv' /\ LocalInv'
  BY <1>2, <1>4, <1>10, <1>11 DEF CalmInv, LocalInv
<1>13. QED
  BY <1>6, <1>7, <1>8, <1>9, <1>12 DEF Typed

\* The prompt is typed, or the worker gives up and closes the turn.
LEMMA InjectKeeps ==
  ASSUME TurnInv /\ dialogue \in Dialogues,
         InjectStarts \/ InjectDone \/ InjectRepeats \/ InjectRefused \/ InjectTimesOut
  PROVE  TurnInv' /\ dialogue' \in Dialogues
<1> USE DEF TurnInv
<1>1. Typed
  BY DEF Typed
<1>2. /\ UNCHANGED <<dialogue, agent, run, said, log, late, marker, typed, owner, fromTg, textSent,
                     reaction, pendingEnd, readVars, storeVars, wcur, outVars, overlapped, swallowed>>
      /\ UNCHANGED <<tpos, turnTpos, readTexts, stored, sent, at>>
      /\ wpc \in {"inject", "keys"} /\ faults' \in Nat
  BY <1>1, WorkingParts, FaultTypes
     DEF InjectStarts, InjectDone, InjectRepeats, InjectRefused, InjectTimesOut, GiveUpInjecting,
         sessionVars, flagVars, readVars, storeVars, workVars, outVars, histVars
<1>3. wcur \in Prompts /\ FromTelegram(wcur) /\ wcur \in Open
  BY <1>2 DEF TypeOK, WorkerTypes, Open
<1>4. wcur \in Nat
  BY <1>1, <1>3, DialogueFacts
<1>5. Append(todo, wcur) \in Seq(Prompts) /\ Range(Append(todo, wcur)) = Range(todo) \cup {wcur}
  <2>1. todo \in Seq(Prompts)
    BY <1>1, WorkingParts
  <2>2. QED
    BY <1>3, <2>1, AppendRange
<1> DEFINE Rest == Working \cup {r.p : r \in Unread}
<1>6. Open = Rest \cup {wcur} /\ InLog' = InLog
  BY <1>2 DEF Open, Working, InLog
<1>7. \/ /\ wpc = "inject" /\ wpc' = "keys" /\ active' = TRUE /\ closedEarly' = closedEarly
         /\ todo' = todo /\ Working' = Working /\ Open' = Open
      \/ /\ wpc = "keys" /\ wpc' = "keys" /\ active' = active /\ closedEarly' = closedEarly
         /\ todo' = Append(todo, wcur) /\ Working' = Working \cup {wcur} /\ Open' = Open
      \/ /\ wpc = "keys" /\ wpc' = "idle" /\ active' = active /\ closedEarly' = closedEarly
         /\ todo' = Append(todo, wcur) /\ Working' = Working \cup {wcur} /\ Open' = Open
      \/ /\ wpc = "keys" /\ wpc' = "idle" /\ active' = FALSE /\ closedEarly' = closedEarly \cup Open'
         /\ todo' = Append(todo, wcur) /\ Working' = Working \cup {wcur} /\ Open' = Open
      \/ /\ wpc = "keys" /\ wpc' = "idle" /\ active' = FALSE /\ closedEarly' = closedEarly \cup Open'
         /\ todo' = todo /\ Working' = Working /\ Open' = Rest
  <2>1. CASE InjectStarts
    BY <2>1, <1>2 DEF InjectStarts, sessionVars, histVars, Working, Open, Unread
  <2>2. CASE InjectDone
    BY <2>2, <1>2, <1>5 DEF InjectDone, flagVars, histVars, Working, Open, Unread
  <2>3. CASE InjectRepeats
    BY <2>3, <1>2, <1>5 DEF InjectRepeats, flagVars, workVars, Working, Open, Unread
  <2>4. CASE InjectTimesOut
    BY <2>4, <1>2, <1>5 DEF InjectTimesOut, GiveUpInjecting, Working, Open, Unread
  <2>5. CASE InjectRefused
    BY <2>5, <1>2 DEF InjectRefused, GiveUpInjecting, Working, Open, Unread
  <2>6. QED
    BY <2>1, <2>2, <2>3, <2>4, <2>5
<1> HIDE DEF Rest
<1>8. closedEarly \subseteq closedEarly' /\ closedEarly' \subseteq closedEarly \cup Open /\ Open' \subseteq Open
  BY <1>6, <1>7
<1>9. Typed'
  <2>1. dialogue' = dialogue /\ Prompts' = Prompts /\ Records' = Records
    BY <1>2 DEF Prompts, Records
  <2>2. todo' \in Seq(Prompts)
    BY <1>1, <1>5, <1>7, WorkingParts
  <2>3. active' \in BOOLEAN /\ wpc' \in {"idle", "keys"}
    BY <1>7 DEF TypeOK, FlagTypes
  <2>4. SessionTypes' /\ FlagTypes' /\ WorkerTypes'
    BY <1>2, <1>3, <2>1, <2>2, <2>3, DialogueSame DEF TypeOK, SessionTypes, FlagTypes, WorkerTypes
  <2>5. HistoryTypes'
    BY <1>1, <1>2, <1>8, <2>1, OpenTypes DEF TypeOK, HistoryTypes
  <2>6. ReadTypes' /\ StoreTypes' /\ OutboundTypes'
    BY <1>1, <1>2, FrameTypes DEF readVars
  <2>7. QED
    BY <1>2, <2>1, <2>4, <2>5, <2>6 DEF Typed, TypeOK
<1>10. LogInv' /\ EnteredInv'
  <2>1. LogInv'
    BY <1>2 DEF LogInv
  <2>2. /\ Working' \subseteq Working \cup {wcur} /\ wpc' \in {"idle", "keys"}
        /\ wpc = "inject" => Working' = Working
    BY <1>7
  <2>3. EnteredInv'
    BY <1>2, <1>3, <1>4, <1>6, <2>2, DialogueSame DEF EnteredInv
  <2>4. QED
    BY <2>1, <2>3
<1>11. ActiveInv'
  <2>1. \A p \in Open' : p \in Open /\ (active' \/ active' = active \/ p \in closedEarly')
    BY <1>6, <1>7
  <2>2. QED
    BY <1>2, <1>8, <2>1, DialogueSame DEF ActiveInv
<1>12. OwnerInv'
  <2>1. wpc' # "idle" => wpc # "idle"
    BY <1>2
  <2>2. QED
    BY <1>2, <1>8, <2>1, DialogueSame DEF OwnerInv
<1>13. /\ FlagInv' /\ WindowInv' /\ SentInv' /\ AnswersAreStored' /\ RepliesReachTheAsker'
       /\ TerminalStaysLocal'
  <2>1. sent' \subseteq {s.p : s \in stored}
    BY <1>2 DEF SentInv
  <2>2. QED
    BY <1>1, <1>2, <1>8, <2>1, NothingRead
<1>14. ~Calm /\ \A p : Alone(p)' = Alone(p)
  BY <1>2, DialogueSame DEF Calm, Alone
<1>15. CalmInv' /\ LocalInv'
  BY <1>2, <1>8, <1>14 DEF CalmInv, LocalInv
<1>16. QED
  BY <1>9, <1>10, <1>11, <1>12, <1>13, <1>15 DEF Typed


-----------------------------------------------------------------------------
(* The outbound thread *)

\* The reader remembers the texts it has parsed.
LEMMA RememberFacts ==
  ASSUME Typed, NEW recs \in SUBSET Records, Remember(recs)
  PROVE  /\ readTexts \subseteq readTexts' /\ readTexts' \subseteq Prompts
         /\ agent = "codex" => \A r \in recs : r.kind = "text" => r.p \in readTexts'
<1>1. readTexts \subseteq Prompts
  BY DEF Typed, TypeOK, ReadTypes
<1>2. \A r \in recs : r.p \in Prompts
  BY RecordFacts
<1>3. QED
  BY <1>1, <1>2 DEF Remember

LEMMA SinceTurnFacts ==
  ASSUME Typed
  PROVE  {log[i] : i \in SinceTurn} \in SUBSET Records
BY LogFacts DEF SinceTurn

\* A step that neither handles a record nor stores a reply nor closes the turn.
OutboundStep ==
  /\ UNCHANGED <<dialogue, agent, todo, run, said, log, late, marker, typed, flagVars, turnTpos, stored,
                 workVars, at, closedEarly, overlapped, swallowed>>
  /\ sent' \subseteq {s.p : s \in stored}
  /\ readTexts \subseteq readTexts' /\ readTexts' \subseteq Prompts /\ tpos' \in {tpos, Len(log)}
  /\ OutboundTypes' /\ faults' \in Nat
  /\ Calm => Calm'

LEMMA BetweenBlocks ==
  ASSUME Typed, opc # "drain"
  PROVE  at = tpos
BY LogFacts DEF Typed, TypeOK, OutboundTypes

LEMMA OutboundSteps ==
  ASSUME Typed, SentInv,
         \/ Flush \/ DrainNothing \/ DrainBlock \/ EndSeen \/ Silence \/ NoEnd
         \/ StartBackstop \/ BackstopRetries \/ BackstopGivesUp
  PROVE  OutboundStep
<1> USE DEF OutboundTypes
<1>1. /\ at \in 0 .. tpos /\ tpos \in Nat /\ Len(log) \in Nat /\ tpos <= Len(log) /\ tries \in 0 .. Retries
      /\ Retries \in Nat /\ readTexts \subseteq Prompts /\ faults \in Nat
      /\ ret \in {"check", "finish", "rescan"} /\ (at < tpos => opc = "drain")
      /\ opc \in {"flush", "drain", "check", "finish", "scan", "rescan", "close"}
  BY LogFacts, TurnAssumption DEF Typed, TypeOK, HistoryTypes, ReadTypes
<1>2. sent \subseteq {s.p : s \in stored}
  BY DEF SentInv
<1>3. CASE Flush
  <2>1. faults' \in Nat
    BY <1>1, <1>3, FaultTypes DEF Flush
  <2>2. sent' \subseteq {s.p : s \in stored}
    BY <1>2, <1>3 DEF Flush
  <2>3. /\ UNCHANGED <<sessionVars, flagVars, readVars, stored, workVars, at, tries, closedEarly,
                       overlapped, swallowed>>
        /\ opc' = "drain" /\ ret' = "check"
    BY <1>3 DEF Flush
  <2>4. QED
    BY <1>1, <2>1, <2>2, <2>3 DEF OutboundStep, sessionVars, flagVars, readVars, workVars, Calm, Backstop
<1>4. CASE DrainNothing
  <2>1. /\ UNCHANGED <<sessionVars, flagVars, readVars, storeVars, workVars, ret, at, tries, histVars>>
        /\ opc = "drain" /\ at = tpos /\ opc' = ret
    BY <1>4 DEF DrainNothing
  <2>2. QED
    BY <1>1, <1>2, <2>1
       DEF OutboundStep, sessionVars, flagVars, readVars, storeVars, workVars, histVars, Calm, Backstop
<1>5. CASE DrainBlock
  <2>1. /\ UNCHANGED <<sessionVars, flagVars, turnTpos, readTexts, readWords, storeVars, workVars, outVars,
                       histVars>>
        /\ opc = "drain" /\ at = tpos /\ tpos' = Len(log) /\ opc' = opc /\ ret' = ret /\ at' = at
        /\ tries' = tries
    BY <1>5 DEF DrainBlock, outVars
  <2>2. at \in 0 .. Len(log)
    BY <1>1
  <2>3. QED
    BY <1>1, <1>2, <2>1, <2>2
       DEF OutboundStep, sessionVars, flagVars, readVars, storeVars, workVars, histVars, Calm, Backstop
<1>6. CASE EndSeen \/ Silence \/ NoEnd \/ StartBackstop
  <2>1. /\ UNCHANGED <<sessionVars, flagVars, readVars, storeVars, workVars, at, tries, closedEarly,
                       overlapped, swallowed>>
        /\ opc # "drain" /\ faults' \in Nat
    BY <1>1, <1>6, FaultTypes DEF EndSeen, Silence, NoEnd, StartBackstop, histVars
  <2>2. \/ opc' \in {"finish", "flush"} /\ ret' = ret
        \/ opc' = "drain" /\ ret' = "finish"
        \/ opc' = "scan" /\ ret' = ret /\ active
    BY <1>6 DEF EndSeen, Silence, NoEnd, StartBackstop, Unanswered
  <2>3. at = tpos
    BY <2>1, BetweenBlocks
  <2>4. OutboundTypes'
    BY <1>1, <2>1, <2>2, <2>3 DEF readVars
  <2>5. Calm => Calm'
    BY <2>1, <2>2 DEF Calm, Backstop, flagVars, workVars
  <2>6. QED
    BY <1>1, <1>2, <2>1, <2>4, <2>5 DEF OutboundStep, sessionVars, flagVars, readVars, storeVars, workVars
<1>7. CASE BackstopRetries \/ BackstopGivesUp
  <2>1. /\ UNCHANGED <<sessionVars, flagVars, tpos, turnTpos, storeVars, workVars, at, histVars>>
        /\ opc \in {"scan", "rescan"}
    BY <1>7 DEF BackstopRetries, BackstopGivesUp
  <2>2. \/ opc' = "close" /\ ret' = ret /\ tries' = tries
        \/ opc' = "drain" /\ ret' = "rescan" /\ tries' = tries + 1 /\ tries < Retries
    BY <1>7 DEF BackstopRetries, BackstopGivesUp, MayRetry
  <2>3. readTexts \subseteq readTexts' /\ readTexts' \subseteq Prompts
    <3>1. PICK recs \in SUBSET Records : Remember(recs)
      BY <1>7, SinceTurnFacts DEF BackstopRetries, BackstopGivesUp
    <3>2. QED
      BY <3>1, RememberFacts
  <2>4. at = tpos
    BY <2>1, BetweenBlocks
  <2>5. tries' \in 0 .. Retries
    BY <1>1, <2>2
  <2>6. OutboundTypes'
    BY <1>1, <2>1, <2>2, <2>4, <2>5
  <2>7. ~Calm
    BY <2>1 DEF Calm, Backstop
  <2>8. QED
    BY <1>1, <1>2, <2>1, <2>3, <2>6, <2>7
       DEF OutboundStep, sessionVars, flagVars, storeVars, workVars, histVars
<1>8. QED
  BY <1>3, <1>4, <1>5, <1>6, <1>7

LEMMA OutboundKeeps ==
  ASSUME TurnInv /\ dialogue \in Dialogues, OutboundStep
  PROVE  TurnInv' /\ dialogue' \in Dialogues
<1>0. /\ TypeOK /\ EnteredInv /\ LogInv /\ ActiveInv /\ OwnerInv /\ FlagInv /\ WindowInv /\ SentInv
      /\ CalmInv /\ LocalInv /\ AnswersAreStored /\ RepliesReachTheAsker /\ TerminalStaysLocal
  BY DEF TurnInv
<1>1. Typed
  BY <1>0 DEF Typed
<1>2. /\ UNCHANGED <<dialogue, agent, todo, run, said, log, late, marker, typed, flagVars, turnTpos, stored,
                     workVars, at, closedEarly, overlapped, swallowed, owner, active, fromTg, wpc, wcur>>
      /\ sent' \subseteq {s.p : s \in stored}
      /\ readTexts \subseteq readTexts' /\ readTexts' \subseteq Prompts /\ tpos' \in {tpos, Len(log)}
      /\ OutboundTypes' /\ faults' \in Nat
      /\ Calm => Calm'
  BY DEF OutboundStep, flagVars, workVars
<1>3. Working' = Working /\ InLog' = InLog /\ Open' = Open
  BY <1>2 DEF Working, InLog, Open, Unread
<1>4. Typed'
  <2>1. dialogue' = dialogue /\ Prompts' = Prompts /\ Records' = Records /\ Replies' = Replies
    BY <1>2 DEF Prompts, Records, Replies
  <2>2. SessionTypes' /\ FlagTypes' /\ WorkerTypes'
    BY <1>1, <1>2, FrameTypes
  <2>3. ReadTypes'
    BY <1>0, <1>1, <1>2, <2>1, LogFacts DEF TypeOK, ReadTypes
  <2>4. StoreTypes'
    BY <1>0, <1>2, <2>1 DEF TypeOK, StoreTypes, Replies
  <2>5. HistoryTypes'
    BY <1>0, <1>2, <2>1 DEF TypeOK, HistoryTypes
  <2>6. QED
    BY <1>1, <1>2, <2>1, <2>2, <2>3, <2>4, <2>5 DEF Typed, TypeOK
<1>5. LogInv'
  BY <1>0, <1>2 DEF LogInv
<1>6. EnteredInv' /\ ActiveInv' /\ OwnerInv' /\ LocalInv'
  BY <1>0, <1>1, <1>2, <1>3, NothingOpens
<1>7. /\ FlagInv' /\ WindowInv' /\ SentInv' /\ AnswersAreStored' /\ RepliesReachTheAsker'
      /\ TerminalStaysLocal'
  BY <1>0, <1>1, <1>2, NothingRead
<1>8. CalmInv'
  <2>1. \A p : Alone(p)' = Alone(p)
    BY <1>2, DialogueSame DEF Alone
  <2>2. QED
    BY <1>0, <1>2, <1>3, <2>1 DEF CalmInv
<1>9. QED
  BY <1>1, <1>2, <1>4, <1>5, <1>6, <1>7, <1>8 DEF TurnInv, Typed

\* The turn of the bridge is closed: what is still open then is remembered as such.
LEMMA CloseKeeps ==
  ASSUME TurnInv /\ dialogue \in Dialogues, FinishTurn \/ CloseTurn
  PROVE  TurnInv' /\ dialogue' \in Dialogues
<1>0. /\ TypeOK /\ EnteredInv /\ LogInv /\ ActiveInv /\ OwnerInv /\ FlagInv /\ WindowInv /\ SentInv
      /\ CalmInv /\ LocalInv /\ AnswersAreStored /\ RepliesReachTheAsker /\ TerminalStaysLocal
  BY DEF TurnInv
<1>1. Typed
  BY <1>0 DEF Typed
<1>2. /\ UNCHANGED <<dialogue, agent, todo, run, said, log, late, typed, owner, fromTg, textSent, reaction,
                     readVars, storeVars, workVars, at, overlapped, swallowed, faults>>
      /\ UNCHANGED <<tpos, turnTpos, readTexts, stored, sent, wpc, wcur>>
      /\ active' = FALSE /\ pendingEnd' = FALSE /\ marker' = FALSE
      /\ closedEarly' = closedEarly \cup Open
      /\ opc' = "flush" /\ ret' = "check" /\ tries' = 0 /\ opc # "drain"
  BY DEF FinishTurn, CloseTurn, Close, readVars, storeVars, workVars
<1>3. Working' = Working /\ InLog' = InLog /\ Open' = Open
  BY <1>2 DEF Working, InLog, Open, Unread
<1>4. Typed'
  <2>1. dialogue' = dialogue /\ Prompts' = Prompts /\ Records' = Records
    BY <1>2 DEF Prompts, Records
  <2>2. StoreTypes' /\ ReadTypes' /\ WorkerTypes'
    BY <1>1, <1>2, FrameTypes
  <2>3. SessionTypes'
    BY <1>0, <1>2, <2>1 DEF TypeOK, SessionTypes
  <2>4. FlagTypes'
    BY <1>0, <1>2 DEF TypeOK, FlagTypes
  <2>5. OutboundTypes'
    <3>1. at = tpos /\ at \in 0 .. tpos
      BY <1>0, <1>1, <1>2, BetweenBlocks DEF TypeOK, OutboundTypes
    <3>2. Retries \in Nat
      BY TurnAssumption
    <3>3. ~(at < tpos)
      BY <1>1, <3>1, LogFacts
    <3>4. QED
      BY <1>2, <3>1, <3>2, <3>3 DEF OutboundTypes
  <2>6. HistoryTypes'
    BY <1>0, <1>1, <1>2, <2>1, OpenTypes DEF TypeOK, HistoryTypes
  <2>7. QED
    BY <1>1, <1>2, <2>1, <2>2, <2>3, <2>4, <2>5, <2>6 DEF Typed, TypeOK
<1>5. LogInv' /\ EnteredInv'
  BY <1>0, <1>2, <1>3, DialogueSame DEF LogInv, EnteredInv
<1>6. ActiveInv' /\ OwnerInv'
  BY <1>0, <1>2, <1>3, DialogueSame DEF ActiveInv, OwnerInv
<1>7. /\ FlagInv' /\ WindowInv' /\ SentInv' /\ AnswersAreStored' /\ RepliesReachTheAsker'
      /\ TerminalStaysLocal'
  <2>1. sent' \subseteq {s.p : s \in stored}
    BY <1>0, <1>2 DEF SentInv
  <2>2. QED
    BY <1>0, <1>1, <1>2, <2>1, NothingRead
<1>8. CalmInv' /\ LocalInv'
  <2>1. (Calm => Calm') /\ \A p : Alone(p)' = Alone(p)
    BY <1>2, DialogueSame DEF Alone, Calm, Backstop
  <2>2. QED
    BY <1>0, <1>2, <1>3, <2>1 DEF CalmInv, LocalInv
<1>9. QED
  BY <1>1, <1>2, <1>4, <1>5, <1>6, <1>7, <1>8 DEF TurnInv, Typed

\* A reply is stored once for a prompt, for the recipient of the moment.
LEMMA StoreFacts ==
  ASSUME Typed, NEW p \in Prompts, Store(p)
  PROVE  /\ stored \subseteq stored' /\ stored' \subseteq Replies /\ textSent' = TRUE
         /\ \E s \in stored' : s.p = p
         /\ \A s \in stored' : s \in stored \/ (s.p = p /\ s.chat = Recipient(p) /\ \A t \in stored : t.p # p)
<1>1. stored \subseteq Replies /\ owner \in Chats
  BY DEF Typed, TypeOK, StoreTypes, FlagTypes
<1>2. Recipient(p) \in Chats
  BY <1>1 DEF Recipient, Chats
<1> DEFINE s == [p |-> p, chat |-> Recipient(p)]
<1>3. s \in Replies /\ s.p = p /\ s.chat = Recipient(p)
  BY <1>2 DEF Replies
<1>4. stored' = IF \E t \in stored : t.p = p THEN stored ELSE stored \cup {s}
  BY DEF Store
<1> HIDE DEF s
<1>5. textSent' = TRUE
  BY DEF Store
<1>6. CASE \E t \in stored : t.p = p
  BY <1>1, <1>4, <1>5, <1>6
<1>7. CASE \A t \in stored : t.p # p
  BY <1>1, <1>3, <1>4, <1>5, <1>7
<1>8. QED
  BY <1>6, <1>7

LEMMA RecipientFacts ==
  ASSUME Typed, NEW p \in Prompts, owner = Chat(p)
  PROVE  Recipient(p) \in AskedIn(p)
BY DEF Recipient, AskedIn

\* The backstop finds the answer: it has not been read, or it has been stored before.
LEMMA BackstopKeeps ==
  ASSUME TurnInv /\ dialogue \in Dialogues, BackstopAnswers
  PROVE  TurnInv' /\ dialogue' \in Dialogues
<1>0. /\ TypeOK /\ EnteredInv /\ LogInv /\ ActiveInv /\ OwnerInv /\ FlagInv /\ WindowInv /\ SentInv
      /\ CalmInv /\ LocalInv /\ AnswersAreStored /\ RepliesReachTheAsker /\ TerminalStaysLocal
  BY DEF TurnInv
<1>1. Typed
  BY <1>0 DEF Typed
<1> DEFINE i == LastText
           p == log[i].p
<1>2. /\ UNCHANGED <<sessionVars, owner, active, fromTg, reaction, pendingEnd, tpos, turnTpos, sent, workVars,
                     ret, at, tries, histVars>>
      /\ UNCHANGED <<dialogue, agent, todo, run, said, log, late, marker, typed, wpc, wcur, closedEarly,
                     overlapped, swallowed, faults>>
      /\ opc \in {"scan", "rescan"} /\ opc' = "close"
      /\ Undelivered # {} /\ Store(p) /\ Remember({log[j] : j \in SinceTurn})
  BY DEF BackstopAnswers, sessionVars, workVars, histVars
<1>3. /\ i \in turnTpos + 1 .. Len(log) /\ i \in 1 .. Len(log)
      /\ log[i].kind = "text" /\ p \in Prompts /\ Fresh(log[i]) /\ log[i] = Rec("text", p)
  BY <1>1, <1>2, LastTextFacts, RecordFacts
<1> HIDE DEF i, p
<1>4. readTexts \subseteq readTexts' /\ readTexts' \subseteq Prompts
  BY <1>1, <1>2, SinceTurnFacts, RememberFacts
<1>5. /\ stored \subseteq stored' /\ stored' \subseteq Replies /\ textSent' = TRUE
      /\ \A s \in stored' : s \in stored \/ (s.p = p /\ s.chat = Recipient(p) /\ \A t \in stored : t.p # p)
  BY <1>1, <1>2, <1>3, StoreFacts
<1>6. Working' = Working /\ InLog' = InLog /\ Open' = Open
  BY <1>2 DEF Working, InLog, Open, Unread
<1>7. Typed'
  <2>1. dialogue' = dialogue /\ Prompts' = Prompts /\ Replies' = Replies
    BY <1>2 DEF Prompts, Replies
  <2>2. SessionTypes' /\ WorkerTypes' /\ HistoryTypes'
    BY <1>1, <1>2, FrameTypes
  <2>3. FlagTypes'
    BY <1>0, <1>2, <1>5 DEF TypeOK, FlagTypes
  <2>4. ReadTypes'
    BY <1>0, <1>2, <1>4, <2>1 DEF TypeOK, ReadTypes
  <2>5. StoreTypes'
    BY <1>0, <1>2, <1>5, <2>1 DEF TypeOK, StoreTypes
  <2>6. OutboundTypes'
    <3>1. at = tpos
      BY <1>1, <1>2, BetweenBlocks
    <3>2. ~(at < tpos)
      BY <1>1, <3>1, LogFacts
    <3>3. QED
      BY <1>0, <1>2, <3>2 DEF TypeOK, OutboundTypes
  <2>7. QED
    BY <1>1, <1>2, <2>1, <2>2, <2>3, <2>4, <2>5, <2>6 DEF Typed, TypeOK
<1>8. LogInv'
  BY <1>0, <1>2 DEF LogInv
<1>9. EnteredInv' /\ ActiveInv' /\ OwnerInv' /\ LocalInv'
  BY <1>0, <1>1, <1>2, <1>6, NothingOpens
<1>10. ~Calm
  BY <1>2 DEF Calm, Backstop
<1>11. CalmInv'
  <2>1. \A q : Alone(q)' = Alone(q)
    BY <1>2, DialogueSame DEF Alone
  <2>2. QED
    BY <1>0, <1>2, <1>6, <1>10, <2>1 DEF CalmInv
<1>12. \A r : Read(r)' = Read(r)
  BY <1>2 DEF Read
<1>13. FlagInv' /\ WindowInv' /\ SentInv'
  <2>1. \A q : Excused(q)' = Excused(q)
    BY <1>2, <1>12 DEF Excused
  <2>2. FlagInv'
    BY <1>0, <1>2, <2>1, DialogueSame DEF FlagInv
  <2>3. WindowInv' /\ SentInv'
    BY <1>0, <1>2, <1>4, <1>5 DEF WindowInv, SentInv
  <2>4. QED
    BY <2>2, <2>3
<1>14. AnswersAreStored'
  BY <1>0, <1>2, <1>5, <1>12, DialogueSame DEF AnswersAreStored
\* An answer that was read is stored: the window of Codex would have dropped it here.
<1>15. ASSUME FromTelegram(p), p \notin closedEarly, \A t \in stored : t.p # p, i \notin at + 1 .. Len(log)
       PROVE  FALSE
  <2>1. i \in 1 .. at
    BY <1>1, <1>3, <1>15, LogFacts
  <2>2. Read(Rec("text", p))
    BY <1>3, <2>1 DEF Read
  <2>3. {Rec("text", p), Rec("user", p)} \cap swallowed # {}
    BY <1>0, <1>3, <1>15, <2>2 DEF AnswersAreStored
  <2>4. agent = "codex" /\ p \in readTexts
    <3>1. agent # "claude"
      BY <1>0, <2>3 DEF WindowInv
    <3>2. agent = "codex"
      BY <1>0, <3>1, TurnAssumption DEF TypeOK, SessionTypes
    <3>3. QED
      BY <1>0, <1>3, <2>1, <3>1, <3>2 DEF WindowInv, p
  <2>5. QED
    BY <1>3, <2>4 DEF Fresh, p
<1>16. RepliesReachTheAsker'
  <2>1. ASSUME FromTelegram(p), Kind(p) = "message", p \notin closedEarly, \A t \in stored : t.p # p
        PROVE  Recipient(p) \in AskedIn(p)
    <3>1. i \in at + 1 .. Len(log)
      BY <1>15, <2>1
    <3>2. p \in Open
      BY <3>1 DEF Open, Unread, p
    <3>3. QED
      BY <1>0, <1>1, <1>3, <2>1, <3>2, RecipientFacts DEF OwnerInv
  <2>2. QED
    BY <1>0, <1>2, <1>5, <2>1, DialogueSame DEF RepliesReachTheAsker
<1>17. TerminalStaysLocal'
  <2>1. ~Alone(p)
    BY <1>0, <1>3, <1>10 DEF CalmInv, p
  <2>2. QED
    BY <1>0, <1>2, <1>5, <2>1, DialogueSame DEF TerminalStaysLocal, Alone
<1>18. QED
  BY <1>1, <1>2, <1>7, <1>8, <1>9, <1>11, <1>13, <1>14, <1>16, <1>17 DEF TurnInv, Typed

\* What handling the next record does, with the record and its place named.
LEMMA ApplyFacts ==
  ASSUME Typed, Apply, NEW n, n = at + 1, NEW r, r = log[n], NEW p, p = r.p
  PROVE  /\ UNCHANGED <<dialogue, agent, todo, run, said, log, late, marker, typed, owner, active, reaction,
                        tpos, turnTpos, sent, workVars, wpc, wcur, ret, tries, closedEarly, overlapped, faults>>
         /\ n \in at + 1 .. Len(log) /\ n \in 1 .. Len(log) /\ n <= tpos /\ n \in Nat /\ at' = n
         /\ \A j \in 1 .. n : j \in 1 .. at \/ j = n
         /\ \A j \in n + 1 .. Len(log) : j \in at + 1 .. Len(log)
         /\ r \in Records /\ p \in Prompts /\ r = Rec(r.kind, p)
         /\ opc = "drain" /\ opc' \in {"drain", ret} /\ (at' < tpos => opc' = "drain")
         /\ IF r.kind \in {"user", "note"} THEN UserRecord(r) ELSE fromTg' = fromTg
         /\ IF r.kind = "text" THEN TextRecord(r) ELSE UNCHANGED <<stored, textSent>>
         /\ pendingEnd' \in BOOLEAN
         /\ Remember({r})
         /\ swallowed' = IF Fresh(r) THEN swallowed ELSE swallowed \cup {r}
<1>1. /\ at \in Nat /\ tpos \in Nat /\ Len(log) \in Nat /\ tpos <= Len(log) /\ at < tpos
  BY LogFacts DEF Apply
<1>2. /\ n \in at + 1 .. Len(log) /\ n \in 1 .. Len(log) /\ n <= tpos /\ n \in Nat
      /\ \A j \in 1 .. n : j \in 1 .. at \/ j = n
      /\ \A j \in n + 1 .. Len(log) : j \in at + 1 .. Len(log)
  BY <1>1
<1>3. r \in Records /\ p \in Prompts /\ r = Rec(r.kind, p)
  BY <1>2, LogFacts, RecordFacts
<1>4. /\ UNCHANGED <<sessionVars, owner, active, reaction, tpos, turnTpos, sent, workVars, ret, tries,
                     closedEarly, overlapped, faults>>
      /\ at' = n /\ opc = "drain" /\ opc' = IF n = tpos THEN ret ELSE opc
      /\ IF r.kind \in {"user", "note"} THEN UserRecord(r) ELSE fromTg' = fromTg
      /\ IF r.kind = "text" THEN TextRecord(r) ELSE UNCHANGED <<stored, textSent>>
      /\ pendingEnd' = (pendingEnd \/ r.kind = "end")
      /\ Remember({r})
      /\ swallowed' = IF Fresh(r) THEN swallowed ELSE swallowed \cup {r}
  BY DEF Apply
<1>5. pendingEnd' \in BOOLEAN
  BY <1>4
<1>6. opc' \in {"drain", ret} /\ (at' < tpos => opc' = "drain")
  BY <1>2, <1>4
<1>7. QED
  BY <1>2, <1>3, <1>4, <1>5, <1>6 DEF sessionVars, workVars

\* A record of the transcript is handled.
LEMMA ApplyKeeps ==
  ASSUME TurnInv /\ dialogue \in Dialogues, Apply
  PROVE  TurnInv' /\ dialogue' \in Dialogues
<1>0. /\ TypeOK /\ EnteredInv /\ LogInv /\ ActiveInv /\ OwnerInv /\ FlagInv /\ WindowInv /\ SentInv
      /\ CalmInv /\ LocalInv /\ AnswersAreStored /\ RepliesReachTheAsker /\ TerminalStaysLocal
  BY DEF TurnInv
<1>1. Typed
  BY <1>0 DEF Typed
<1>a. PICK n, r, p : n = at + 1 /\ r = log[n] /\ p = r.p
  OBVIOUS
<1>2. /\ UNCHANGED <<dialogue, agent, todo, run, said, log, late, marker, typed, owner, active, reaction,
                     tpos, turnTpos, sent, workVars, wpc, wcur, ret, tries, closedEarly, overlapped, faults>>
      /\ n \in at + 1 .. Len(log) /\ n \in 1 .. Len(log) /\ n <= tpos /\ n \in Nat /\ at' = n
      /\ \A j \in 1 .. n : j \in 1 .. at \/ j = n
      /\ \A j \in n + 1 .. Len(log) : j \in at + 1 .. Len(log)
      /\ r \in Records /\ p \in Prompts /\ r = Rec(r.kind, p)
      /\ opc = "drain" /\ opc' \in {"drain", ret} /\ (at' < tpos => opc' = "drain")
      /\ IF r.kind \in {"user", "note"} THEN UserRecord(r) ELSE fromTg' = fromTg
      /\ IF r.kind = "text" THEN TextRecord(r) ELSE UNCHANGED <<stored, textSent>>
      /\ pendingEnd' \in BOOLEAN
      /\ Remember({r})
      /\ swallowed' = IF Fresh(r) THEN swallowed ELSE swallowed \cup {r}
  BY <1>1, <1>a, ApplyFacts
<1>3. n = at + 1 /\ r = log[n] /\ p = r.p /\ at \in Nat
  BY <1>1, <1>a, LogFacts
<1>4. p \in Open
  BY <1>2, <1>3 DEF Open, Unread
<1>5. Working' = Working /\ InLog' = InLog /\ Open' \subseteq Open
  BY <1>2 DEF Working, InLog, Open, Unread
<1>6. readTexts \subseteq readTexts' /\ readTexts' \subseteq Prompts
      /\ (agent = "codex" /\ r.kind = "text" => p \in readTexts')
  BY <1>1, <1>2, <1>3, RememberFacts
\* Only a text the flag is up for, or that carries the routing marker, is stored.
<1>7. /\ stored \subseteq stored' /\ stored' \subseteq Replies /\ textSent' \in BOOLEAN
      /\ \A s \in stored' : \/ s \in stored
                            \/ /\ s.p = p /\ s.chat = Recipient(p)
                               /\ r.kind = "text" /\ Fresh(r) /\ (fromTg \/ Tagged(p)) /\ p \notin sent
      /\ r.kind = "text" /\ Fresh(r) /\ (fromTg \/ Tagged(p)) /\ p \notin sent => \E s \in stored' : s.p = p
  <2>1. stored \subseteq Replies /\ textSent \in BOOLEAN
    BY <1>0 DEF TypeOK, StoreTypes, FlagTypes
  <2>2. CASE r.kind = "text" /\ Fresh(r) /\ (fromTg \/ Tagged(p)) /\ p \notin sent
    <3>1. Store(p)
      BY <1>2, <1>3, <2>2 DEF TextRecord
    <3>2. QED
      BY <1>1, <1>2, <2>2, <3>1, StoreFacts
  <2>3. CASE ~(r.kind = "text" /\ Fresh(r) /\ (fromTg \/ Tagged(p)) /\ p \notin sent)
    <3>1. UNCHANGED <<stored, textSent>>
      BY <1>2, <1>3, <2>3 DEF TextRecord
    <3>2. QED
      BY <2>1, <2>3, <3>1
  <2>4. QED
    BY <2>2, <2>3
\* A record that is no prompt keeps the flag, or lowers it while no turn is open.
<1>8. /\ fromTg' \in BOOLEAN
      /\ r.kind = "user" /\ FromTelegram(p) /\ Fresh(r) => fromTg'
      /\ ~FromTelegram(p) /\ r.kind \in {"user", "note"} => (fromTg' => fromTg /\ active)
      /\ r.kind \notin {"user", "note"} => fromTg' = fromTg
      /\ r.kind # "user" /\ fromTg /\ ~fromTg' => ~active /\ r.kind = "note"
  <2>1. fromTg \in BOOLEAN /\ active \in BOOLEAN
    BY <1>0 DEF TypeOK, FlagTypes
  <2>2. CASE r.kind \in {"user", "note"}
    <3>1. fromTg' = IF r.kind = "user" /\ FromTelegram(p) /\ Fresh(r) THEN TRUE ELSE fromTg /\ active
      BY <1>2, <1>3, <2>2 DEF UserRecord
    <3>2. CASE r.kind = "user" /\ FromTelegram(p) /\ Fresh(r)
      BY <3>1, <3>2
    <3>3. CASE ~(r.kind = "user" /\ FromTelegram(p) /\ Fresh(r))
      <4>1. fromTg' = (fromTg /\ active)
        BY <3>1, <3>3
      <4>2. QED
        BY <2>1, <2>2, <3>3, <4>1
    <3>4. QED
      BY <3>2, <3>3
  <2>3. CASE r.kind \notin {"user", "note"}
    BY <1>2, <2>1, <2>3
  <2>4. QED
    BY <2>2, <2>3
<1>9. swallowed \subseteq swallowed' /\ swallowed' \subseteq Records /\ (~Fresh(r) => r \in swallowed')
  BY <1>0, <1>2 DEF TypeOK, HistoryTypes
<1>10. Typed'
  <2>1. dialogue' = dialogue /\ Prompts' = Prompts /\ Replies' = Replies /\ Records' = Records
    BY <1>2 DEF Prompts, Replies, Records
  <2>2. SessionTypes' /\ WorkerTypes'
    BY <1>1, <1>2, FrameTypes
  <2>3. FlagTypes'
    BY <1>0, <1>2, <1>7, <1>8 DEF TypeOK, FlagTypes
  <2>4. ReadTypes'
    BY <1>0, <1>2, <1>6, <2>1 DEF TypeOK, ReadTypes
  <2>5. StoreTypes'
    BY <1>0, <1>2, <1>7, <2>1 DEF TypeOK, StoreTypes
  <2>6. OutboundTypes'
    <3>1. at' \in 0 .. tpos
      BY <1>1, <1>2, LogFacts
    <3>2. opc' \in {"drain", "check", "finish", "rescan"}
      BY <1>0, <1>2 DEF TypeOK, OutboundTypes
    <3>3. QED
      BY <1>0, <1>2, <3>1, <3>2 DEF TypeOK, OutboundTypes
  <2>7. HistoryTypes'
    BY <1>0, <1>2, <1>9, <2>1 DEF TypeOK, HistoryTypes
  <2>8. QED
    BY <1>1, <1>2, <2>1, <2>2, <2>3, <2>4, <2>5, <2>6, <2>7 DEF Typed, TypeOK
<1>11. LogInv' /\ EnteredInv' /\ ActiveInv' /\ OwnerInv'
  <2>1. LogInv'
    BY <1>0, <1>2 DEF LogInv
  <2>2. EnteredInv'
    BY <1>0, <1>2, <1>5, DialogueSame DEF EnteredInv
  <2>3. ActiveInv' /\ OwnerInv'
    BY <1>0, <1>2, <1>5, DialogueSame DEF ActiveInv, OwnerInv
  <2>4. QED
    BY <2>1, <2>2, <2>3
<1>12. /\ \A x : Read(x) => Read(x)'
       /\ \A x : Read(x)' => Read(x) \/ x = r
       /\ Read(r)'
  BY <1>2, <1>3 DEF Read
<1>13. \A q : Excused(q) => Excused(q)'
  BY <1>2, <1>9, <1>12 DEF Excused
\* A record that is no prompt follows another record of its prompt.
<1>14. r.kind # "user" => at > 0 /\ log[at].p = p
  <2>1. r.kind # "user" => n > 1 /\ log[n - 1].p = p
    BY <1>0, <1>2, <1>3 DEF LogInv
  <2>2. n - 1 = at
    BY <1>3
  <2>3. n > 1 => at > 0
    BY <1>3
  <2>4. QED
    BY <2>1, <2>2, <2>3
<1>15. FlagInv'
  <2>1. ASSUME FromTelegram(p) PROVE fromTg' \/ Excused(p)'
    <3>1. CASE r.kind = "user"
      <4>1. Fresh(r) \/ Rec("user", p) \in swallowed'
        BY <1>2, <1>9, <3>1
      <4>2. QED
        BY <1>8, <2>1, <3>1, <4>1 DEF Excused
    <3>2. CASE r.kind # "user" /\ fromTg
      <4>1. CASE ~fromTg'
        <5>1. ~active /\ r = Rec("note", p)
          BY <1>2, <1>8, <3>2, <4>1
        <5>2. p \in closedEarly
          BY <1>0, <1>4, <2>1, <5>1 DEF ActiveInv
        <5>3. Read(Rec("note", p))'
          BY <1>12, <5>1
        <5>4. QED
          BY <1>2, <5>2, <5>3 DEF Excused
      <4>2. QED
        BY <4>1
    <3>3. CASE r.kind # "user" /\ ~fromTg
      BY <1>0, <1>13, <1>14, <2>1, <3>3 DEF FlagInv
    <3>4. QED
      BY <3>1, <3>2, <3>3
  <2>2. log'[at'].p = p
    BY <1>2, <1>3
  <2>3. QED
    BY <1>2, <2>1, <2>2, DialogueSame DEF FlagInv
<1>16. WindowInv' /\ SentInv'
  <2>1. agent = "claude" => swallowed' = {}
    BY <1>0, <1>2 DEF WindowInv, Fresh
  <2>2. agent # "claude" => \A j \in 1 .. n : log[j].kind = "text" => log[j].p \in readTexts'
    <3>1. agent # "claude" => agent = "codex"
      BY <1>0, TurnAssumption DEF TypeOK, SessionTypes
    <3>2. QED
      BY <1>0, <1>2, <1>3, <1>6, <3>1 DEF WindowInv
  <2>3. WindowInv'
    BY <1>2, <2>1, <2>2 DEF WindowInv
  <2>4. SentInv'
    BY <1>0, <1>2, <1>7 DEF SentInv
  <2>5. QED
    BY <2>3, <2>4
<1>17. AnswersAreStored'
  <2> DEFINE Kept(q) == \/ \E s \in stored' : s.p = q
                        \/ Rec("text", q) \in swallowed'
                        \/ ~Tagged(q) /\ Rec("user", q) \in swallowed'
                        \/ ~Tagged(q) /\ Read(Rec("note", q))' /\ q \in closedEarly'
  <2>1. ASSUME NEW q \in Prompts, FromTelegram(q) \/ Tagged(q), Read(Rec("text", q))'
        PROVE  Kept(q)
    <3>1. CASE Read(Rec("text", q))
      <4>1. \/ \E s \in stored : s.p = q
            \/ Rec("text", q) \in swallowed
            \/ ~Tagged(q) /\ Rec("user", q) \in swallowed
            \/ ~Tagged(q) /\ Read(Rec("note", q)) /\ q \in closedEarly
        BY <1>0, <2>1, <3>1 DEF AnswersAreStored
      <4>2. QED
        BY <1>2, <1>7, <1>9, <1>12, <4>1
    <3>2. CASE r = Rec("text", q)
      <4>1. r.kind = "text" /\ p = q
        BY <1>3, <3>2, RecordFacts
      <4>2. CASE ~Fresh(r)
        BY <1>9, <3>2, <4>2
      <4>3. CASE q \in sent
        BY <1>0, <1>7, <4>3 DEF SentInv
      <4>4. CASE Fresh(r) /\ q \notin sent /\ (fromTg \/ Tagged(q))
        BY <1>7, <4>1, <4>4
      <4>5. CASE ~fromTg /\ ~Tagged(q)
        <5>1. Excused(q)
          BY <1>0, <1>14, <2>1, <4>1, <4>5 DEF FlagInv
        <5>2. QED
          BY <1>2, <1>9, <1>12, <4>5, <5>1 DEF Excused
      <4>6. QED
        BY <4>2, <4>3, <4>4, <4>5
    <3>3. QED
      BY <1>12, <2>1, <3>1, <3>2
  <2>2. QED
    BY <1>2, <2>1, DialogueSame DEF AnswersAreStored
<1>18. RepliesReachTheAsker'
  <2>1. FromTelegram(p) /\ Kind(p) = "message" /\ p \notin closedEarly => Recipient(p) \in AskedIn(p)
    BY <1>0, <1>1, <1>2, <1>4, RecipientFacts DEF OwnerInv
  <2>2. QED
    BY <1>0, <1>2, <1>7, <2>1, DialogueSame DEF RepliesReachTheAsker
<1>19. TerminalStaysLocal'
  <2>1. r.kind = "text" /\ fromTg => ~Alone(p)
    BY <1>0, <1>4, <1>14 DEF LocalInv
  <2>2. QED
    BY <1>0, <1>2, <1>7, <2>1, DialogueSame DEF TerminalStaysLocal, Alone
<1>20. CalmInv'
  <2>1. Calm => Calm'
    BY <1>0, <1>2 DEF Calm, Backstop, TypeOK, OutboundTypes
  <2>2. \A q : Alone(q)' = Alone(q)
    BY <1>2, DialogueSame DEF Alone
  <2>3. QED
    BY <1>0, <1>2, <1>5, <2>1, <2>2 DEF CalmInv
<1>21. LocalInv'
  <2>1. ASSUME Alone(p) PROVE ~fromTg'
    <3>1. ~FromTelegram(p) /\ ~active
      BY <1>0, <1>4, <2>1 DEF Alone, CalmInv, Calm
    <3>2. CASE r.kind \in {"user", "note"}
      BY <1>8, <3>1, <3>2
    <3>3. CASE r.kind \notin {"user", "note"}
      BY <1>0, <1>4, <1>8, <1>14, <2>1, <3>3 DEF LocalInv
    <3>4. QED
      BY <3>2, <3>3
  <2>2. log'[at'].p = p
    BY <1>2, <1>3
  <2>3. QED
    BY <1>2, <2>1, <2>2, DialogueSame DEF LocalInv, Alone
<1>22. QED
  BY <1>1, <1>2, <1>10, <1>11, <1>15, <1>16, <1>17, <1>18, <1>19, <1>20, <1>21 DEF TurnInv, Typed

-----------------------------------------------------------------------------
(* The theorems *)

\* In the initial states nothing has been said and no turn is open.
LEMMA TurnInvInit ==
  ASSUME Init
  PROVE  TurnInv /\ dialogue \in Dialogues
<1>1. /\ dialogue \in Dialogues /\ agent \in Agents
      /\ todo = <<>> /\ run = 0 /\ said = FALSE /\ log = <<>> /\ late = 0 /\ marker = FALSE /\ typed = {}
      /\ owner = Home /\ active = FALSE /\ fromTg = FALSE /\ textSent = FALSE
      /\ reaction = FALSE /\ pendingEnd = FALSE
      /\ tpos = 0 /\ turnTpos = 0 /\ readTexts = {} /\ stored = {} /\ sent = {}
      /\ wpc = "idle" /\ wcur = 0 /\ opc = "flush" /\ ret = "check" /\ at = 0 /\ tries = 0
      /\ closedEarly = {} /\ overlapped = {} /\ swallowed = {} /\ faults = 0
  BY DEF Init
<1>2. /\ \A S : <<>> \in Seq(S)
      /\ Len(log) = 0
  BY <1>1, EmptySeq
<1>3. Range(todo) = {}
  <2>1. DOMAIN todo = 1 .. Len(todo) /\ Len(todo) = 0
    BY <1>1, <1>2, LenProperties
  <2>2. QED
    BY <2>1 DEF Range
<1>4. TypeOK
  <2>1. SessionTypes /\ FlagTypes
    BY <1>1, <1>2 DEF SessionTypes, FlagTypes, Chats
  <2>2. ReadTypes /\ StoreTypes /\ WorkerTypes
    BY <1>1, <1>2 DEF ReadTypes, StoreTypes, WorkerTypes
  <2>3. OutboundTypes /\ HistoryTypes
    BY <1>1, TurnAssumption DEF OutboundTypes, HistoryTypes
  <2>4. QED
    BY <2>1, <2>2, <2>3 DEF TypeOK
<1>5. Working = {} /\ InLog = {} /\ Open = {}
  BY <1>1, <1>2, <1>3 DEF Working, InLog, Open, Unread
<1>6. EnteredInv /\ LogInv /\ ActiveInv /\ OwnerInv
  BY <1>1, <1>2, <1>5 DEF EnteredInv, LogInv, ActiveInv, OwnerInv
<1>7. FlagInv /\ WindowInv /\ SentInv /\ CalmInv /\ LocalInv
  BY <1>1, <1>2, <1>5 DEF FlagInv, WindowInv, SentInv, CalmInv, LocalInv
<1>8. AnswersAreStored /\ RepliesReachTheAsker /\ TerminalStaysLocal
  BY <1>1 DEF AnswersAreStored, RepliesReachTheAsker, TerminalStaysLocal, Read
<1>9. QED
  BY <1>1, <1>4, <1>6, <1>7, <1>8 DEF TurnInv

\* A step that changes nothing.
LEMMA StutterKeeps ==
  ASSUME TurnInv /\ dialogue \in Dialogues, UNCHANGED vars
  PROVE  TurnInv' /\ dialogue' \in Dialogues
<1>1. OutboundStep
  <2>1. Typed /\ SentInv
    BY DEF TurnInv, Typed
  <2>2. UNCHANGED <<sessionVars, flagVars, readVars, storeVars, workVars, outVars, histVars>>
    BY DEF vars
  <2>3. OutboundTypes' /\ faults' \in Nat
    BY <2>1, <2>2, FrameTypes DEF Typed, TypeOK, HistoryTypes, sessionVars, readVars, histVars
  <2>4. readTexts' \subseteq Prompts
    BY <2>1, <2>2 DEF Typed, TypeOK, ReadTypes, readVars
  <2>5. sent' \subseteq {s.p : s \in stored}
    BY <2>1, <2>2 DEF SentInv, storeVars
  <2>6. Calm => Calm'
    BY <2>2 DEF Calm, Backstop, flagVars, workVars, outVars
  <2>7. QED
    BY <2>2, <2>3, <2>4, <2>5, <2>6
       DEF OutboundStep, sessionVars, readVars, storeVars, outVars, histVars
<1>2. QED
  BY <1>1, OutboundKeeps

LEMMA TurnInvStep ==
  ASSUME TurnInv /\ dialogue \in Dialogues, [Next]_vars
  PROVE  TurnInv' /\ dialogue' \in Dialogues
<1>1. Typed /\ LogInv /\ SentInv
  BY DEF TurnInv, Typed
<1>2. CASE Session
  <2>1. CASE TypeAtTerminal
    BY <2>1, TerminalKeeps
  <2>2. CASE AgentStarts \/ AgentSpeaks \/ HarnessNote \/ AgentStops \/ ForeignHook \/ LateTextAppears
    BY <1>1, <2>2, SessionSteps, SessionKeeps
  <2>3. QED
    BY <1>2, <2>1, <2>2 DEF Session
<1>3. CASE Worker
  BY <1>3, TakeKeeps, BeginKeeps, InjectKeeps DEF Worker
<1>4. CASE Outbound
  <2>1. CASE Apply
    BY <2>1, ApplyKeeps
  <2>2. CASE BackstopAnswers
    BY <2>2, BackstopKeeps
  <2>3. CASE FinishTurn \/ CloseTurn
    BY <2>3, CloseKeeps
  <2>4. CASE \/ Flush \/ DrainNothing \/ DrainBlock \/ EndSeen \/ Silence \/ NoEnd
             \/ StartBackstop \/ BackstopRetries \/ BackstopGivesUp
    BY <1>1, <2>4, OutboundSteps, OutboundKeeps
  <2>5. QED
    BY <1>4, <2>1, <2>2, <2>3, <2>4 DEF Outbound, Drain, Finish
<1>5. CASE UNCHANGED vars
  BY <1>5, StutterKeeps
<1>6. QED
  BY <1>2, <1>3, <1>4, <1>5 DEF Next

\* In every reachable state of a conversation the flags of the bridge, the transcript and what
\* was stored fit together as TurnInv says, whatever fails and however often.
THEOREM TurnInvariant == Spec => []TurnInv
<1>1. Init => TurnInv /\ dialogue \in Dialogues
  BY TurnInvInit
<1>2. (TurnInv /\ dialogue \in Dialogues) /\ [Next]_vars => (TurnInv /\ dialogue \in Dialogues)'
  BY TurnInvStep
<1>3. QED
  BY <1>1, <1>2, PTL DEF Spec

\* Every attribute of the bridge, the transcript and the positions in it have their types
\* (the attributes set in AttachBridge.__init__).
THEOREM TypeCorrect == Spec => []TypeOK
<1>1. TurnInv => TypeOK
  BY DEF TurnInv
<1>2. QED
  BY <1>1, TurnInvariant, PTL

\* The answer to a message is stored for the chat that asked (_handle,
\* _wait_for_turn_before_chat_switch, _route_group_marker): a message that is open keeps the
\* recipient, for any dialogue between any number of turns.
THEOREM AskerGetsTheReply == Spec => []RepliesReachTheAsker
<1>1. TurnInv => RepliesReachTheAsker
  BY DEF TurnInv
<1>2. QED
  BY <1>1, TurnInvariant, PTL

\* No answer to a Telegram prompt that the bridge reads is dropped, except by the window of the
\* Codex reader or behind a record that passed for a prompt; one with the routing marker only
\* when the window drops the answer itself (_handle_event, _finish_turn).
THEOREM NoAnswerIsDropped == Spec => []AnswersAreStored
<1>1. TurnInv => AnswersAreStored
  BY DEF TurnInv
<1>2. QED
  BY <1>1, TurnInvariant, PTL

\* What the agent says to the terminal does not reach Telegram unless its turn ran into one of
\* Telegram or the text carries the routing marker (_handle_event, _last_assistant_text).
THEOREM TerminalTurnsStayLocal == Spec => []TerminalStaysLocal
<1>1. TurnInv => TerminalStaysLocal
  BY DEF TurnInv
<1>2. QED
  BY <1>1, TurnInvariant, PTL

-----------------------------------------------------------------------------
(* Ends.  A prompt that met no other one is alone in the session, so an end that is on its *)
(* way can only be its own, and its own comes after it.                                    *)

Waiting ==
  (Range(todo) \cup {run} \cup (IF wpc \in {"inject", "keys"} THEN {wcur} ELSE {})) \ {0}

\* Without a failure a prompt is in the session once, and only when it has been typed.
Once ==
  /\ \A i, j \in 1 .. Len(todo) : todo[i] = todo[j] => i = j
  /\ run \notin Range(todo)
Untyped == wpc \in {"inject", "keys"} => wcur \notin Range(todo) \cup {run}
OnceInv == faults = 0 => Once /\ Untyped
SoloInv == \A p \in Open \ overlapped : Open \subseteq {p}

\* No end was read, marked, or waits in the transcript, and none is being handled.
NoEndInSight ==
  /\ ~pendingEnd /\ ~marker /\ ~Closing
  /\ \A i \in at + 1 .. Len(log) : log[i].kind # "end"
SightInv ==
  faults = 0 => \A p \in Waiting \ overlapped : FromTelegram(p) => NoEndInSight

LEMMA FaultSeen == ASSUME Typed, NEW k, Fault(k) PROVE faults' # 0
BY DEF Typed, TypeOK, HistoryTypes, Fault

LEMMA WaitingFacts ==
  ASSUME Typed
  PROVE  /\ Waiting \subseteq Open /\ Waiting \subseteq Prompts
         /\ Range(todo) \subseteq Prompts /\ 0 \notin Prompts
<1>1. Range(todo) \subseteq Prompts /\ 0 \notin Prompts
  BY RangeFacts, WorkingParts DEF Typed, TypeOK, SessionTypes
<1>2. Waiting \subseteq Open
  BY DEF Waiting, Open
<1>3. QED
  BY <1>1, <1>2, OpenTypes

\* A step opens at most one prompt, and then it meets what is open.
LEMMA OpenStep ==
  ASSUME Typed, LogInv, [Next]_vars
  PROVE  \/ Open' \subseteq Open /\ overlapped' = overlapped
         \/ \E p, busy : Open' \subseteq Open \cup {p} /\ Meet(p, busy)
<1>0. Len(log) \in Nat /\ at \in Nat /\ tpos <= Len(log) /\ tpos \in Nat
  BY LogFacts
<1>1. CASE TypeAtTerminal
  <2>1. PICK p \in Prompts : todo' = Append(todo, p) /\ Meet(p, active \/ wpc # "idle")
    BY <1>1 DEF TypeAtTerminal
  <2>2. UNCHANGED <<run, late, log, at, wpc, wcur>>
    BY <1>1 DEF TypeAtTerminal, workVars, outVars
  <2>3. Range(todo') = Range(todo) \cup {p}
    BY <2>1, AppendRange DEF Typed, TypeOK, SessionTypes
  <2>4. Open' \subseteq Open \cup {p}
    BY <2>2, <2>3 DEF Open, Unread
  <2>5. QED
    BY <2>1, <2>4
<1>2. CASE AgentStarts \/ AgentSpeaks \/ HarnessNote \/ AgentStops \/ ForeignHook \/ LateTextAppears
  BY <1>2, SessionSteps, SessionOpens DEF SessionStep
<1>3. CASE BeginTurn
  <2>1. UNCHANGED <<todo, run, late, log, at, wcur>> /\ Meet(wcur, FALSE)
    BY <1>3 DEF BeginTurn, outVars
  <2>2. Open' \subseteq Open \cup {wcur}
    BY <2>1 DEF Open, Unread
  <2>3. QED
    BY <2>1, <2>2
<1>4. CASE TakeReaction \/ TakeMessage
  <2>1. UNCHANGED <<todo, run, late, log, at, overlapped>> /\ wpc' \in {"idle", "begin"}
    BY <1>4 DEF TakeReaction, TakeMessage, sessionVars, outVars, histVars
  <2>2. QED
    BY <2>1 DEF Open, Unread
<1>5. CASE InjectStarts \/ InjectDone \/ InjectRepeats \/ InjectRefused \/ InjectTimesOut
  <2>1. /\ UNCHANGED <<run, late, log, at, wcur, overlapped>>
        /\ wpc \in {"inject", "keys"} /\ todo' \in {todo, Append(todo, wcur)}
    BY <1>5 DEF InjectStarts, InjectDone, InjectRepeats, InjectRefused, InjectTimesOut,
                GiveUpInjecting, sessionVars, workVars, outVars, histVars
  <2>2. wcur \in Prompts
    BY <2>1 DEF Typed, TypeOK, WorkerTypes
  <2>3. Range(todo') \subseteq Range(todo) \cup {wcur}
    <3>1. Range(Append(todo, wcur)) = Range(todo) \cup {wcur}
      BY <2>2, AppendRange DEF Typed, TypeOK, SessionTypes
    <3>2. QED
      BY <2>1, <3>1
  <2>4. Open' \subseteq Open
    BY <2>1, <2>3 DEF Open, Unread
  <2>5. QED
    BY <2>1, <2>4
<1>6. CASE Outbound
  <2>1. /\ UNCHANGED <<todo, run, late, log, wpc, wcur, overlapped>>
        /\ at' = at \/ at' = at + 1
    BY <1>6 DEF Outbound, Drain, Finish, Flush, DrainNothing, DrainBlock, Apply, EndSeen, Silence,
                NoEnd, FinishTurn, StartBackstop, BackstopAnswers, BackstopRetries,
                BackstopGivesUp, CloseTurn, Close, sessionVars, workVars, outVars, histVars
  <2>2. at' + 1 .. Len(log') \subseteq at + 1 .. Len(log)
    BY <1>0, <2>1
  <2>3. Unread' \subseteq Unread
    BY <2>1, <2>2 DEF Unread
  <2>4. QED
    BY <2>1, <2>3 DEF Open
<1>7. CASE UNCHANGED vars
  BY <1>7 DEF vars, sessionVars, workVars, outVars, histVars, Open, Unread
<1>8. QED
  BY <1>1, <1>2, <1>3, <1>4, <1>5, <1>6, <1>7 DEF Next, Session, Worker

LEMMA SoloStep ==
  ASSUME Typed, LogInv, SoloInv, [Next]_vars
  PROVE  SoloInv'
<1>1. CASE Open' \subseteq Open /\ overlapped' = overlapped
  BY <1>1 DEF SoloInv
<1>2. ASSUME NEW p, NEW busy, Open' \subseteq Open \cup {p}, Meet(p, busy)
      PROVE  SoloInv'
  <2>1. CASE Open = {}
    BY <1>2, <2>1 DEF SoloInv
  <2>2. CASE Open # {}
    <3>1. Open' \subseteq overlapped'
      BY <1>2, <2>2 DEF Meet
    <3>2. QED
      BY <3>1 DEF SoloInv
  <2>3. QED
    BY <2>1, <2>2
<1>3. QED
  BY <1>1, <1>2, OpenStep

\* The input queue gets a prompt that is not in the session, or gives its head to the agent.
LEMMA OnceAppended ==
  ASSUME Typed, Once, NEW p \in Prompts, p \notin Range(todo), p # run,
         todo' = Append(todo, p), run' = run
  PROVE  Once'
<1>1. todo \in Seq(Prompts)
  BY DEF Typed, TypeOK, SessionTypes
<1>2. /\ Len(todo) \in Nat /\ Len(todo') = Len(todo) + 1
      /\ \A i \in 1 .. Len(todo) : todo'[i] = todo[i] /\ todo[i] \in Range(todo)
      /\ todo'[Len(todo) + 1] = p
  <2>1. DOMAIN todo = 1 .. Len(todo)
    BY <1>1, LenProperties
  <2>2. \A i \in 1 .. Len(todo) : todo[i] \in Range(todo)
    BY <2>1 DEF Range
  <2>3. QED
    BY <1>1, <2>2, AppendFacts
<1>3. \A i, j \in 1 .. Len(todo') : todo'[i] = todo'[j] => i = j
  <2> SUFFICES ASSUME NEW i \in 1 .. Len(todo'), NEW j \in 1 .. Len(todo'), todo'[i] = todo'[j]
               PROVE  i = j
    OBVIOUS
  <2>1. (i \in 1 .. Len(todo) \/ i = Len(todo) + 1) /\ (j \in 1 .. Len(todo) \/ j = Len(todo) + 1)
    BY <1>2
  <2>2. QED
    BY <1>2, <2>1 DEF Once
<1>4. run' \notin Range(todo')
  BY <1>1, AppendRange DEF Once
<1>5. QED
  BY <1>3, <1>4 DEF Once

LEMMA OnceStarted ==
  ASSUME Typed, Once, todo # <<>>, run' = Head(todo), todo' = Tail(todo)
  PROVE  Once'
<1>1. todo \in Seq(Prompts)
  BY DEF Typed, TypeOK, SessionTypes
<1>2. /\ Len(todo) \in Nat /\ Len(todo) # 0 /\ Len(todo') = Len(todo) - 1
      /\ Head(todo) = todo[1]
      /\ \A i \in 1 .. Len(todo') : todo'[i] = todo[i + 1] /\ i + 1 \in 1 .. Len(todo)
      /\ DOMAIN todo' = 1 .. Len(todo')
  BY <1>1, EmptySeq, LenProperties, HeadTailProperties
<1>3. \A i, j \in 1 .. Len(todo') : todo'[i] = todo'[j] => i = j
  BY <1>2 DEF Once
<1>4. \A i \in 1 .. Len(todo') : todo'[i] # todo[1]
  BY <1>2 DEF Once
<1>5. QED
  BY <1>2, <1>3, <1>4 DEF Once, Range

LEMMA OnceStep ==
  ASSUME Typed, EnteredInv, OnceInv, [Next]_vars
  PROVE  OnceInv'
<1>0. todo \in Seq(Prompts) /\ Range(todo) \subseteq Prompts /\ run \in Prompts \cup {0}
      /\ 0 \notin Prompts /\ faults \in Nat
  BY WaitingFacts, WorkingParts
<1>1. CASE TypeAtTerminal
  <2>1. PICK p \in Prompts \ typed : todo' = Append(todo, p) /\ ~FromTelegram(p)
    BY <1>1 DEF TypeAtTerminal
  <2>2. UNCHANGED <<run, wpc, wcur, faults>>
    BY <1>1 DEF TypeAtTerminal, workVars
  <2>3. p \notin Range(todo) /\ p # run
    BY <1>0, <2>1 DEF EnteredInv, Working
  <2>4. Once => Once'
    BY <2>1, <2>2, <2>3, OnceAppended
  <2>5. Range(todo') = Range(todo) \cup {p}
    BY <1>0, <2>1, AppendRange
  <2>6. wpc \in {"inject", "keys"} => wcur # p
    BY <2>1 DEF Typed, TypeOK, WorkerTypes
  <2>7. QED
    BY <2>2, <2>4, <2>5, <2>6 DEF OnceInv, Untyped
<1>2. CASE InjectDone
  <2>1. wpc = "keys" /\ wpc' = "idle" /\ todo' = Append(todo, wcur) /\ UNCHANGED <<run, faults>>
    BY <1>2 DEF InjectDone, histVars
  <2>2. wcur \in Prompts
    BY <2>1 DEF Typed, TypeOK, WorkerTypes
  <2>3. Once /\ Untyped => Once'
    BY <2>1, <2>2, OnceAppended DEF Untyped
  <2>4. QED
    BY <2>1, <2>3 DEF OnceInv, Untyped
<1>3. CASE InjectRepeats \/ InjectRefused \/ InjectTimesOut
  BY <1>3, FaultSeen DEF InjectRepeats, InjectRefused, InjectTimesOut, OnceInv
<1>4. CASE InjectStarts \/ BeginTurn
  <2>1. wpc \in {"begin", "inject"} /\ UNCHANGED <<todo, run, wcur, faults>>
    BY <1>4 DEF InjectStarts, BeginTurn, sessionVars, histVars
  <2>2. wcur \in Prompts /\ FromTelegram(wcur) /\ wcur \in Nat
    BY <2>1, DialogueFacts DEF Typed, TypeOK, WorkerTypes
  <2>3. wcur \notin Range(todo) \cup {run}
    BY <1>0, <2>1, <2>2 DEF EnteredInv, Working
  <2>4. QED
    BY <2>1, <2>3 DEF OnceInv, Once, Untyped
<1>5. CASE AgentStarts
  <2>1. todo # <<>> /\ run' = Head(todo) /\ todo' = Tail(todo) /\ UNCHANGED <<wpc, wcur, faults>>
    BY <1>5 DEF AgentStarts, workVars, histVars
  <2>2. Once => Once'
    BY <2>1, OnceStarted
  <2>3. Head(todo) \in Range(todo) /\ Range(Tail(todo)) \subseteq Range(todo)
    BY <1>0, <2>1, TailFacts
  <2>4. Untyped => Untyped'
    BY <2>1, <2>3 DEF Untyped
  <2>5. QED
    BY <2>1, <2>2, <2>4 DEF OnceInv
<1>6. CASE AgentStops
  <2>1. run' = 0 /\ UNCHANGED <<todo, wpc, wcur>> /\ (faults' = 0 => faults = 0)
    BY <1>0, <1>6, FaultSeen DEF AgentStops, workVars
  <2>2. wpc \in {"inject", "keys"} => wcur # 0
    BY <1>0 DEF Typed, TypeOK, WorkerTypes
  <2>3. QED
    BY <1>0, <2>1, <2>2 DEF OnceInv, Once, Untyped
<1>7. CASE \/ AgentSpeaks \/ HarnessNote \/ ForeignHook \/ LateTextAppears
           \/ TakeReaction \/ TakeMessage \/ Outbound \/ UNCHANGED vars
  <2>1. UNCHANGED <<todo, run>>
    BY <1>7 DEF AgentSpeaks, HarnessNote, ForeignHook, LateTextAppears, TakeReaction, TakeMessage,
                Outbound, Drain, Finish, Flush, DrainNothing, DrainBlock, Apply, EndSeen, Silence,
                NoEnd, FinishTurn, StartBackstop, BackstopAnswers, BackstopRetries,
                BackstopGivesUp, CloseTurn, Close, vars, sessionVars
  <2>2. UNCHANGED <<wpc, wcur>> \/ wpc' \in {"idle", "begin"}
    BY <1>7 DEF AgentSpeaks, HarnessNote, ForeignHook, LateTextAppears, TakeReaction, TakeMessage,
                Outbound, Drain, Finish, Flush, DrainNothing, DrainBlock, Apply, EndSeen, Silence,
                NoEnd, FinishTurn, StartBackstop, BackstopAnswers, BackstopRetries,
                BackstopGivesUp, CloseTurn, Close, vars, workVars
  <2>3. faults' = 0 => faults = 0
    BY <1>0, <1>7, FaultSeen
       DEF AgentSpeaks, HarnessNote, ForeignHook, LateTextAppears, TakeReaction, TakeMessage,
           Outbound, Drain, Finish, Flush, DrainNothing, DrainBlock, Apply, EndSeen, Silence,
           NoEnd, FinishTurn, StartBackstop, BackstopAnswers, BackstopRetries,
           BackstopGivesUp, CloseTurn, Close, vars, histVars
  <2>4. QED
    BY <2>1, <2>2, <2>3 DEF OnceInv, Once, Untyped
<1>8. QED
  BY <1>1, <1>2, <1>3, <1>4, <1>5, <1>6, <1>7 DEF Next, Session, Worker

\* A step of the session that leaves what is waiting as it is, or lets the agent go on.
LEMMA SightKept ==
  ASSUME Typed, SightInv, Waiting' \subseteq Waiting, dialogue' = dialogue,
         overlapped' = overlapped, faults' = 0 => faults = 0, NoEndInSight => NoEndInSight'
  PROVE  SightInv'
BY DialogueSame DEF SightInv

LEMMA SightSession ==
  ASSUME Typed, EnteredInv, LogInv, OnceInv, SoloInv, SightInv, Session
  PROVE  SightInv'
<1>0. /\ Waiting \subseteq Open /\ Waiting \subseteq Prompts /\ Range(todo) \subseteq Prompts
      /\ todo \in Seq(Prompts) /\ run \in Prompts \cup {0} /\ 0 \notin Prompts
      /\ Len(log) \in Nat /\ at \in Nat /\ at <= Len(log) /\ faults \in Nat
  BY WaitingFacts, LogFacts, WorkingParts
<1> SUFFICES ASSUME faults' = 0, NEW p \in Waiting' \ overlapped', FromTelegram(p)'
             PROVE  NoEndInSight'
  BY DEF SightInv
<1>1. CASE TypeAtTerminal
  <2>1. PICK q \in Prompts \ typed :
          ~FromTelegram(q) /\ todo' = Append(todo, q) /\ Meet(q, active \/ wpc # "idle")
    BY <1>1 DEF TypeAtTerminal
  <2>2. UNCHANGED <<run, wpc, wcur, dialogue>>
    BY <1>1 DEF TypeAtTerminal, workVars
  <2>3. Range(todo') = Range(todo) \cup {q}
    BY <1>0, <2>1, AppendRange
  <2>4. p \in Waiting
    BY <2>1, <2>2, <2>3, DialogueSame DEF Waiting
  <2>5. p \in overlapped'
    BY <1>0, <2>1, <2>4 DEF Meet
  <2>6. QED
    BY <2>5
<1>2. ASSUME AgentStarts \/ AgentSpeaks \/ HarnessNote \/ LateTextAppears
      PROVE  NoEndInSight'
  <2>1. /\ UNCHANGED <<dialogue, marker, pendingEnd, at, opc, ret, overlapped, wpc, wcur>>
        /\ faults = 0
    BY <1>0, <1>2, FaultSeen
       DEF AgentStarts, AgentSpeaks, HarnessNote, LateTextAppears, flagVars, workVars, outVars, histVars
  <2>2. Waiting' \subseteq Waiting
    <3>1. CASE AgentStarts
      <4>1. Head(todo) \in Range(todo) /\ Range(Tail(todo)) \subseteq Range(todo)
        BY <1>0, <3>1, TailFacts DEF AgentStarts
      <4>2. QED
        BY <2>1, <3>1, <4>1 DEF AgentStarts, Waiting
    <3>2. CASE AgentSpeaks \/ HarnessNote \/ LateTextAppears
      BY <2>1, <3>2 DEF AgentSpeaks, HarnessNote, LateTextAppears, Waiting
    <3>3. QED
      BY <1>2, <3>1, <3>2
  <2>3. log' = log \/ \E r \in Records : log' = Append(log, r) /\ r.kind # "end"
    <3>1. CASE AgentStarts
      <4>1. Head(todo) \in Prompts
        BY <1>0, <3>1, TailFacts DEF AgentStarts
      <4>2. QED
        BY <3>1, <4>1, RecordFacts DEF AgentStarts
    <3>2. CASE AgentSpeaks
      BY <1>0, <3>2, RecordFacts DEF AgentSpeaks
    <3>3. CASE HarnessNote
      BY <1>0, <3>3, RecordFacts DEF HarnessNote
    <3>4. CASE LateTextAppears
      BY <1>0, <3>4, WorkingParts, RecordFacts DEF LateTextAppears
    <3>5. QED
      BY <1>2, <3>1, <3>2, <3>3, <3>4
  <2>4. NoEndInSight
    BY <2>1, <2>2, DialogueSame DEF SightInv
  <2>5. \A i \in at + 1 .. Len(log') : log'[i].kind # "end"
    <3>1. CASE log' = log
      BY <2>4, <3>1 DEF NoEndInSight
    <3>2. ASSUME NEW r \in Records, log' = Append(log, r), r.kind # "end"
          PROVE  \A i \in at + 1 .. Len(log') : log'[i].kind # "end"
      <4>1. /\ Len(log') = Len(log) + 1 /\ log'[Len(log) + 1] = r
            /\ \A i \in 1 .. Len(log) : log'[i] = log[i]
        BY <3>2, AppendFacts DEF Typed, TypeOK, SessionTypes
      <4>2. \A i \in at + 1 .. Len(log) + 1 : 
            i = Len(log) + 1 \/ (i \in at + 1 .. Len(log) /\ i \in 1 .. Len(log))
        BY <1>0
      <4>3. QED
        BY <2>4, <3>2, <4>1, <4>2 DEF NoEndInSight
    <3>3. QED
      BY <2>3, <3>1, <3>2
  <2>6. QED
    BY <2>1, <2>4, <2>5 DEF NoEndInSight, Closing
\* Its own end: the prompt is not waiting any more.
<1>3. CASE AgentStops
  <2>1. /\ run # 0 /\ run' = 0 /\ UNCHANGED <<dialogue, todo, overlapped, wpc, wcur>>
    BY <1>3 DEF AgentStops, workVars
  <2>2. p \in Waiting /\ p \notin overlapped
    BY <2>1 DEF Waiting
  <2>3. p = run
    BY <1>0, <2>1, <2>2 DEF SoloInv, Open
  <2>4. faults = 0 /\ Once /\ Untyped
    BY <1>0, <1>3, FaultSeen DEF AgentStops, OnceInv
  <2>5. p \notin Range(todo)
    BY <2>3, <2>4 DEF Once
  <2>6. wpc \in {"inject", "keys"} /\ p = wcur
    BY <1>0, <2>1, <2>2, <2>5 DEF Waiting
  <2>7. FALSE
    BY <2>3, <2>4, <2>6 DEF Untyped
  <2>8. QED
    BY <2>7
<1>4. CASE ForeignHook
  BY <1>4, FaultSeen DEF ForeignHook
<1>5. QED
  BY <1>1, <1>2, <1>3, <1>4 DEF Session

LEMMA SightWorker ==
  ASSUME Typed, SightInv, Worker
  PROVE  SightInv'
<1>0. /\ Waiting \subseteq Open /\ Waiting \subseteq Prompts /\ todo \in Seq(Prompts)
  BY WaitingFacts DEF Typed, TypeOK, SessionTypes
<1>1. CASE TakeReaction \/ TakeMessage
  <2>1. /\ UNCHANGED <<dialogue, todo, run, log, marker, pendingEnd, at, opc, ret, overlapped, faults>>
        /\ wpc = "idle" /\ wpc' \in {"idle", "begin"}
    BY <1>1 DEF TakeReaction, TakeMessage, sessionVars, flagVars, outVars, histVars
  <2>2. Waiting' = Waiting /\ NoEndInSight' = NoEndInSight
    BY <2>1 DEF Waiting, NoEndInSight, Closing
  <2>3. QED
    BY <2>1, <2>2, SightKept
\* The turn is opened: what an earlier one left behind is gone, or the two have met.
<1>2. CASE BeginTurn
  <2>1. /\ UNCHANGED <<dialogue, todo, run, log, late, at, opc, ret, wcur, faults>>
        /\ ~marker' /\ ~pendingEnd' /\ Meet(wcur, FALSE)
    BY <1>2 DEF BeginTurn, ForgetEnd, outVars
  <2> SUFFICES ASSUME NEW p \in Waiting' \ overlapped'
               PROVE  NoEndInSight'
    BY DEF SightInv
  <2>2. p \in Waiting \cup {wcur}
    BY <2>1 DEF Waiting
  <2>3. Open = {} /\ ~Closing
    BY <1>0, <2>1, <2>2 DEF Meet
  <2>4. Unread = {}
    BY <2>3 DEF Open
  <2>5. at + 1 .. Len(log) = {}
    BY <2>4 DEF Unread
  <2>6. QED
    BY <2>1, <2>3, <2>5 DEF NoEndInSight, Closing
<1>3. CASE InjectStarts \/ InjectDone
  <2>1. /\ UNCHANGED <<dialogue, run, log, marker, pendingEnd, at, opc, ret, wcur, overlapped, faults>>
        /\ wpc \in {"inject", "keys"} /\ wcur \in Prompts
    BY <1>3 DEF InjectStarts, InjectDone, sessionVars, flagVars, outVars, histVars, Typed, TypeOK,
                WorkerTypes
  <2>2. todo' = todo \/ (todo' = Append(todo, wcur) /\ wpc' = "idle")
    BY <1>3 DEF InjectStarts, InjectDone, sessionVars
  <2>3. Range(Append(todo, wcur)) = Range(todo) \cup {wcur}
    BY <1>0, <2>1, AppendRange
  <2>4. Waiting' \subseteq Waiting
    BY <2>1, <2>2, <2>3 DEF Waiting
  <2>5. NoEndInSight' = NoEndInSight
    BY <2>1 DEF NoEndInSight, Closing
  <2>6. QED
    BY <2>1, <2>4, <2>5, SightKept
<1>4. CASE InjectRepeats \/ InjectRefused \/ InjectTimesOut
  BY <1>4, FaultSeen DEF InjectRepeats, InjectRefused, InjectTimesOut, SightInv
<1>5. QED
  BY <1>1, <1>2, <1>3, <1>4 DEF Worker

LEMMA SightOutbound ==
  ASSUME Typed, SightInv, Outbound
  PROVE  SightInv'
<1>0. /\ Waiting \subseteq Prompts /\ 0 \notin Prompts
      /\ Len(log) \in Nat /\ at \in Nat /\ tpos \in Nat /\ at <= tpos /\ tpos <= Len(log)
      /\ faults \in Nat
  BY WaitingFacts, LogFacts, WorkingParts
<1>1. UNCHANGED <<dialogue, todo, run, late, log, wpc, wcur, overlapped>>
  BY DEF Outbound, Drain, Finish, Flush, DrainNothing, DrainBlock, Apply, EndSeen, Silence, NoEnd,
         FinishTurn, StartBackstop, BackstopAnswers, BackstopRetries, BackstopGivesUp, CloseTurn,
         Close, sessionVars, workVars, histVars
<1>2. Waiting' = Waiting
  BY <1>1 DEF Waiting
<1> SUFFICES ASSUME faults' = 0, NEW p \in Waiting \ overlapped, FromTelegram(p)
             PROVE  NoEndInSight'
  BY <1>1, <1>2, DialogueSame DEF SightInv
<1>3. faults = 0
  BY <1>0, FaultSeen
     DEF Outbound, Drain, Finish, Flush, DrainNothing, DrainBlock, Apply, EndSeen, Silence, NoEnd,
         FinishTurn, StartBackstop, BackstopAnswers, BackstopRetries, BackstopGivesUp, CloseTurn,
         Close, histVars
<1>4. NoEndInSight
  BY <1>3 DEF SightInv
<1>5. /\ ~pendingEnd /\ ~marker
      /\ opc \notin {"finish", "scan", "rescan", "close"} /\ (opc = "drain" => ret = "check")
      /\ \A i \in at + 1 .. Len(log) : log[i].kind # "end"
  BY <1>4 DEF NoEndInSight, Closing
<1>6. CASE Flush \/ DrainNothing \/ DrainBlock \/ NoEnd
  <2>1. UNCHANGED <<pendingEnd, marker, at>>
    BY <1>6 DEF Flush, DrainNothing, DrainBlock, NoEnd, flagVars, sessionVars, outVars
  <2>2. ~Closing'
    BY <1>5, <1>6 DEF Flush, DrainNothing, DrainBlock, NoEnd, Closing, outVars
  <2>3. QED
    BY <1>1, <1>5, <2>1, <2>2 DEF NoEndInSight
<1>7. CASE Apply
  <2>1. /\ opc = "drain" /\ at < tpos /\ at' = at + 1 /\ marker' = marker
        /\ pendingEnd' = (pendingEnd \/ log[at + 1].kind = "end")
        /\ opc' \in {opc, ret} /\ ret' = ret
    BY <1>7 DEF Apply, sessionVars
  <2>2. at + 1 \in at + 1 .. Len(log)
    BY <1>0, <2>1
  <2>3. \A i \in at' + 1 .. Len(log) : i \in at + 1 .. Len(log)
    BY <1>0, <2>1
  <2>4. QED
    BY <1>1, <1>5, <2>1, <2>2, <2>3 DEF NoEndInSight, Closing
<1>8. ~EndSeen /\ ~Finish
  BY <1>5 DEF EndSeen, Finish, FinishTurn, StartBackstop, BackstopAnswers, BackstopRetries,
              BackstopGivesUp, CloseTurn
<1>9. ~Silence
  <2>1. ~(Still /\ Fault("silence"))
    BY FaultSeen
  <2>2. ASSUME Quiet PROVE FALSE
    <3>1. todo = <<>> /\ run = 0 /\ wpc \notin {"inject", "keys"}
      BY <2>2 DEF Quiet, Still
    <3>2. Range(todo) = {}
      BY <3>1 DEF Range
    <3>3. QED
      BY <3>1, <3>2 DEF Waiting
  <2>3. QED
    BY <2>1, <2>2 DEF Silence
<1>10. QED
  BY <1>6, <1>7, <1>8, <1>9 DEF Outbound, Drain

EndInv == TurnInv /\ dialogue \in Dialogues /\ OnceInv /\ SoloInv /\ SightInv

LEMMA EndInvStep == EndInv /\ [Next]_vars => EndInv'
<1> SUFFICES ASSUME EndInv, [Next]_vars
             PROVE  EndInv'
  OBVIOUS
<1>1. Typed /\ EnteredInv /\ LogInv
  BY DEF EndInv, TurnInv, Typed
<1>2. TurnInv' /\ dialogue' \in Dialogues
  BY TurnInvStep DEF EndInv
<1>3. OnceInv' /\ SoloInv'
  BY <1>1, OnceStep, SoloStep DEF EndInv
<1>4. SightInv'
  <2>1. CASE Session \/ Worker \/ Outbound
    BY <1>1, <2>1, SightSession, SightWorker, SightOutbound DEF EndInv
  <2>2. CASE UNCHANGED vars
    <3>1. UNCHANGED <<dialogue, todo, run, log, marker, pendingEnd, at, opc, ret, wpc, wcur,
                      overlapped, faults>>
      BY <2>2 DEF vars, sessionVars, flagVars, workVars, outVars, histVars
    <3>2. Waiting' = Waiting /\ NoEndInSight' = NoEndInSight
      BY <3>1 DEF Waiting, NoEndInSight, Closing
    <3>3. QED
      BY <1>1, <3>1, <3>2, SightKept DEF EndInv
  <2>3. QED
    BY <2>1, <2>2 DEF Next
<1>5. QED
  BY <1>2, <1>3, <1>4 DEF EndInv

\* An open turn that met no other one is closed only by its own end, never by one that an
\* earlier turn left behind (_begin_turn, _finish_turn): without a failure, whoever waits or
\* runs when a turn is closed shared it.
THEOREM EndsAreOwn == Spec => EndsHaveCauses
<1>1. Init => EndInv
  <2> SUFFICES ASSUME Init
               PROVE  EndInv
    OBVIOUS
  <2>1. Len(<<>>) = 0 /\ Range(<<>>) = {}
    BY EmptySeq DEF Range
  <2>2. OnceInv
    BY <2>1 DEF Init, OnceInv, Once, Untyped
  <2>3. Waiting = {} /\ Open = {}
    BY <2>1 DEF Init, Waiting, Open, Unread
  <2>4. QED
    BY <2>2, <2>3, TurnInvInit DEF EndInv, SoloInv, SightInv
<1>2. EndInv /\ [Next]_vars =>
        ((FinishTurn \/ CloseTurn) /\ active /\ faults = 0
           => (Range(todo) \cup {run}) \cap Prompts \subseteq overlapped)
  <2> SUFFICES ASSUME EndInv, FinishTurn \/ CloseTurn, active, faults = 0,
                      NEW p \in (Range(todo) \cup {run}) \cap Prompts, p \notin overlapped
               PROVE  FALSE
    OBVIOUS
  <2>1. Typed /\ CalmInv
    BY DEF EndInv, TurnInv, Typed
  <2>2. p \in Waiting /\ p \in Open
    BY <2>1, WaitingFacts DEF Waiting
  <2>3. CASE FromTelegram(p)
    <3>1. NoEndInSight
      BY <2>2, <2>3 DEF EndInv, SightInv
    <3>2. QED
      BY <3>1 DEF NoEndInSight, Closing, FinishTurn, CloseTurn
  <2>4. CASE ~FromTelegram(p)
    BY <2>1, <2>2, <2>4 DEF CalmInv, Calm, Alone
  <2>5. QED
    BY <2>3, <2>4
<1>3. QED
  BY <1>1, <1>2, EndInvStep, PTL DEF Spec, EndsHaveCauses
=============================================================================
