---------------------------- MODULE OneShotProofs ----------------------------
(***************************************************************************)
(* Proofs about OneShotBridge.tla for any scripts of updates, and any      *)
(* number of failures, stops and crashes.                                  *)
(***************************************************************************)
EXTENDS OneShotProperties, SequenceTheorems, TLAPS

\* What a queue holds is a prompt with its attachment, or the end of the work.
RealTasks == [u : Updates, slot : Nat] \cup {NoTask}

TypeInv == TypeOK /\ script \in Scripts /\ queue \in [Chats -> Seq(RealTasks)]

-----------------------------------------------------------------------------
(* Types *)

LEMMA ScriptFacts ==
  ASSUME script \in Scripts
  PROVE  /\ Len(script) \in Nat
         /\ \A u \in Updates : u \in 1 .. Len(script) /\ Chat(u) \in Chats /\ Kind(u) \in Kinds
<1>1. script \in Seq(UpdateType)
  BY OneShotAssumption
<1>2. Len(script) \in Nat /\ \A u \in 1 .. Len(script) : script[u] \in UpdateType
  BY <1>1, LenProperties, ElementOfSeq
<1>3. QED
  BY <1>2 DEF Updates, Chat, Kind, Chats, UpdateType

\* Nothing changes what Telegram has.
LEMMA ScriptKept == [Next]_vars => script' = script /\ Updates' = Updates
BY DEF Next, vars, Poller, Poll, Dispatch, DispatchNothing, DispatchText, DispatchFile,
       DispatchFails, ResetContents, ResetDirectory, SaveOffset, SaveFails, Exit, Restart,
       Worker, Take, WorkerEnds, RunStarts, RunSucceeds, RunFails, Reply, ReplyFails,
       Shutdown, Crash, MemoryGone, Updates

\* A step keeps the types of the variables it leaves alone.
LEMMA FrameTypes ==
  ASSUME TypeInv, script' = script
  PROVE  /\ UNCHANGED <<forgotten, pollerVars, saved>> => PollerTypes'
         /\ UNCHANGED workerVars => WorkerTypes' /\ queue' \in [Chats -> Seq(RealTasks')]
         /\ UNCHANGED <<dirVars, conv>> => DiskTypes'
         /\ UNCHANGED histVars => HistoryTypes'
BY DEF TypeInv, TypeOK, PollerTypes, WorkerTypes, DiskTypes, HistoryTypes, pollerVars, workerVars,
       dirVars, histVars, Updates, Tasks, RealTasks, Kind

LEMMA FaultType == TypeInv /\ Fault => faults' \in Nat
BY DEF TypeInv, TypeOK, HistoryTypes, Fault

\* After an update the poller is at the next one of the batch, or at its end.
LEMMA AdvanceTypes ==
  ASSUME TypeInv, script' = script, ppc = "dispatch", NEW pc \in {"dispatch", "rmdir"},
         Advance(next, pc), pc = "rmdir" => Kind(next) = "reset",
         forgotten' = forgotten, saved' = saved
  PROVE  PollerTypes'
<1>1. next \in Updates /\ next \in Nat /\ next <= last /\ last <= Len(script) /\ Len(script) \in Nat
      /\ last \in Nat
  BY ScriptFacts DEF TypeInv, TypeOK, PollerTypes, Updates
<1>2. offset' \in 0 .. Len(script) + 1 /\ next' = next + 1 /\ last' = last
  BY <1>1 DEF Advance, Larger, TypeInv, TypeOK, PollerTypes
<1>3. ppc' \in {"dispatch", "rmdir", "save"} /\ (ppc' = "dispatch" => next # last)
      /\ (ppc' = "rmdir" => pc = "rmdir")
  BY DEF Advance
<1>4. next' \in 1 .. Len(script) + 1 /\ next' - 1 = next
  BY <1>1, <1>2
<1>5. ppc' = "dispatch" => next' \in 1 .. Len(script) /\ next' <= last'
  BY <1>1, <1>2, <1>3
<1>6. QED
  BY <1>1, <1>2, <1>3, <1>4, <1>5 DEF TypeInv, TypeOK, PollerTypes, Updates, Kind

LEMMA EnqueueTypes ==
  ASSUME TypeInv, script' = script, NEW c \in Chats, NEW t \in [u : Updates, slot : Nat],
         Enqueue(c, t)
  PROVE  WorkerTypes' /\ queue' \in [Chats -> Seq(RealTasks')]
<1>1. queue[c] \in Seq(RealTasks) /\ t \in RealTasks
  BY DEF TypeInv, RealTasks
<1>2. Append(queue[c], t) \in Seq(RealTasks)
  BY <1>1, AppendProperties
<1>3. queue' \in [Chats -> Seq(RealTasks)]
  BY <1>2 DEF Enqueue, TypeInv
<1>4. queue[c] \in Seq(Tasks) /\ t \in Tasks
  BY DEF TypeInv, TypeOK, WorkerTypes, Tasks
<1>5. Append(queue[c], t) \in Seq(Tasks)
  BY <1>4, AppendProperties
<1>6. queue' \in [Chats -> Seq(Tasks)]
  BY <1>5 DEF Enqueue, TypeInv, TypeOK, WorkerTypes
<1>7. wpc' \in [Chats -> {"none", "idle", "start", "run", "reply", "over"}]
      /\ cur' = cur /\ cont' = cont
      /\ \A d \in Chats : wpc'[d] = wpc[d] \/ (wpc[d] = "none" /\ wpc'[d] = "idle")
  BY DEF Enqueue, TypeInv, TypeOK, WorkerTypes
<1>8. RealTasks' = RealTasks /\ Tasks' = Tasks
  BY DEF RealTasks, Tasks, Updates
<1>9. QED
  BY <1>3, <1>6, <1>7, <1>8 DEF TypeInv, TypeOK, WorkerTypes

LEMMA PollTypes ==
  ASSUME TypeInv, Poll
  PROVE  PollerTypes'
<1>1. Len(script) \in Nat /\ script' = script
  BY ScriptFacts DEF TypeInv, Poll
<1>2. forgotten \in 0 .. Len(script) /\ offset \in 0 .. Len(script) + 1
  BY <1>1 DEF TypeInv, TypeOK, PollerTypes, Updates
<1>3. forgotten' \in 0 .. Len(script)
  BY <1>1, <1>2 DEF Poll, Larger
<1>4. PICK n \in 0 .. Len(script) : last' = n
  BY <1>1 DEF Poll, Updates
<1>5. next' = forgotten' + 1 /\ ppc' = (IF last' >= next' THEN "dispatch" ELSE "save")
  BY DEF Poll
<1>6. \A f \in 0 .. Len(script) : f + 1 \in 1 .. Len(script) + 1
  BY <1>1
<1>7. next' \in 1 .. Len(script) + 1
  BY <1>3, <1>5, <1>6
<1>8. ppc' = "dispatch" => next' \in 1 .. Len(script) /\ next' <= last'
  BY <1>1, <1>4, <1>5, <1>7
<1>9. QED
  BY <1>1, <1>3, <1>4, <1>5, <1>7, <1>8 DEF Poll, TypeInv, TypeOK, PollerTypes, Updates

\* The poller's steps on an update.
LEMMA DispatchTypes ==
  ASSUME TypeInv, script' = script, Dispatch
  PROVE  TypeInv'
<1>1. /\ ppc = "dispatch" /\ next \in Updates /\ Chat(next) \in Chats
  BY ScriptFacts DEF Dispatch, TypeInv, TypeOK, PollerTypes
<1>2. CASE DispatchNothing(next)
  <2>1. PollerTypes'
    BY <1>1, <1>2, AdvanceTypes DEF DispatchNothing
  <2>2. QED
    BY <1>2, <2>1, FrameTypes DEF DispatchNothing, TypeInv, TypeOK
<1>3. CASE DispatchText(next)
  <2>1. PollerTypes'
    BY <1>1, <1>3, AdvanceTypes DEF DispatchText
  <2>2. Task(next, 0) \in [u : Updates, slot : Nat]
    BY <1>1 DEF Task
  <2>3. WorkerTypes' /\ queue' \in [Chats -> Seq(RealTasks')]
    BY <1>1, <1>3, <2>2, EnqueueTypes DEF DispatchText
  <2>4. QED
    BY <1>3, <2>1, <2>3, FrameTypes DEF DispatchText, TypeInv, TypeOK
<1>4. CASE DispatchFile(next)
  <2> DEFINE c == Chat(next)
             i == Unique(c)
             fs == files[c]
  <2>1. PollerTypes'
    BY <1>1, <1>4, AdvanceTypes DEF DispatchFile
  <2>2. fs \in Seq(Updates)
    BY <1>1 DEF TypeInv, TypeOK, DiskTypes
  <2>3. i \in Nat
    BY <2>2, LenProperties DEF Unique
  <2>4. Task(next, i) \in [u : Updates, slot : Nat]
    BY <1>1, <2>3 DEF Task
  <2>5. WorkerTypes' /\ queue' \in [Chats -> Seq(RealTasks')]
    BY <1>1, <1>4, <2>4, EnqueueTypes DEF DispatchFile
  <2>6. Append(fs, next) \in Seq(Updates) /\ i > Len(fs)
    BY <1>1, <2>2, AppendProperties, LenProperties DEF Unique
  <2>7. files' = [files EXCEPT ![c] = Append(fs, next)]
    BY <1>4, <2>6 DEF DispatchFile
  <2>8. DiskTypes'
    BY <1>1, <1>4, <2>6, <2>7 DEF DispatchFile, TypeInv, TypeOK, DiskTypes, Updates
  <2>9. QED
    BY <1>4, <2>1, <2>5, <2>8, FrameTypes DEF DispatchFile, TypeInv, TypeOK
<1>5. CASE DispatchFails(next)
  <2>1. PollerTypes'
    BY <1>1, <1>5, AdvanceTypes DEF DispatchFails
  <2>2. HistoryTypes'
    BY <1>1, <1>5, FaultType DEF DispatchFails, TypeInv, TypeOK, HistoryTypes, Updates
  <2>3. QED
    BY <1>5, <2>1, <2>2, FrameTypes DEF DispatchFails, TypeInv, TypeOK
<1>6. CASE ResetContents(next)
  <2>1. PollerTypes'
    BY <1>1, <1>6, AdvanceTypes DEF ResetContents
  <2>2. <<>> \in Seq(Updates)
    OBVIOUS
  <2>3. DiskTypes'
    BY <1>1, <1>6, <2>2 DEF ResetContents, TypeInv, TypeOK, DiskTypes, Updates
  <2>4. HistoryTypes'
    BY <1>1, <1>6 DEF ResetContents, TypeInv, TypeOK, HistoryTypes, Updates
  <2>5. QED
    BY <1>6, <2>1, <2>3, <2>4, FrameTypes DEF ResetContents, TypeInv, TypeOK
<1>7. QED
  BY <1>2, <1>3, <1>4, <1>5, <1>6 DEF Dispatch

\* The poller's other steps.
LEMMA PollerStepTypes ==
  ASSUME TypeInv, script' = script, Poll \/ ResetDirectory \/ SaveOffset \/ SaveFails \/ Restart
  PROVE  TypeInv'
<1>1. CASE Poll
  BY <1>1, PollTypes, FrameTypes DEF Poll, TypeInv, TypeOK
<1>2. CASE ResetDirectory
  <2>1. Chat(next - 1) \in Chats /\ Len(script) \in Nat
    BY <1>2, ScriptFacts DEF ResetDirectory, TypeInv, TypeOK, PollerTypes
  <2>2. DiskTypes'
    BY <1>2, <2>1 DEF ResetDirectory, TypeInv, TypeOK, DiskTypes, Updates
  <2>3. ppc' = "dispatch" => next \in 1 .. Len(script) /\ next <= last
    BY <1>2, <2>1 DEF ResetDirectory, TypeInv, TypeOK, PollerTypes, Updates
  <2>4. PollerTypes'
    BY <1>2, <2>3 DEF ResetDirectory, TypeInv, TypeOK, PollerTypes, Updates
  <2>5. QED
    BY <1>2, <2>2, <2>4, FrameTypes DEF ResetDirectory, TypeInv, TypeOK
<1>3. CASE SaveOffset \/ Restart
  <2>1. PollerTypes'
    BY <1>3 DEF SaveOffset, Restart, TypeInv, TypeOK, PollerTypes, Updates
  <2>2. QED
    BY <1>3, <2>1, FrameTypes DEF SaveOffset, Restart, TypeInv, TypeOK
<1>4. CASE SaveFails
  <2>1. PollerTypes'
    BY <1>4 DEF SaveFails, TypeInv, TypeOK, PollerTypes, Updates
  <2>2. HistoryTypes'
    BY <1>4, FaultType DEF SaveFails, TypeInv, TypeOK, HistoryTypes, Updates
  <2>3. QED
    BY <1>4, <2>1, <2>2, FrameTypes DEF SaveFails, TypeInv, TypeOK
<1>5. QED
  BY <1>1, <1>2, <1>3, <1>4

\* A task that is settled leaves its worker idle.
LEMMA SettleTypes ==
  ASSUME TypeInv, script' = script, NEW c \in Chats, NEW f \in {"failed", "answered", "unsent"},
         Settle(c, f), wpc[c] \in {"run", "reply"}, queue' = queue, cont' = cont
  PROVE  /\ WorkerTypes' /\ queue' \in [Chats -> Seq(RealTasks')]
         /\ fate' \in [Updates -> {"none", "refused", "failed", "answered", "unsent"}]
<1>1. cur[c].u \in Updates
  BY DEF TypeInv, TypeOK, WorkerTypes, Tasks
<1>2. RealTasks' = RealTasks /\ Tasks' = Tasks /\ NoTask \in Tasks /\ NoTask.u = 0
  BY DEF RealTasks, Tasks, Updates, NoTask, Task
<1>3. WorkerTypes'
  BY <1>2 DEF Settle, TypeInv, TypeOK, WorkerTypes
<1>4. QED
  BY <1>1, <1>2, <1>3 DEF Settle, TypeInv, TypeOK, HistoryTypes

LEMMA WorkerStepTypes ==
  ASSUME TypeInv, script' = script, NEW c \in Chats, Worker(c)
  PROVE  TypeInv'
<1>1. RealTasks' = RealTasks /\ Tasks' = Tasks
  BY DEF RealTasks, Tasks, Updates
<1>2. CASE Take(c) \/ WorkerEnds(c)
  <2>1. queue[c] \in Seq(RealTasks) /\ queue[c] \in Seq(Tasks) /\ queue[c] # <<>>
    BY <1>2 DEF Take, WorkerEnds, TypeInv, TypeOK, WorkerTypes
  <2>2. /\ Head(queue[c]) \in RealTasks /\ Head(queue[c]) \in Tasks
        /\ Tail(queue[c]) \in Seq(RealTasks) /\ Tail(queue[c]) \in Seq(Tasks)
    BY <2>1, HeadTailProperties
  <2>3. queue' \in [Chats -> Seq(RealTasks)] /\ queue' \in [Chats -> Seq(Tasks)]
    BY <1>2, <2>2 DEF Take, WorkerEnds, TypeInv, TypeOK, WorkerTypes
  <2>4. CASE Take(c)
    <3>1. Head(queue[c]).u # 0
      BY <2>2, <2>4, ScriptFacts DEF Take, RealTasks, Updates, TypeInv
    <3>2. WorkerTypes'
      BY <1>1, <2>2, <2>3, <2>4, <3>1 DEF Take, TypeInv, TypeOK, WorkerTypes, DiskTypes
    <3>3. QED
      BY <1>1, <2>3, <2>4, <3>2, FrameTypes DEF Take, TypeInv, TypeOK
  <2>5. CASE WorkerEnds(c)
    <3>1. WorkerTypes'
      BY <1>1, <2>3, <2>5 DEF WorkerEnds, TypeInv, TypeOK, WorkerTypes
    <3>2. QED
      BY <1>1, <2>3, <2>5, <3>1, FrameTypes DEF WorkerEnds, TypeInv, TypeOK
  <2>6. QED
    BY <1>2, <2>4, <2>5
<1>3. CASE RunStarts(c)
  <2>1. cur[c].u \in Updates
    BY <1>3 DEF RunStarts, TypeInv, TypeOK, WorkerTypes, Tasks
  <2>2. WorkerTypes'
    BY <1>1, <1>3 DEF RunStarts, TypeInv, TypeOK, WorkerTypes
  <2>3. DiskTypes'
    BY <1>3, <2>1 DEF RunStarts, TypeInv, TypeOK, DiskTypes, Updates
  <2>4. starts' \in [Updates -> Nat]
    BY <1>3, <2>1 DEF RunStarts, TypeInv, TypeOK, HistoryTypes
  <2>5. HistoryTypes'
    BY <1>3, <2>1, <2>4 DEF RunStarts, TypeInv, TypeOK, HistoryTypes, Updates
  <2>6. QED
    BY <1>1, <1>3, <2>2, <2>3, <2>5, FrameTypes DEF RunStarts, TypeInv, TypeOK
<1>4. CASE RunSucceeds(c)
  <2>1. WorkerTypes'
    BY <1>1, <1>4 DEF RunSucceeds, TypeInv, TypeOK, WorkerTypes
  <2>2. DiskTypes'
    BY <1>4 DEF RunSucceeds, TypeInv, TypeOK, DiskTypes, Updates
  <2>3. QED
    BY <1>1, <1>4, <2>1, <2>2, FrameTypes DEF RunSucceeds, TypeInv, TypeOK
<1>5. CASE RunFails(c) \/ ReplyFails(c)
  <2>1. WorkerTypes' /\ queue' \in [Chats -> Seq(RealTasks')]
        /\ fate' \in [Updates -> {"none", "refused", "failed", "answered", "unsent"}]
    BY <1>5, SettleTypes DEF RunFails, ReplyFails
  <2>2. faults' \in Nat
    BY <1>5, FaultType DEF RunFails, ReplyFails
  <2>3. HistoryTypes'
    BY <1>5, <2>1, <2>2 DEF RunFails, ReplyFails, TypeInv, TypeOK, HistoryTypes, Updates
  <2>4. QED
    BY <1>5, <2>1, <2>3, FrameTypes DEF RunFails, ReplyFails, TypeInv, TypeOK
<1>6. CASE Reply(c)
  <2>1. WorkerTypes' /\ queue' \in [Chats -> Seq(RealTasks')]
        /\ fate' \in [Updates -> {"none", "refused", "failed", "answered", "unsent"}]
    BY <1>6, SettleTypes DEF Reply
  <2>2. HistoryTypes'
    BY <1>6, <2>1 DEF Reply, TypeInv, TypeOK, HistoryTypes, Updates
  <2>3. QED
    BY <1>6, <2>1, <2>2, FrameTypes DEF Reply, TypeInv, TypeOK
<1>7. QED
  BY <1>2, <1>3, <1>4, <1>5, <1>6 DEF Worker

\* What waits in memory is an update.
LEMMA InMemoryType == TypeInv => InMemory \subseteq Updates
<1> SUFFICES ASSUME TypeInv, NEW c \in Chats PROVE TasksOf(c) \subseteq Updates
  BY DEF InMemory
<1>1. \A i \in 1 .. Len(queue[c]) : queue[c][i] \in Tasks
  BY ElementOfSeq DEF TypeInv, TypeOK, WorkerTypes
<1>2. Pending(c) \subseteq Tasks
  BY <1>1 DEF Pending, TypeInv, TypeOK, WorkerTypes
<1>3. QED
  BY <1>2 DEF TasksOf, Tasks

\* The end of the process, and its orderly beginning.
LEMMA EndTypes ==
  ASSUME TypeInv, script' = script, Exit \/ Crash \/ Shutdown
  PROVE  TypeInv'
<1>1. RealTasks' = RealTasks /\ Tasks' = Tasks /\ NoTask \in Tasks /\ NoTask.u = 0
      /\ NoTask \in RealTasks
  BY DEF RealTasks, Tasks, Updates, NoTask, Task
<1>2. CASE Exit \/ Crash
  <2>1. MemoryGone
    BY <1>2 DEF Exit, Crash
  <2>2. Len(script) \in Nat
    BY ScriptFacts DEF TypeInv
  <2>3. saved' \in 0 .. Len(script) + 1
    BY <1>2, <2>2 DEF Exit, Crash, TypeInv, TypeOK, PollerTypes
  <2>4. PollerTypes'
    BY <2>1, <2>2, <2>3 DEF MemoryGone, TypeInv, TypeOK, PollerTypes, Updates
  <2>5. WorkerTypes' /\ queue' \in [Chats -> Seq(RealTasks')]
    BY <1>1, <2>1 DEF MemoryGone, TypeInv, TypeOK, WorkerTypes
  <2>6. DiskTypes'
    BY <2>1, FrameTypes DEF MemoryGone
  <2>7. lost' \in SUBSET Updates
    BY <2>1, InMemoryType DEF MemoryGone, InMemory, TypeInv, TypeOK, HistoryTypes
  <2>8. unclean' \in Nat /\ deaths' \in Nat
    BY <1>2 DEF Exit, Crash, TypeInv, TypeOK, HistoryTypes
  <2>9. HistoryTypes'
    BY <2>1, <2>7, <2>8 DEF MemoryGone, TypeInv, TypeOK, HistoryTypes, Updates
  <2>10. QED
    BY <2>4, <2>5, <2>6, <2>9 DEF TypeInv, TypeOK
<1>3. CASE Shutdown
  <2>1. ASSUME NEW c \in Chats
        PROVE  Append(queue[c], NoTask) \in Seq(RealTasks) /\ Append(queue[c], NoTask) \in Seq(Tasks)
    BY <1>1, AppendProperties DEF TypeInv, TypeOK, WorkerTypes
  <2>2. queue' \in [Chats -> Seq(RealTasks)] /\ queue' \in [Chats -> Seq(Tasks)]
    BY <1>3, <2>1 DEF Shutdown, TypeInv, TypeOK, WorkerTypes
  <2>3. WorkerTypes'
    BY <1>1, <1>3, <2>2 DEF Shutdown, TypeInv, TypeOK, WorkerTypes
  <2>4. PollerTypes'
    BY <1>3 DEF Shutdown, TypeInv, TypeOK, PollerTypes, Updates
  <2>5. HistoryTypes'
    BY <1>3 DEF Shutdown, TypeInv, TypeOK, HistoryTypes, Updates
  <2>6. QED
    BY <1>1, <1>3, <2>2, <2>3, <2>4, <2>5, FrameTypes DEF Shutdown, TypeInv, TypeOK
<1>4. QED
  BY <1>2, <1>3

LEMMA TypeInit == Init => TypeInv
<1> SUFFICES ASSUME Init PROVE TypeInv
  OBVIOUS
<1>1. Len(script) \in Nat /\ script \in Scripts
  BY ScriptFacts DEF Init
<1>2. NoTask \in Tasks /\ NoTask.u = 0
  BY DEF Tasks, NoTask, Task
<1>3. PollerTypes
  BY <1>1 DEF Init, PollerTypes, Updates
<1>4. WorkerTypes /\ queue \in [Chats -> Seq(RealTasks)]
  BY <1>2 DEF Init, WorkerTypes
<1>5. QED
  BY <1>1, <1>3, <1>4 DEF Init, TypeInv, TypeOK, DiskTypes, HistoryTypes

LEMMA TypeStep == TypeInv /\ [Next]_vars => TypeInv'
<1> SUFFICES ASSUME TypeInv, [Next]_vars PROVE TypeInv'
  OBVIOUS
<1>1. script' = script
  BY ScriptKept
<1>2. CASE UNCHANGED vars
  BY <1>1, <1>2, FrameTypes DEF vars, TypeInv, TypeOK
<1>3. CASE Next
  BY <1>1, <1>3, DispatchTypes, PollerStepTypes, WorkerStepTypes, EndTypes DEF Next, Poller
<1>4. QED
  BY <1>2, <1>3

\* Every reachable state of the one-shot bridge is well typed.
THEOREM TypeCorrect == Spec => []TypeOK
<1>1. TypeInv => TypeOK
  BY DEF TypeInv
<1>2. QED
  BY TypeInit, TypeStep, <1>1, PTL DEF Spec

-----------------------------------------------------------------------------
(* The directory of a chat *)

\* Between the two halves of a /reset the chat has no attachment: only the poller adds one.
DirInv ==
  /\ DirectoryHoldsMarker
  /\ \A u \in Updates : ppc = "rmdir" /\ next = u + 1 => files[Chat(u)] = <<>>

LEMMA DirSame ==
  ASSUME DirInv, script' = script, UNCHANGED dirVars, (ppc' = ppc /\ next' = next) \/ ppc' # "rmdir"
  PROVE  DirInv'
BY DEF DirInv, DirectoryHoldsMarker, dirVars, Updates, Chat

LEMMA DirDispatch ==
  ASSUME TypeInv, DirInv, script' = script, Dispatch
  PROVE  DirInv'
<1>1. ppc = "dispatch" /\ next \in Updates /\ next \in Nat /\ Chat(next) \in Chats
  BY ScriptFacts DEF Dispatch, TypeInv, TypeOK, PollerTypes, Updates
<1>2. CASE DispatchNothing(next) \/ DispatchText(next) \/ DispatchFails(next)
  BY <1>1, <1>2, DirSame DEF DispatchNothing, DispatchText, DispatchFails, Advance
<1>3. CASE DispatchFile(next)
  <2>1. ppc' # "rmdir"
    BY <1>1, <1>3 DEF DispatchFile, Advance
  <2>2. ASSUME NEW c \in Chats, ~dir'[c] PROVE ~marker'[c] /\ files'[c] = <<>>
    BY <1>1, <1>3, <2>2 DEF DispatchFile, DirInv, DirectoryHoldsMarker, TypeInv, TypeOK, DiskTypes
  <2>3. QED
    BY <2>1, <2>2 DEF DirInv, DirectoryHoldsMarker
<1>4. CASE ResetContents(next)
  <2>1. /\ marker' = [marker EXCEPT ![Chat(next)] = FALSE]
        /\ files' = [files EXCEPT ![Chat(next)] = <<>>]
        /\ dir' = dir /\ next' = next + 1
    BY <1>4 DEF ResetContents, Advance
  <2>2. \A c \in Chats : ~dir'[c] => ~marker'[c] /\ files'[c] = <<>>
    BY <1>1, <2>1 DEF DirInv, DirectoryHoldsMarker, TypeInv, TypeOK, DiskTypes
  <2>3. \A u \in Updates : next + 1 = u + 1 => u = next
    BY <1>1, ScriptFacts DEF TypeInv
  <2>4. files'[Chat(next)] = <<>>
    BY <1>1, <2>1 DEF TypeInv, TypeOK, DiskTypes
  <2>5. \A u \in Updates : next' = u + 1 => files'[Chat(u)] = <<>>
    BY <2>1, <2>3, <2>4
  <2>6. QED
    BY <2>2, <2>5 DEF DirInv, DirectoryHoldsMarker, Updates, Chat
<1>5. QED
  BY <1>2, <1>3, <1>4 DEF Dispatch

LEMMA DirStep == TypeInv /\ DirInv /\ [Next]_vars => DirInv'
<1> SUFFICES ASSUME TypeInv, DirInv, [Next]_vars PROVE DirInv'
  OBVIOUS
<1>1. script' = script
  BY ScriptKept
<1>2. CASE Dispatch
  BY <1>1, <1>2, DirDispatch
<1>3. CASE ResetDirectory
  <2> DEFINE u == next - 1
             c == Chat(u)
  <2>1. u \in Updates /\ next = u + 1 /\ c \in Chats
    BY <1>3, ScriptFacts DEF ResetDirectory, TypeInv, TypeOK, PollerTypes, Updates
  <2>2. files[c] = <<>>
    BY <1>3, <2>1 DEF ResetDirectory, DirInv
  <2>3. dir' = [dir EXCEPT ![c] = marker[c]] /\ marker' = marker /\ files' = files /\ ppc' # "rmdir"
    BY <1>3 DEF ResetDirectory
  <2>4. \A d \in Chats : ~dir'[d] => ~marker'[d] /\ files'[d] = <<>>
    BY <2>1, <2>2, <2>3 DEF DirInv, DirectoryHoldsMarker, TypeInv, TypeOK, DiskTypes
  <2>5. QED
    BY <2>3, <2>4 DEF DirInv, DirectoryHoldsMarker
<1>4. CASE Poll \/ SaveOffset \/ SaveFails \/ Exit \/ Restart \/ Shutdown \/ Crash
  BY <1>1, <1>4, DirSame DEF Poll, SaveOffset, SaveFails, Exit, Restart, Shutdown, Crash, MemoryGone
<1>5. ASSUME NEW c \in Chats, Take(c) \/ WorkerEnds(c) \/ RunFails(c) \/ Reply(c) \/ ReplyFails(c)
      PROVE  DirInv'
  BY <1>1, <1>5, DirSame DEF Take, WorkerEnds, RunFails, Reply, ReplyFails, pollerVars
<1>6. ASSUME NEW c \in Chats, RunStarts(c) \/ RunSucceeds(c) PROVE DirInv'
  <2>1. ppc' = ppc /\ next' = next /\ files' = files
    BY <1>6 DEF RunStarts, RunSucceeds, pollerVars
  <2>2. \A d \in Chats : ~dir'[d] => ~marker'[d] /\ files'[d] = <<>>
    BY <1>6, <2>1 DEF RunStarts, RunSucceeds, DirInv, DirectoryHoldsMarker, TypeInv, TypeOK, DiskTypes
  <2>3. QED
    BY <1>1, <2>1, <2>2 DEF DirInv, DirectoryHoldsMarker, Updates, Chat
<1>7. CASE UNCHANGED vars
  BY <1>1, <1>7, DirSame DEF vars, pollerVars
<1>8. QED
  BY <1>2, <1>3, <1>4, <1>5, <1>6, <1>7 DEF Next, Poller, Worker

\* Whatever /reset and the worker of the chat do to its directory at the same time, a marker
\* or an attachment is never left without it.
THEOREM DirectoryIsWhole == Spec => []DirectoryHoldsMarker
<1>1. Init => DirInv
  BY DEF Init, DirInv, DirectoryHoldsMarker
<1>2. DirInv => DirectoryHoldsMarker
  BY DEF DirInv
<1>3. QED
  BY TypeInit, TypeStep, <1>1, DirStep, <1>2, PTL DEF Spec

-----------------------------------------------------------------------------
(* What Telegram forgot is accounted for *)

Accounted(u) == fate[u] # "none" \/ u \in InMemory \/ u \in lost

\* Every number the bridge may ask Telegram with, now or after a restart, lies behind prompts
\* that are accounted for.
CustodyInv ==
  \A u \in Updates :
    IsPrompt(u) /\ (u <= forgotten \/ u < offset \/ u < saved \/ u < next) => Accounted(u)

\* The prompts of queue q and of task t.
Waits(q, t, u) == t.u = u \/ \E i \in 1 .. Len(q) : q[i].u = u

LEMMA TasksWait ==
  ASSUME NEW c, NEW u
  PROVE  /\ u \in TasksOf(c) <=> u # 0 /\ Waits(queue[c], cur[c], u)
         /\ u \in TasksOf(c)' <=> u # 0 /\ Waits(queue'[c], cur'[c], u)
BY DEF TasksOf, Pending, Waits

\* A task that is appended waits, and so does whatever waited before.
LEMMA AppendWaits ==
  ASSUME NEW S, NEW q \in Seq(S), NEW x \in S, NEW t, NEW u
  PROVE  /\ Waits(q, t, u) => Waits(Append(q, x), t, u)
         /\ Waits(Append(q, x), t, x.u)
<1> DEFINE r == Append(q, x)
<1>1. Len(q) \in Nat /\ Len(r) = Len(q) + 1 /\ r[Len(q) + 1] = x
      /\ \A i \in 1 .. Len(q) : r[i] = q[i]
  BY AppendProperties, LenProperties
<1>2. Len(q) + 1 \in 1 .. Len(r) /\ \A i \in 1 .. Len(q) : i \in 1 .. Len(r)
  BY <1>1
<1> HIDE DEF r
<1>3. QED
  BY <1>1, <1>2 DEF Waits, r

\* Taking the head leaves the others waiting.
LEMMA TailWaits ==
  ASSUME NEW S, NEW q \in Seq(S), q # <<>>, NEW t, NEW u, Waits(q, t, u)
  PROVE  t.u = u \/ Waits(Tail(q), Head(q), u)
<1>1. /\ Len(q) \in Nat /\ Len(Tail(q)) = Len(q) - 1 /\ Head(q) = q[1]
      /\ \A i \in 1 .. Len(Tail(q)) : Tail(q)[i] = q[i + 1]
  BY HeadTailProperties, LenProperties
<1>2. ASSUME NEW i \in 1 .. Len(q), i # 1
      PROVE  i - 1 \in 1 .. Len(Tail(q)) /\ q[i] = Tail(q)[i - 1]
  <2>1. i - 1 \in 1 .. Len(Tail(q)) /\ (i - 1) + 1 = i
    BY <1>1, <1>2
  <2>2. QED
    BY <1>1, <2>1
<1>3. QED
  BY <1>1, <1>2 DEF Waits

LEMMA AccountedSame ==
  ASSUME UNCHANGED <<queue, cur, fate, lost>>, NEW u, Accounted(u)
  PROVE  Accounted(u)'
BY DEF Accounted, InMemory, TasksOf, Pending

\* A prompt in a queue stays accounted for, and one that is put there is.
LEMMA EnqueueAccounts ==
  ASSUME TypeInv, NEW c \in Chats, NEW t \in [u : Updates, slot : Nat], Enqueue(c, t),
         fate' = fate, lost' = lost
  PROVE  /\ \A u \in Updates : Accounted(u) => Accounted(u)'
         /\ Accounted(t.u)'
<1>1. queue[c] \in Seq(RealTasks) /\ t \in RealTasks /\ t.u # 0
  BY ScriptFacts DEF TypeInv, RealTasks, Updates
<1>2. queue' = [queue EXCEPT ![c] = Append(queue[c], t)] /\ cur' = cur
  BY DEF Enqueue
<1>3. queue'[c] = Append(queue[c], t) /\ \A d \in Chats : d # c => queue'[d] = queue[d]
  BY <1>2 DEF TypeInv
<1>4. \A d \in Chats, u \in Updates : u \in TasksOf(d) => u \in TasksOf(d)'
  BY <1>1, <1>2, <1>3, TasksWait, AppendWaits
<1>5. t.u \in TasksOf(c)'
  BY <1>1, <1>2, <1>3, TasksWait, AppendWaits
<1>6. QED
  BY <1>4, <1>5 DEF Accounted, InMemory

\* The same, for a task known by its update.
LEMMA EnqueueAt ==
  ASSUME TypeInv, NEW c \in Chats, NEW u \in Updates, NEW t \in [u : Updates, slot : Nat],
         t.u = u, Enqueue(c, t), fate' = fate, lost' = lost
  PROVE  \A v \in Updates : v = u \/ Accounted(v) => Accounted(v)'
<1>1. \A v \in Updates : v = t.u => Accounted(v)'
  BY EnqueueAccounts DEF Accounted
<1>2. QED
  BY <1>1, EnqueueAccounts

\* What a worker does keeps every prompt accounted for.
LEMMA WorkerAccounts ==
  ASSUME TypeInv, NEW c \in Chats, Worker(c), NEW u \in Updates, Accounted(u)
  PROVE  Accounted(u)'
<1>1. CASE Take(c) \/ WorkerEnds(c)
  <2>1. fate' = fate /\ lost' = lost /\ u # 0
    BY <1>1, ScriptFacts DEF Take, WorkerEnds, histVars, TypeInv
  <2>2. queue[c] \in Seq(RealTasks) /\ queue[c] # <<>> /\ cur[c].u = 0
    BY <1>1 DEF Take, WorkerEnds, TypeInv, TypeOK, WorkerTypes
  <2>3. /\ queue'[c] = Tail(queue[c])
        /\ cur'[c] = Head(queue[c]) \/ (Head(queue[c]) = NoTask /\ cur'[c] = cur[c])
        /\ \A d \in Chats : d # c => queue'[d] = queue[d] /\ cur'[d] = cur[d]
    BY <1>1 DEF Take, WorkerEnds, TypeInv, TypeOK, WorkerTypes
  <2>4. u \in TasksOf(c) => Waits(Tail(queue[c]), Head(queue[c]), u)
    BY <2>1, <2>2, TasksWait, TailWaits
  <2>5. u \in TasksOf(c) => u \in TasksOf(c)'
    <3>1. CASE cur'[c] = Head(queue[c])
      BY <2>1, <2>3, <2>4, <3>1, TasksWait
    <3>2. CASE Head(queue[c]) = NoTask
      <4>1. Head(queue[c]).u # u
        BY <2>1, <3>2 DEF NoTask, Task
      <4>2. QED
        BY <2>1, <2>3, <2>4, <4>1, TasksWait DEF Waits
    <3>3. QED
      BY <2>3, <3>1, <3>2
  <2>6. \A d \in Chats : u \in TasksOf(d) => u \in TasksOf(d)'
    BY <2>3, <2>5, TasksWait
  <2>7. QED
    BY <2>1, <2>6 DEF Accounted, InMemory
<1>2. CASE RunStarts(c) \/ RunSucceeds(c)
  BY <1>2, AccountedSame DEF RunStarts, RunSucceeds, histVars
<1>3. ASSUME NEW f \in {"failed", "answered", "unsent"}, Settle(c, f), queue' = queue, lost' = lost
      PROVE  Accounted(u)'
  <2>1. /\ cur'[c] = NoTask /\ \A d \in Chats : d # c => cur'[d] = cur[d]
        /\ fate' = [fate EXCEPT ![cur[c].u] = f]
    BY <1>3 DEF Settle, TypeInv, TypeOK, WorkerTypes
  <2>2. CASE u = cur[c].u \/ fate[u] # "none"
    <3>1. fate'[u] # "none"
      BY <2>1, <2>2 DEF TypeInv, TypeOK, HistoryTypes
    <3>2. QED
      BY <3>1 DEF Accounted
  <2>3. CASE u # cur[c].u
    <3>1. \A d \in Chats : u \in TasksOf(d) => u \in TasksOf(d)'
      BY <1>3, <2>1, <2>3, TasksWait DEF Waits
    <3>2. fate'[u] = fate[u]
      BY <2>1, <2>3 DEF TypeInv, TypeOK, HistoryTypes
    <3>3. QED
      BY <1>3, <3>1, <3>2 DEF Accounted, InMemory
  <2>4. QED
    BY <2>2, <2>3
<1>4. QED
  BY <1>1, <1>2, <1>3 DEF Worker, RunFails, Reply, ReplyFails

\* The process ends: what it held is known to be lost.
LEMMA EndAccounts ==
  ASSUME TypeInv, Exit \/ Crash \/ Shutdown, NEW u \in Updates, Accounted(u)
  PROVE  Accounted(u)'
<1>1. CASE Exit \/ Crash
  BY <1>1 DEF Exit, Crash, MemoryGone, Accounted, InMemory
<1>2. CASE Shutdown
  <2>1. fate' = fate /\ lost' = lost /\ cur' = cur
    BY <1>2 DEF Shutdown
  <2>2. \A d \in Chats : queue'[d] = queue[d] \/ queue'[d] = Append(queue[d], NoTask)
    BY <1>2 DEF Shutdown
  <2>3. \A d \in Chats : queue[d] \in Seq(RealTasks) /\ NoTask \in RealTasks
    BY DEF TypeInv, RealTasks
  <2>4. \A d \in Chats : u \in TasksOf(d) => u \in TasksOf(d)'
    BY <2>1, <2>2, <2>3, TasksWait, AppendWaits
  <2>5. QED
    BY <2>1, <2>4 DEF Accounted, InMemory
<1>3. QED
  BY <1>1, <1>2

\* An update behind the poller was behind it before, or was just dispatched and is accounted for.
LEMMA DispatchCustody ==
  ASSUME TypeInv, CustodyInv, script' = script, Dispatch
  PROVE  CustodyInv'
<1>1. next \in Updates /\ next \in Nat /\ Chat(next) \in Chats
  BY ScriptFacts DEF Dispatch, TypeInv, TypeOK, PollerTypes, Updates
<1>2. /\ \A u \in Updates : Accounted(u) => Accounted(u)'
      /\ \A u \in Updates : u = next /\ IsPrompt(u) => Accounted(u)'
  <2>1. CASE DispatchNothing(next) \/ ResetContents(next)
    BY <2>1, AccountedSame DEF DispatchNothing, ResetContents, IsPrompt, workerVars, histVars
  <2>2. CASE DispatchText(next)
    <3>1. Task(next, 0) \in [u : Updates, slot : Nat] /\ Task(next, 0).u = next
      BY <1>1 DEF Task
    <3>2. Enqueue(Chat(next), Task(next, 0)) /\ fate' = fate /\ lost' = lost
      BY <2>2 DEF DispatchText, histVars
    <3>3. QED
      BY <1>1, <3>1, <3>2, EnqueueAt
  <2>3. CASE DispatchFile(next)
    <3> DEFINE i == Unique(Chat(next))
    <3>1. i \in Nat
      BY <1>1, LenProperties DEF Unique, TypeInv, TypeOK, DiskTypes
    <3>2. Task(next, i) \in [u : Updates, slot : Nat] /\ Task(next, i).u = next
      BY <1>1, <3>1 DEF Task
    <3>3. Enqueue(Chat(next), Task(next, i)) /\ fate' = fate /\ lost' = lost
      BY <2>3 DEF DispatchFile, histVars
    <3>4. QED
      BY <1>1, <3>2, <3>3, EnqueueAt
  <2>4. CASE DispatchFails(next)
    <3>1. fate' = [fate EXCEPT ![next] = "refused"] /\ UNCHANGED <<queue, cur, lost>>
      BY <2>4 DEF DispatchFails, workerVars
    <3>2. \A u \in Updates : fate[u] # "none" => fate'[u] # "none"
      BY <3>1 DEF TypeInv, TypeOK, HistoryTypes
    <3>3. fate' = [fate EXCEPT ![next] = "refused"] /\ fate \in [Updates -> {"none", "refused", "failed", "answered", "unsent"}]
      BY <3>1 DEF TypeInv, TypeOK, HistoryTypes
    <3>4. fate'[next] # "none"
      BY <1>1, <3>3
    <3>5. InMemory' = InMemory
      BY <3>1 DEF InMemory, TasksOf, Pending
    <3>6. QED
      BY <1>1, <3>1, <3>2, <3>4, <3>5 DEF Accounted
  <2>5. QED
    BY <2>1, <2>2, <2>3, <2>4 DEF Dispatch
<1>3. /\ offset' \in {offset, next + 1} /\ next' = next + 1
      /\ forgotten' = forgotten /\ saved' = saved
  BY DEF Dispatch, DispatchNothing, DispatchText, DispatchFile, DispatchFails, ResetContents,
         Advance, Larger
<1>4. ASSUME NEW u \in Updates, IsPrompt(u),
             u <= forgotten \/ u < offset' \/ u < saved \/ u < next'
      PROVE  Accounted(u)'
  <2>1. u \in Nat
    BY <1>4, ScriptFacts DEF TypeInv
  <2>2. u < next + 1 => u < next \/ u = next
    BY <1>1, <2>1
  <2>3. u <= forgotten \/ u < offset \/ u < saved \/ u < next \/ u = next
    BY <1>3, <1>4, <2>2
  <2>4. CASE u = next
    BY <1>2, <1>4, <2>4
  <2>5. CASE u <= forgotten \/ u < offset \/ u < saved \/ u < next
    <3>1. Accounted(u)
      BY <1>4, <2>5 DEF CustodyInv
    <3>2. QED
      BY <1>2, <1>4, <3>1
  <2>6. QED
    BY <2>3, <2>4, <2>5
<1>5. QED
  BY <1>3, <1>4 DEF CustodyInv, Updates, IsPrompt, Kind

LEMMA CustodyStep == TypeInv /\ CustodyInv /\ [Next]_vars => CustodyInv'
<1> SUFFICES ASSUME TypeInv, CustodyInv, [Next]_vars PROVE CustodyInv'
  OBVIOUS
<1>1. script' = script
  BY ScriptKept
<1>2. Len(script) \in Nat
  BY ScriptFacts DEF TypeInv
<1>3. CASE Dispatch
  BY <1>1, <1>3, DispatchCustody
<1>4. CASE Poll
  <2>1. forgotten' \in {forgotten, offset - 1} /\ next' = forgotten' + 1 /\ offset' = offset
        /\ saved' = saved /\ UNCHANGED <<queue, cur, fate, lost>>
    BY <1>4 DEF Poll, Larger, workerVars, histVars
  <2>2. offset \in Int /\ forgotten \in Int
    BY <1>2 DEF TypeInv, TypeOK, PollerTypes, Updates
  <2>3. \A f \in Int : \A u \in Updates : u < f + 1 => u <= f
    BY <1>2 DEF Updates
  <2>4. forgotten' \in Int
    BY <2>1, <2>2
  <2>5. \A u \in Updates : u <= offset - 1 => u < offset
    BY <1>2, <2>2 DEF Updates
  <2>6. ASSUME NEW u \in Updates, u <= forgotten' \/ u < offset \/ u < saved \/ u < next'
        PROVE  u <= forgotten \/ u < offset \/ u < saved
    <3>1. u < next' => u <= forgotten'
      BY <2>1, <2>3, <2>4
    <3>2. QED
      BY <2>1, <2>5, <2>6, <3>1
  <2>7. QED
    BY <1>1, <2>1, <2>6, AccountedSame DEF CustodyInv, Updates, IsPrompt, Kind
<1>5. CASE ResetDirectory \/ SaveOffset \/ SaveFails \/ Restart
  <2>1. /\ forgotten' = forgotten /\ next' = next /\ offset' \in {offset, saved}
        /\ saved' \in {saved, offset} /\ UNCHANGED <<queue, cur, fate, lost>>
    BY <1>5 DEF ResetDirectory, SaveOffset, SaveFails, Restart, workerVars, histVars
  <2>2. QED
    BY <1>1, <2>1, AccountedSame DEF CustodyInv, Updates, IsPrompt, Kind
<1>6. CASE Exit \/ Crash \/ Shutdown
  <2>1. /\ forgotten' = forgotten /\ next' \in {next, 1} /\ offset' \in {offset, 0}
        /\ saved' \in {saved, 0}
    BY <1>6 DEF Exit, Crash, Shutdown, MemoryGone
  <2>2. \A u \in Updates : ~(u < 0) /\ ~(u < 1)
    BY <1>2 DEF Updates
  <2>3. QED
    BY <1>1, <1>6, <2>1, <2>2, EndAccounts DEF CustodyInv, Updates, IsPrompt, Kind
<1>7. ASSUME NEW c \in Chats, Worker(c) PROVE CustodyInv'
  <2>1. UNCHANGED <<forgotten, next, offset, saved>>
    BY <1>7 DEF Worker, Take, WorkerEnds, RunStarts, RunSucceeds, RunFails, Reply, ReplyFails,
                pollerVars
  <2>2. QED
    BY <1>1, <1>7, <2>1, WorkerAccounts DEF CustodyInv, Updates, IsPrompt, Kind
<1>8. CASE UNCHANGED vars
  <2>1. UNCHANGED <<forgotten, next, offset, saved, queue, cur, fate, lost>>
    BY <1>8 DEF vars, pollerVars, workerVars, histVars
  <2>2. QED
    BY <1>1, <2>1, AccountedSame DEF CustodyInv, Updates, IsPrompt, Kind
<1>9. QED
  BY <1>3, <1>4, <1>5, <1>6, <1>7, <1>8 DEF Next, Poller

\* The offset never confirms a prompt that nobody took: what Telegram forgot waits in memory,
\* was settled in front of the user, or is known to have died with a process.
THEOREM NothingForgottenIsUnknown == Spec => []ForgottenIsAccounted
<1>1. Init => CustodyInv
  <2> SUFFICES ASSUME Init PROVE CustodyInv
    OBVIOUS
  <2>1. forgotten = 0 /\ offset = 0 /\ saved = 0 /\ next = 1 /\ script \in Scripts
    BY DEF Init
  <2>2. \A u \in Updates : ~(u <= 0) /\ ~(u < 0) /\ ~(u < 1)
    BY <2>1, ScriptFacts DEF Updates
  <2>3. QED
    BY <2>1, <2>2 DEF CustodyInv
<1>2. CustodyInv => ForgottenIsAccounted
  BY DEF CustodyInv, Accounted, ForgottenIsAccounted
<1>3. QED
  BY TypeInit, TypeStep, <1>1, CustodyStep, <1>2, PTL DEF Spec
=============================================================================
