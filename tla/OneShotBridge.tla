--------------------------- MODULE OneShotBridge ---------------------------
(***************************************************************************)
(* The one-shot bridge (bridge.py): a poller reads updates and hands each  *)
(* prompt to the worker of its chat; the worker runs the agent's command   *)
(* line for one prompt at a time and sends its output back.  Nothing but   *)
(* the offset and the chat's directory (marker of a started conversation,  *)
(* downloaded attachments) is on disk: the queues of the workers die with  *)
(* the process.  The service manager starts the bridge again.              *)
(*                                                                         *)
(* Updates are numbered as Telegram numbers them; Telegram keeps an update *)
(* until getUpdates asks for a higher one.                                 *)
(***************************************************************************)
EXTENDS Integers, Sequences, FiniteSets

CONSTANTS
  Scripts,       \* what Telegram has for the bot: sequences of updates
  MaxFaults,     \* failing downloads, agent runs, sends and writes of the offset
  MaxDeaths      \* signals to stop and crashes

\* "info": /start, /help, /id, /status; "ignored": no message, no mention, malformed;
\* "stranger": whatever somebody without authorization sends.
Kinds == {"text", "file", "voice", "reset", "info", "ignored", "stranger"}
UpdateType == [chat : {"c1", "c2"}, kind : Kinds]

ASSUME OneShotAssumption ==
  /\ \A s \in Scripts : s \in Seq(UpdateType)
  /\ MaxFaults \in Nat
  /\ MaxDeaths \in Nat

VARIABLES
  script,
  forgotten,     \* Telegram forgot the updates up to this one
  \* the process: poller
  ppc,           \* "poll", "dispatch", "rmdir", "save", "joining", "down"
  offset,        \* offset in memory
  next, last,    \* updates of the batch that are not dispatched: next .. last
  \* the process: workers
  queue,         \* their queues: tasks [u, slot] and NoTask, which ends a worker
  wpc,           \* "none", "idle", "start", "run", "reply", "over"
  cur,           \* task of the worker
  cont,          \* is_continuation of its run
  \* the disk
  saved,         \* offset file, 0: missing or unreadable
  dir, marker,   \* the chat has a directory, with the marker of a conversation
  files,         \* attachments of the chat: file i came with update files[c][i]
  \* the agent
  conv,          \* prompts in the conversation that --continue resumes
  \* bookkeeping of the model
  fate,          \* what became of an update, as far as the user could see
  lost,          \* tasks in memory when the process ended
  raced,         \* resets handled while a task of the chat was waiting or running
  starts,        \* runs of the agent per update
  lastRun,       \* last update this process ran in the chat
  unclean,       \* crashes and failing writes of the offset
  faults, deaths

pollerVars == <<ppc, offset, next, last>>
workerVars == <<queue, wpc, cur, cont>>
dirVars == <<dir, marker, files>>
histVars == <<fate, lost, raced, starts, lastRun, unclean, faults, deaths>>
vars == <<script, forgotten, pollerVars, workerVars, saved, dirVars, conv, histVars>>

Chats == {"c1", "c2"}
Updates == 1 .. Len(script)
Kind(u) == script[u].kind
Chat(u) == script[u].chat
IsPrompt(u) == Kind(u) \in {"text", "file", "voice"}

\* A task: its update and the name of its attachment, 0: none.
Task(u, i) == [u |-> u, slot |-> i]
NoTask == Task(0, 0)

Larger(a, b) == IF a > b THEN a ELSE b
Pending(c) == {queue[c][i] : i \in 1 .. Len(queue[c])} \cup {cur[c]}
TasksOf(c) == {t.u : t \in Pending(c)} \ {0}

Fault == faults < MaxFaults /\ faults' = faults + 1

Init ==
  /\ script \in Scripts
  /\ forgotten = 0 /\ saved = 0
  /\ ppc = "poll" /\ offset = 0 /\ next = 1 /\ last = 0
  /\ queue = [c \in Chats |-> <<>>] /\ wpc = [c \in Chats |-> "none"]
  /\ cur = [c \in Chats |-> NoTask] /\ cont = [c \in Chats |-> FALSE]
  /\ dir = [c \in Chats |-> FALSE] /\ marker = [c \in Chats |-> FALSE]
  /\ files = [c \in Chats |-> <<>>]
  /\ conv = [c \in Chats |-> {}]
  /\ fate = [u \in Updates |-> "none"] /\ lost = {} /\ raced = {}
  /\ starts = [u \in Updates |-> 0] /\ lastRun = [c \in Chats |-> 0]
  /\ unclean = 0 /\ faults = 0 /\ deaths = 0

-----------------------------------------------------------------------------
(* The poller *)

\* getUpdates(offset): Telegram forgets what is below the offset and returns the oldest of
\* the rest, as many as have arrived.  An empty answer comes only when nothing is left.  A
\* failing call changes nothing: the poller waits and asks again.
Poll ==
  /\ ppc = "poll"
  /\ forgotten' = Larger(forgotten, offset - 1)
  /\ next' = forgotten' + 1
  /\ \E n \in Updates \cup {0} :
       /\ n > forgotten' \/ (n = Len(script) /\ n = forgotten')
       /\ last' = n
  /\ ppc' = IF last' >= next' THEN "dispatch" ELSE "save"
  /\ UNCHANGED <<script, offset, workerVars, saved, dirVars, conv, histVars>>

\* Mutant: the poller does not notice the end of the batch.
AdvancePastBatch(u, pc) ==
  /\ offset' = Larger(offset, u + 1)
  /\ next' = u + 1
  /\ ppc' = IF pc = "dispatch" /\ u > last THEN "save" ELSE pc
  /\ UNCHANGED last

\* Mutant: the offset skips one update.
AdvanceTooFar(u, pc) ==
  /\ offset' = Larger(offset, u + 2)
  /\ next' = u + 1
  /\ ppc' = IF pc = "dispatch" /\ u = last THEN "save" ELSE pc
  /\ UNCHANGED last

\* Mutant: the dispatched update stays the offset to ask for.
AdvanceTooLate(u, pc) ==
  /\ offset' = Larger(offset, u)
  /\ next' = u + 1
  /\ ppc' = IF pc = "dispatch" /\ u = last THEN "save" ELSE pc
  /\ UNCHANGED last

\* The offset moves past an update before the update is dispatched, and whatever dispatch
\* raises is only logged.
Advance(u, pc) ==
  /\ offset' = Larger(offset, u + 1)
  /\ next' = u + 1
  /\ ppc' = IF pc = "dispatch" /\ u = last THEN "save" ELSE pc
  /\ UNCHANGED last

\* Mutant: the newest task is served first.
EnqueueInFront(c, t) ==
  /\ queue' = [queue EXCEPT ![c] = <<t>> \o @]
  /\ wpc' = [wpc EXCEPT ![c] = IF @ = "none" THEN "idle" ELSE @]
  /\ UNCHANGED <<cur, cont>>

\* The worker of a chat is created with its first task.
Enqueue(c, t) ==
  /\ queue' = [queue EXCEPT ![c] = Append(@, t)]
  /\ wpc' = [wpc EXCEPT ![c] = IF @ = "none" THEN "idle" ELSE @]
  /\ UNCHANGED <<cur, cont>>

\* Commands that only answer, and whatever is refused or not for the bot.
DispatchNothing(u) ==
  /\ Kind(u) \in {"info", "ignored", "stranger"}
  /\ Advance(u, "dispatch")
  /\ UNCHANGED <<script, forgotten, workerVars, saved, dirVars, conv, histVars>>

\* A text, or a voice message with its transcript (which is echoed first).
DispatchText(u) ==
  /\ Kind(u) \in {"text", "voice"}
  /\ Advance(u, "dispatch")
  /\ Enqueue(Chat(u), Task(u, 0))
  /\ UNCHANGED <<script, forgotten, saved, dirVars, conv, histVars>>

\* Mutant: every file gets the name it was sent with.
UniqueIgnored(c) == 1

\* The first free name: all names go at once, in a /reset, so the used ones are 1 .. n.
Unique(c) == Len(files[c]) + 1

\* A photo or a document is downloaded into the directory of the chat.
DispatchFile(u) ==
  /\ Kind(u) = "file"
  /\ LET c == Chat(u)
         i == Unique(c) IN
       /\ files' = [files EXCEPT ![c] = IF i > Len(@) THEN Append(@, u) ELSE [@ EXCEPT ![i] = u]]
       /\ dir' = [dir EXCEPT ![c] = TRUE]
       /\ Enqueue(c, Task(u, i))
  /\ Advance(u, "dispatch")
  /\ UNCHANGED <<script, forgotten, saved, marker, conv, histVars>>

\* The download or the transcription fails and the user is told, or dispatch raises (the
\* echo of a transcript cannot be sent, the file not written): the prompt is dropped.
DispatchFails(u) ==
  /\ Kind(u) \in {"file", "voice"}
  /\ Fault
  /\ Advance(u, "dispatch")
  /\ fate' = [fate EXCEPT ![u] = "refused"]
  /\ UNCHANGED <<script, forgotten, workerVars, saved, dirVars, conv,
                 lost, raced, starts, lastRun, unclean, deaths>>

\* Mutant: only the attachments go.
ResetFilesOnly(u) ==
  /\ Kind(u) = "reset"
  /\ LET c == Chat(u) IN
       /\ files' = [files EXCEPT ![c] = <<>>]
       /\ raced' = IF TasksOf(c) # {} THEN raced \cup {u} ELSE raced
  /\ Advance(u, "rmdir")
  /\ UNCHANGED <<script, forgotten, workerVars, saved, dir, marker, conv,
                 fate, lost, starts, lastRun, unclean, faults, deaths>>

\* /reset: rmtree first removes what is in the directory, then the directory itself, which
\* fails (ignore_errors) when the worker put the marker back meanwhile.
ResetContents(u) ==
  /\ Kind(u) = "reset"
  /\ LET c == Chat(u) IN
       /\ marker' = [marker EXCEPT ![c] = FALSE]
       /\ files' = [files EXCEPT ![c] = <<>>]
       /\ raced' = IF TasksOf(c) # {} THEN raced \cup {u} ELSE raced
  /\ Advance(u, "rmdir")
  /\ UNCHANGED <<script, forgotten, workerVars, saved, dir, conv,
                 fate, lost, starts, lastRun, unclean, faults, deaths>>

ResetDirectory ==
  /\ ppc = "rmdir"
  /\ LET c == Chat(next - 1) IN
       dir' = [dir EXCEPT ![c] = marker[c]]
  /\ ppc' = IF next > last THEN "save" ELSE "dispatch"
  /\ UNCHANGED <<script, forgotten, offset, next, last, workerVars, saved,
                 marker, files, conv, histVars>>

Dispatch ==
  /\ ppc = "dispatch"
  /\ \/ DispatchNothing(next) \/ DispatchText(next) \/ DispatchFile(next)
     \/ DispatchFails(next) \/ ResetContents(next)

\* The offset is written once the whole batch is dispatched.
SaveOffset ==
  /\ ppc = "save"
  /\ saved' = offset
  /\ ppc' = "poll"
  /\ UNCHANGED <<script, forgotten, offset, next, last, workerVars, dirVars, conv, histVars>>

\* The write fails, which is only logged.
SaveFails ==
  /\ ppc = "save"
  /\ Fault
  /\ unclean' = unclean + 1
  /\ ppc' = "poll"
  /\ UNCHANGED <<script, forgotten, offset, next, last, workerVars, saved, dirVars, conv,
                 fate, lost, raced, starts, lastRun, deaths>>

-----------------------------------------------------------------------------
(* A worker *)

\* q.get(), and whether the chat has a conversation to continue.
Take(c) ==
  /\ wpc[c] = "idle" /\ queue[c] # <<>> /\ Head(queue[c]) # NoTask
  /\ queue' = [queue EXCEPT ![c] = Tail(@)]
  /\ cur' = [cur EXCEPT ![c] = Head(queue[c])]
  /\ cont' = [cont EXCEPT ![c] = marker[c]]
  /\ wpc' = [wpc EXCEPT ![c] = "start"]
  /\ UNCHANGED <<script, forgotten, pollerVars, saved, dirVars, conv, histVars>>

WorkerEnds(c) ==
  /\ wpc[c] = "idle" /\ queue[c] # <<>> /\ Head(queue[c]) = NoTask
  /\ queue' = [queue EXCEPT ![c] = Tail(@)]
  /\ wpc' = [wpc EXCEPT ![c] = "over"]
  /\ UNCHANGED <<script, forgotten, pollerVars, cur, cont, saved, dirVars, conv, histVars>>

\* Adapter.run: the directory is made if it is missing, and the agent starts in it.
RunStarts(c) ==
  /\ wpc[c] = "start"
  /\ wpc' = [wpc EXCEPT ![c] = "run"]
  /\ dir' = [dir EXCEPT ![c] = TRUE]
  /\ conv' = [conv EXCEPT ![c] = (IF cont[c] THEN @ ELSE {}) \cup {cur[c].u}]
  /\ starts' = [starts EXCEPT ![cur[c].u] = @ + 1]
  /\ lastRun' = [lastRun EXCEPT ![c] = cur[c].u]
  /\ UNCHANGED <<script, forgotten, pollerVars, queue, cur, cont, saved, marker, files,
                 fate, lost, raced, unclean, faults, deaths>>

Settle(c, f) ==
  /\ fate' = [fate EXCEPT ![cur[c].u] = f]
  /\ wpc' = [wpc EXCEPT ![c] = "idle"]
  /\ cur' = [cur EXCEPT ![c] = NoTask]

\* The agent fails or is killed at its timeout: the error is reported, the chat gets no marker.
RunFails(c) ==
  /\ wpc[c] = "run"
  /\ Fault
  /\ Settle(c, "failed")
  /\ UNCHANGED <<script, forgotten, pollerVars, queue, cont, saved, dirVars, conv,
                 lost, raced, starts, lastRun, unclean, deaths>>

\* Mutant: the marker is kept although the directory is gone.
RunSucceedsMarksAnyway(c) ==
  /\ wpc[c] = "run"
  /\ marker' = [marker EXCEPT ![c] = TRUE]
  /\ wpc' = [wpc EXCEPT ![c] = "reply"]
  /\ UNCHANGED <<script, forgotten, pollerVars, queue, cur, cont, saved, dir, files, conv, histVars>>

\* The agent succeeds and the marker is touched; without the directory (a /reset ran) that
\* fails and is ignored.
RunSucceeds(c) ==
  /\ wpc[c] = "run"
  /\ marker' = [marker EXCEPT ![c] = @ \/ dir[c]]
  /\ wpc' = [wpc EXCEPT ![c] = "reply"]
  /\ UNCHANGED <<script, forgotten, pollerVars, queue, cur, cont, saved, dir, files, conv, histVars>>

Reply(c) ==
  /\ wpc[c] = "reply"
  /\ Settle(c, "answered")
  /\ UNCHANGED <<script, forgotten, pollerVars, queue, cont, saved, dirVars, conv,
                 lost, raced, starts, lastRun, unclean, faults, deaths>>

\* Mutant: the exception ends the worker.
ReplyFailsForGood(c) ==
  /\ wpc[c] = "reply"
  /\ Fault
  /\ fate' = [fate EXCEPT ![cur[c].u] = "unsent"]
  /\ wpc' = [wpc EXCEPT ![c] = "over"]
  /\ cur' = [cur EXCEPT ![c] = NoTask]
  /\ UNCHANGED <<script, forgotten, pollerVars, queue, cont, saved, dirVars, conv,
                 lost, raced, starts, lastRun, unclean, deaths>>

\* The reply cannot be sent; the worker logs that and goes on.
ReplyFails(c) ==
  /\ wpc[c] = "reply"
  /\ Fault
  /\ Settle(c, "unsent")
  /\ UNCHANGED <<script, forgotten, pollerVars, queue, cont, saved, dirVars, conv,
                 lost, raced, starts, lastRun, unclean, deaths>>

-----------------------------------------------------------------------------
(* The end of the process *)

\* A signal sets _stop, which the poller looks at between two batches; _shutdown then queues
\* the end of the work behind the waiting tasks.
Shutdown ==
  /\ ppc = "poll"
  /\ deaths < MaxDeaths
  /\ ppc' = "joining"
  /\ queue' = [c \in Chats |-> IF wpc[c] = "none" THEN queue[c] ELSE Append(queue[c], NoTask)]
  /\ deaths' = deaths + 1
  /\ UNCHANGED <<script, forgotten, offset, next, last, wpc, cur, cont, saved, dirVars, conv,
                 fate, lost, raced, starts, lastRun, unclean, faults>>

MemoryGone ==
  /\ ppc' = "down"
  /\ offset' = 0 /\ next' = 1 /\ last' = 0
  /\ queue' = [c \in Chats |-> <<>>] /\ wpc' = [c \in Chats |-> "none"]
  /\ cur' = [c \in Chats |-> NoTask] /\ cont' = [c \in Chats |-> FALSE]
  /\ lastRun' = [c \in Chats |-> 0]
  /\ lost' = lost \cup UNION {TasksOf(c) : c \in Chats}
  /\ UNCHANGED <<script, forgotten, dirVars, conv, fate, raced, starts, faults>>

\* The workers are daemon threads, joined for five seconds each: who is not through by then
\* dies with the process.
Exit ==
  /\ ppc = "joining"
  /\ MemoryGone
  /\ UNCHANGED <<saved, unclean, deaths>>

\* The process is killed; a write of the offset that was under way leaves a torn file, which
\* reads as no offset.
Crash ==
  /\ ppc # "down"
  /\ deaths < MaxDeaths
  /\ MemoryGone
  /\ saved' \in IF ppc = "save" THEN {saved, 0} ELSE {saved}
  /\ deaths' = deaths + 1
  /\ unclean' = unclean + 1

\* The service manager starts the bridge again, which loads the offset.
Restart ==
  /\ ppc = "down"
  /\ ppc' = "poll"
  /\ offset' = saved
  /\ UNCHANGED <<script, forgotten, next, last, workerVars, saved, dirVars, conv, histVars>>

-----------------------------------------------------------------------------
Poller == Poll \/ Dispatch \/ ResetDirectory \/ SaveOffset \/ SaveFails \/ Exit \/ Restart
Worker(c) ==
  \/ Take(c) \/ WorkerEnds(c) \/ RunStarts(c) \/ RunSucceeds(c) \/ RunFails(c)
  \/ Reply(c) \/ ReplyFails(c)

Next ==
  \/ Poller
  \/ \E c \in Chats : Worker(c)
  \/ Shutdown \/ Crash

Spec == Init /\ [][Next]_vars

\* Telegram answers at last, join has a timeout, the service is restarted whenever it ends,
\* and a run of the agent is killed at its timeout.
FairSpec == Spec /\ WF_vars(Poller) /\ \A c \in Chats : WF_vars(Worker(c))
=============================================================================
