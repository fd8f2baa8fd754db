------------------------- MODULE OneShotOrderProofs -------------------------
(***************************************************************************)
(* What the workers of OneShotBridge.tla run, in which order and how often,*)
(* proved for any scripts of updates, failures, stops and crashes.         *)
(***************************************************************************)
EXTENDS OneShotProofs

-----------------------------------------------------------------------------
(* The inductive invariant *)

Items(q) == {q[i] : i \in 1 .. Len(q)}
Queued(c) == Items(queue[c])

\* Offsets only grow while the process runs, and the poller is past what Telegram forgot.
PlaceInv ==
  /\ ppc \in {"dispatch", "rmdir", "save"} =>
       offset <= next /\ forgotten < next /\ (offset = next \/ next = forgotten + 1)
  /\ IF ppc = "down" THEN offset = 0 ELSE saved <= offset

\* The tasks of a chat rise towards the end of its queue, and what was taken or run before is below
\* them.  The end of the work, which has no update, stands behind all tasks.
Rising(q) == \A i, j \in 1 .. Len(q) : i < j => q[j].u = 0 \/ q[i].u < q[j].u
Dispatched(u) == u = 0 \/ u < offset
Belongs(u, c) == u = 0 \/ Chat(u) = c
OrderInv ==
  \A c \in Chats :
    /\ Rising(queue[c])
    /\ \A t \in Pending(c) : Dispatched(t.u) /\ Belongs(t.u, c)
    /\ Dispatched(lastRun[c])
    /\ \A t \in Queued(c) : t.u # 0 => cur[c].u < t.u /\ lastRun[c] < t.u
    /\ wpc[c] = "start" => lastRun[c] < cur[c].u

\* A prompt may be run once more because it waits, or because Telegram will deliver it (again)
\* although nothing unclean happens from now on.
Waiting(u) ==
  \E c \in Chats : (wpc[c] = "start" /\ cur[c].u = u) \/ \E t \in Queued(c) : t.u = u
Owed(u) == u > forgotten /\ u >= (IF ppc \in {"poll", "joining", "down"} THEN saved ELSE next)
RerunInv ==
  \A u \in Updates :
    /\ starts[u] <= unclean + 1
    /\ Waiting(u) \/ Owed(u) => starts[u] <= unclean
    /\ Waiting(u) /\ Owed(u) => starts[u] < unclean

\* The attachment of a task that waits or runs is its own, or a /reset came in between.
Overtaken(t, c) == \E r \in raced : Chat(r) = c /\ r > t.u
OwnInv ==
  \A c \in Chats : \A t \in Pending(c) :
    t.u # 0 /\ t.slot # 0 =>
      (t.slot \in DOMAIN files[c] /\ files[c][t.slot] = t.u) \/ Overtaken(t, c)

\* Resets the bridge has handled: behind any number it may ask Telegram with.
Handled(r, c) ==
  /\ Kind(r) = "reset" /\ Chat(r) = c
  /\ r <= forgotten \/ r < offset \/ r < saved \/ r < next
\* Whatever is resumed, or may be resumed, was not separated by a reset.
Unbroken(w, c) == \A r \in Updates : w < r /\ Handled(r, c) => r \in raced
ResetInv ==
  \A c \in Chats :
    /\ \A t \in Pending(c) : t.u # 0 => Unbroken(t.u, c)
    /\ marker[c] \/ (wpc[c] = "start" /\ cont[c]) \/ wpc[c] = "run" => \A w \in conv[c] : Unbroken(w, c)

-----------------------------------------------------------------------------
(* Queues *)

LEMMA ItemsAppend ==
  ASSUME NEW S, NEW q \in Seq(S), NEW x \in S
  PROVE  /\ Items(Append(q, x)) = Items(q) \cup {x}
         /\ Rising(q) /\ (x.u = 0 \/ \A t \in Items(q) : t.u < x.u) => Rising(Append(q, x))
<1> DEFINE r == Append(q, x)
<1>1. Len(q) \in Nat /\ Len(r) = Len(q) + 1 /\ r[Len(q) + 1] = x
      /\ \A i \in 1 .. Len(q) : r[i] = q[i]
  BY AppendProperties, LenProperties
<1>2. \A i : i \in 1 .. Len(r) <=> i \in 1 .. Len(q) \/ i = Len(q) + 1
  BY <1>1
<1>3. \A i, j \in 1 .. Len(r) : i < j => i \in 1 .. Len(q) /\ (j \in 1 .. Len(q) \/ j = Len(q) + 1)
  BY <1>1
<1> HIDE DEF r
<1>4. Items(r) = Items(q) \cup {x}
  BY <1>1, <1>2 DEF Items
<1>5. ASSUME Rising(q), x.u = 0 \/ \A t \in Items(q) : t.u < x.u PROVE Rising(r)
  <2>1. ASSUME NEW i \in 1 .. Len(r), NEW j \in 1 .. Len(r), i < j
        PROVE  r[j].u = 0 \/ r[i].u < r[j].u
    <3>1. i \in 1 .. Len(q) /\ r[i] = q[i] /\ q[i] \in Items(q)
      BY <1>1, <1>3, <2>1 DEF Items
    <3>2. CASE j \in 1 .. Len(q)
      BY <1>1, <1>5, <2>1, <3>1, <3>2 DEF Rising
    <3>3. CASE j = Len(q) + 1
      BY <1>1, <1>5, <3>1, <3>3
    <3>4. QED
      BY <1>3, <2>1, <3>2, <3>3
  <2>2. QED
    BY <2>1 DEF Rising
<1>6. QED
  BY <1>4, <1>5 DEF r

LEMMA ItemsTail ==
  ASSUME NEW S, NEW q \in Seq(S), q # <<>>
  PROVE  /\ Items(q) = Items(Tail(q)) \cup {Head(q)}
         /\ Rising(q) => Rising(Tail(q)) /\ \A t \in Items(Tail(q)) : t.u = 0 \/ Head(q).u < t.u
<1> DEFINE r == Tail(q)
<1>1. /\ Len(q) \in Nat /\ Len(q) # 0 /\ Len(r) = Len(q) - 1 /\ Head(q) = q[1]
      /\ \A i \in 1 .. Len(r) : r[i] = q[i + 1]
  BY HeadTailProperties, LenProperties, EmptySeq
<1>2. /\ \A i \in 1 .. Len(r) : i + 1 \in 1 .. Len(q) /\ 1 < i + 1
      /\ 1 \in 1 .. Len(q)
      /\ \A i \in 1 .. Len(q) : i = 1 \/ (i - 1 \in 1 .. Len(r) /\ (i - 1) + 1 = i)
      /\ \A i, j \in 1 .. Len(r) : i < j => i + 1 < j + 1
  BY <1>1
<1> HIDE DEF r
<1>3. \A i \in 1 .. Len(q) : i = 1 \/ \E k \in 1 .. Len(r) : r[k] = q[i]
  BY <1>1, <1>2
<1>4. Items(q) = Items(r) \cup {Head(q)}
  <2>1. ASSUME NEW i \in 1 .. Len(q) PROVE q[i] \in Items(r) \cup {Head(q)}
    <3>1. CASE i = 1
      BY <1>1, <3>1
    <3>2. CASE i # 1
      BY <1>3, <3>2 DEF Items
    <3>3. QED
      BY <3>1, <3>2
  <2>2. ASSUME NEW i \in 1 .. Len(r) PROVE r[i] \in Items(q)
    BY <1>1, <1>2 DEF Items
  <2>3. Head(q) \in Items(q)
    BY <1>1, <1>2 DEF Items
  <2>4. QED
    BY <2>1, <2>2, <2>3 DEF Items
<1>5. ASSUME Rising(q) PROVE Rising(r) /\ \A t \in Items(r) : t.u = 0 \/ Head(q).u < t.u
  <2>1. ASSUME NEW i \in 1 .. Len(r), NEW j \in 1 .. Len(r), i < j
        PROVE  r[j].u = 0 \/ r[i].u < r[j].u
    <3>1. i + 1 \in 1 .. Len(q) /\ j + 1 \in 1 .. Len(q) /\ i + 1 < j + 1
      BY <1>2, <2>1
    <3>2. r[i] = q[i + 1] /\ r[j] = q[j + 1]
      BY <1>1
    <3>3. QED
      BY <1>5, <3>1, <3>2 DEF Rising
  <2>2. ASSUME NEW i \in 1 .. Len(r) PROVE r[i].u = 0 \/ q[1].u < r[i].u
    <3>1. i + 1 \in 1 .. Len(q) /\ 1 < i + 1 /\ 1 \in 1 .. Len(q) /\ r[i] = q[i + 1]
      BY <1>1, <1>2
    <3>2. QED
      BY <1>5, <3>1 DEF Rising
  <2>3. QED
    BY <1>1, <2>1, <2>2 DEF Rising, Items
<1>6. QED
  BY <1>4, <1>5 DEF r

LEMMA Numbers ==
  ASSUME TypeInv
  PROVE  /\ Len(script) \in Nat /\ offset \in Nat /\ saved \in Nat /\ forgotten \in Nat /\ next \in Nat
         /\ \A u \in Updates : u \in Nat /\ u # 0 /\ Chat(u) \in Chats
         /\ unclean \in Nat /\ \A u \in Updates : starts[u] \in Nat
         /\ raced \subseteq Updates
<1>1. Len(script) \in Nat /\ \A u \in Updates : u \in 1 .. Len(script) /\ Chat(u) \in Chats
  BY ScriptFacts DEF TypeInv
<1>2. /\ offset \in 0 .. Len(script) + 1 /\ saved \in 0 .. Len(script) + 1
      /\ forgotten \in Updates \cup {0} /\ next \in 1 .. Len(script) + 1
  BY DEF TypeInv, TypeOK, PollerTypes
<1>3. unclean \in Nat /\ (\A u \in Updates : starts[u] \in Nat) /\ raced \subseteq Updates
  BY DEF TypeInv, TypeOK, HistoryTypes
<1>4. \A u \in 1 .. Len(script) : u \in Nat /\ u # 0
  BY <1>1
<1>5. \A n \in 0 .. Len(script) + 1 : n \in Nat
  BY <1>1
<1>6. \A n \in 1 .. Len(script) + 1 : n \in Nat
  BY <1>1
<1>7. QED
  BY <1>1, <1>2, <1>3, <1>4, <1>5, <1>6

LEMMA TaskFacts ==
  ASSUME TypeInv, NEW c \in Chats
  PROVE  /\ queue[c] \in Seq(RealTasks) /\ Pending(c) = Queued(c) \cup {cur[c]}
         /\ \A t \in Pending(c) : t.u \in Updates \cup {0} /\ t.u \in Nat
         /\ \A t \in RealTasks : t.u \in Updates \cup {0} /\ t.u \in Nat
         /\ lastRun[c] \in Nat
         /\ cur[c].u # 0 <=> wpc[c] \in {"start", "run", "reply"}
<1>1. queue[c] \in Seq(RealTasks) /\ cur[c] \in Tasks /\ lastRun[c] \in Updates \cup {0}
  BY DEF TypeInv, TypeOK, WorkerTypes, HistoryTypes
<1>2. \A t \in RealTasks : t.u \in Updates \cup {0}
  BY DEF RealTasks, NoTask, Task
<1>3. \A i \in 1 .. Len(queue[c]) : queue[c][i] \in RealTasks
  BY <1>1, ElementOfSeq
<1>4. Pending(c) = Queued(c) \cup {cur[c]}
  BY DEF Pending, Queued, Items
<1>5. \A t \in Pending(c) : t.u \in Updates \cup {0}
  BY <1>1, <1>2, <1>3, <1>4 DEF Queued, Items, Tasks
<1>6. \A u \in Updates \cup {0} : u \in Nat
  BY Numbers
<1>7. cur[c].u # 0 <=> wpc[c] \in {"start", "run", "reply"}
  BY DEF TypeInv, TypeOK, WorkerTypes
<1>8. QED
  BY <1>1, <1>2, <1>4, <1>5, <1>6, <1>7

LEMMA TasksSame ==
  ASSUME NEW c, queue'[c] = queue[c], cur'[c] = cur[c]
  PROVE  Queued(c)' = Queued(c) /\ Pending(c)' = Pending(c)
BY DEF Queued, Items, Pending

LEMMA ScriptSame ==
  ASSUME script' = script
  PROVE  /\ Updates' = Updates
         /\ \A u, c : Belongs(u, c)' = Belongs(u, c) /\ Chat(u)' = Chat(u) /\ Kind(u)' = Kind(u)
BY DEF Updates, Belongs, Chat, Kind

\* A task is put into the queue of a chat, behind the others.
LEMMA EnqueueEffect ==
  ASSUME TypeInv, NEW c \in Chats, NEW t \in RealTasks, Enqueue(c, t)
  PROVE  /\ cur' = cur /\ queue'[c] = Append(queue[c], t)
         /\ \A d \in Chats \ {c} : queue'[d] = queue[d] /\ Queued(d)' = Queued(d) /\ Pending(d)' = Pending(d)
         /\ Queued(c)' = Queued(c) \cup {t} /\ Pending(c)' = Pending(c) \cup {t}
         /\ \A d \in Chats : wpc'[d] \in {"start", "run"} \/ wpc[d] \in {"start", "run"} => wpc'[d] = wpc[d]
         /\ cont' = cont
<1>1. /\ queue' = [queue EXCEPT ![c] = Append(@, t)] /\ cur' = cur /\ cont' = cont
      /\ wpc' = [wpc EXCEPT ![c] = IF @ = "none" THEN "idle" ELSE @]
  BY DEF Enqueue
<1>2. queue'[c] = Append(queue[c], t) /\ \A d \in Chats \ {c} : queue'[d] = queue[d]
  BY <1>1 DEF TypeInv
<1>3. Queued(c)' = Queued(c) \cup {t}
  BY <1>2, TaskFacts, ItemsAppend DEF Queued
<1>4. Pending(c)' = Pending(c) \cup {t}
  <2>1. Pending(c)' = Queued(c)' \cup {cur'[c]}
    BY DEF Pending, Queued, Items
  <2>2. QED
    BY <1>1, <1>3, <2>1, TaskFacts
<1>5. \A d \in Chats \ {c} : Queued(d)' = Queued(d) /\ Pending(d)' = Pending(d)
  BY <1>1, <1>2, TasksSame
<1>6. \A d \in Chats : wpc'[d] \in {"start", "run"} \/ wpc[d] \in {"start", "run"} => wpc'[d] = wpc[d]
  BY <1>1 DEF TypeInv, TypeOK, WorkerTypes
<1>7. QED
  BY <1>1, <1>2, <1>3, <1>4, <1>5, <1>6

\* The head of the queue of a chat becomes the task of its worker, or ends it.
LEMMA TakeEffect ==
  ASSUME TypeInv, NEW c \in Chats, Take(c) \/ WorkerEnds(c)
  PROVE  /\ queue[c] # <<>> /\ queue'[c] = Tail(queue[c]) /\ cur[c].u = 0
         /\ Queued(c) = Queued(c)' \cup {Head(queue[c])}
         /\ cur'[c] = Head(queue[c]) \/ (Head(queue[c]).u = 0 /\ cur'[c] = cur[c])
         /\ Pending(c)' \subseteq Pending(c)
         /\ \A d \in Chats \ {c} : queue'[d] = queue[d] /\ cur'[d] = cur[d] /\ wpc'[d] = wpc[d]
                                   /\ cont'[d] = cont[d]
                                   /\ Queued(d)' = Queued(d) /\ Pending(d)' = Pending(d)
         /\ wpc'[c] \in {"start", "over"} /\ (wpc'[c] = "start" => cont'[c] = marker[c])
<1>1. /\ queue[c] # <<>> /\ queue'[c] = Tail(queue[c]) /\ wpc[c] = "idle"
      /\ \A d \in Chats \ {c} : queue'[d] = queue[d] /\ cur'[d] = cur[d] /\ wpc'[d] = wpc[d]
                                /\ cont'[d] = cont[d]
      /\ cur'[c] = Head(queue[c]) \/ (Head(queue[c]) = NoTask /\ cur'[c] = cur[c])
      /\ wpc'[c] \in {"start", "over"} /\ (wpc'[c] = "start" => cont'[c] = marker[c])
  BY DEF Take, WorkerEnds, TypeInv, TypeOK, WorkerTypes
<1>2. Queued(c) = Queued(c)' \cup {Head(queue[c])}
  BY <1>1, TaskFacts, ItemsTail DEF Queued
<1>3. Pending(c)' = Queued(c)' \cup {cur'[c]} /\ Pending(c) = Queued(c) \cup {cur[c]}
  BY DEF Pending, Queued, Items
<1>4. \A d \in Chats \ {c} : Queued(d)' = Queued(d) /\ Pending(d)' = Pending(d)
  BY <1>1, TasksSame
<1>5. cur[c].u = 0
  BY <1>1, TaskFacts
<1>6. NoTask.u = 0
  BY DEF NoTask, Task
<1>7. QED
  BY <1>1, <1>2, <1>3, <1>4, <1>5, <1>6

-----------------------------------------------------------------------------
(* The poller's place *)

LEMMA DispatchPlace ==
  ASSUME TypeInv, PlaceInv, Dispatch
  PROVE  /\ offset <= next /\ forgotten < next /\ saved <= offset /\ next \in Updates
         /\ offset' = next + 1 /\ next' = next + 1 /\ forgotten' = forgotten /\ saved' = saved
         /\ ppc = "dispatch" /\ ppc' \in {"dispatch", "rmdir", "save"} /\ unclean' = unclean
         /\ starts' = starts /\ script' = script /\ conv' = conv /\ lastRun' = lastRun
         /\ PlaceInv'
<1>1. /\ next' = next + 1 /\ forgotten' = forgotten /\ saved' = saved /\ ppc = "dispatch"
      /\ offset' = (IF offset > next + 1 THEN offset ELSE next + 1)
      /\ ppc' \in {"dispatch", "rmdir", "save"} /\ unclean' = unclean /\ starts' = starts
      /\ script' = script /\ conv' = conv /\ lastRun' = lastRun
  BY DEF Dispatch, DispatchNothing, DispatchText, DispatchFile, DispatchFails, ResetContents,
         Advance, Larger, histVars
<1>2. offset <= next /\ forgotten < next /\ saved <= offset
  BY <1>1 DEF PlaceInv
<1>3. next \in Updates
  BY <1>1 DEF TypeInv, TypeOK, PollerTypes
<1>4. offset' = next + 1
  BY <1>1, <1>2, Numbers
<1>5. forgotten < next + 1 /\ saved <= next + 1
  BY <1>2, Numbers
<1>6. PlaceInv'
  BY <1>1, <1>4, <1>5, Numbers DEF PlaceInv
<1>7. QED
  BY <1>1, <1>2, <1>3, <1>4, <1>6

\* The poller enqueues at most one task, for the update it dispatches.
LEMMA DispatchQueues ==
  ASSUME TypeInv, Dispatch, next \in Updates
  PROVE  \/ UNCHANGED <<queue, cur, wpc, cont>>
         \/ \E t \in RealTasks : t.u = next /\ Enqueue(Chat(next), t)
<1>1. Chat(next) \in Chats
  BY Numbers
<1>2. CASE DispatchNothing(next) \/ ResetContents(next) \/ DispatchFails(next)
  BY <1>2 DEF DispatchNothing, ResetContents, DispatchFails, workerVars
<1>3. CASE DispatchText(next)
  BY <1>3 DEF DispatchText, Task, RealTasks
<1>4. CASE DispatchFile(next)
  <2>1. Unique(Chat(next)) \in Nat
    BY <1>1, LenProperties DEF Unique, TypeInv, TypeOK, DiskTypes
  <2>2. QED
    BY <1>4, <2>1 DEF DispatchFile, Task, RealTasks
<1>5. QED
  BY <1>2, <1>3, <1>4 DEF Dispatch

LEMMA PollPlace ==
  ASSUME TypeInv, PlaceInv, Poll
  PROVE  /\ offset' = offset /\ saved' = saved /\ forgotten <= forgotten' /\ forgotten' \in Nat
         /\ \A n \in Nat : n <= forgotten' => n <= forgotten \/ n < offset
         /\ next' = forgotten' + 1 /\ offset <= next' /\ ppc = "poll" /\ ppc' \in {"dispatch", "save"}
         /\ UNCHANGED <<script, workerVars, dirVars, conv, histVars>>
         /\ PlaceInv'
<1>1. /\ offset' = offset /\ saved' = saved /\ next' = forgotten' + 1 /\ ppc = "poll"
      /\ ppc' \in {"dispatch", "save"}
      /\ forgotten' = (IF forgotten > offset - 1 THEN forgotten ELSE offset - 1)
      /\ UNCHANGED <<script, workerVars, dirVars, conv, histVars>>
  BY DEF Poll, Larger
<1> DEFINE f == IF forgotten > offset - 1 THEN forgotten ELSE offset - 1
<1>2. /\ forgotten <= f /\ f \in Nat /\ offset <= f + 1 /\ f < f + 1
      /\ \A n \in Nat : n <= f => n <= forgotten \/ n < offset
  BY Numbers
<1>3. forgotten' = f
  BY <1>1
<1> HIDE DEF f
<1>4. saved <= offset
  BY <1>1 DEF PlaceInv
<1>5. PlaceInv'
  BY <1>1, <1>2, <1>3, <1>4 DEF PlaceInv
<1>6. QED
  BY <1>1, <1>2, <1>3, <1>5

LEMMA WorkerPlace ==
  ASSUME NEW c \in Chats, Worker(c)
  PROVE  UNCHANGED <<script, forgotten, ppc, offset, next, saved, raced, unclean>>
BY DEF Worker, Take, WorkerEnds, RunStarts, RunSucceeds, RunFails, Reply, ReplyFails, pollerVars, histVars

LEMMA EndPlace ==
  ASSUME TypeInv, PlaceInv, Exit \/ Crash
  PROVE  /\ ppc' = "down" /\ offset' = 0 /\ next' = 1 /\ saved' \in {saved, 0}
         /\ UNCHANGED <<script, forgotten, marker, files, conv, raced, starts>>
         /\ \A c \in Chats : /\ queue'[c] = <<>> /\ cur'[c] = NoTask /\ wpc'[c] = "none" /\ lastRun'[c] = 0
                             /\ Queued(c)' = {} /\ Pending(c)' = {NoTask}
         /\ PlaceInv'
<1>1. MemoryGone /\ saved' \in {saved, 0}
  BY DEF Exit, Crash
<1>2. /\ ppc' = "down" /\ offset' = 0 /\ next' = 1
      /\ UNCHANGED <<script, forgotten, marker, files, conv, raced, starts>>
      /\ \A c \in Chats : queue'[c] = <<>> /\ cur'[c] = NoTask /\ wpc'[c] = "none" /\ lastRun'[c] = 0
  BY <1>1 DEF MemoryGone, dirVars
<1>3. \A c \in Chats : Queued(c)' = {}
  <2>1. Len(<<>>) = 0
    BY EmptySeq
  <2>2. Items(<<>>) = {}
    BY <2>1 DEF Items
  <2>3. QED
    BY <1>2, <2>2 DEF Queued
<1>4. \A c \in Chats : Pending(c)' = Queued(c)' \cup {cur'[c]}
  BY DEF Pending, Queued, Items
<1>5. QED
  BY <1>1, <1>2, <1>3, <1>4 DEF PlaceInv

\* Nothing the poller does apart from a dispatch and a call of Telegram changes what is known.
LEMMA FilePlace ==
  ASSUME TypeInv, PlaceInv, ResetDirectory \/ SaveOffset \/ SaveFails \/ Restart \/ Shutdown \/ UNCHANGED vars
  PROVE  /\ script' = script /\ forgotten' = forgotten /\ next' = next /\ offset <= offset'
         /\ offset' \in {offset, saved} /\ saved' \in {saved, offset}
         /\ UNCHANGED <<wpc, cur, cont, marker, files, conv, raced, starts, lastRun>>
         /\ queue' = queue \/ Shutdown
         /\ PlaceInv'
<1>1. CASE ResetDirectory \/ SaveOffset \/ SaveFails \/ Shutdown
  <2>1. /\ UNCHANGED <<script, forgotten, next, offset, wpc, cur, cont, marker, files, conv, raced, starts, lastRun>>
        /\ queue' = queue \/ Shutdown
        /\ saved' \in {saved, offset} /\ ppc' # "down" /\ ppc # "down"
        /\ ppc' \in {"dispatch", "rmdir", "save"} => ppc \in {"dispatch", "rmdir", "save"} /\ saved' = saved
    BY <1>1 DEF ResetDirectory, SaveOffset, SaveFails, Shutdown, workerVars, dirVars, histVars
  <2>2. offset <= offset
    BY Numbers
  <2>3. QED
    BY <2>1, <2>2 DEF PlaceInv
<1>2. CASE Restart
  <2>1. /\ UNCHANGED <<script, forgotten, next, saved, wpc, cur, cont, marker, files, conv, raced, starts, lastRun, queue>>
        /\ offset' = saved /\ ppc' = "poll" /\ ppc = "down"
    BY <1>2 DEF Restart, workerVars, dirVars, histVars
  <2>2. offset = 0 /\ offset <= saved /\ saved <= saved
    BY <2>1, Numbers DEF PlaceInv
  <2>3. QED
    BY <2>1, <2>2 DEF PlaceInv
<1>3. CASE UNCHANGED vars
  <2>1. /\ UNCHANGED <<script, forgotten, next, offset, ppc, saved, wpc, cur, cont, marker, files, conv, raced, starts,
                       lastRun, queue>>
    BY <1>3 DEF vars, pollerVars, workerVars, dirVars, histVars
  <2>2. offset <= offset
    BY Numbers
  <2>3. QED
    BY <2>1, <2>2 DEF PlaceInv
<1>4. QED
  BY <1>1, <1>2, <1>3

\* The end of the work is queued behind the tasks.
LEMMA ShutdownEffect ==
  ASSUME TypeInv, Shutdown, NEW c \in Chats
  PROVE  /\ queue'[c] = queue[c] \/ queue'[c] = Append(queue[c], NoTask)
         /\ Queued(c)' = Queued(c) \/ Queued(c)' = Queued(c) \cup {NoTask}
         /\ Pending(c)' = Pending(c) \/ Pending(c)' = Pending(c) \cup {NoTask}
<1>1. /\ queue'[c] = queue[c] \/ queue'[c] = Append(queue[c], NoTask)
      /\ cur'[c] = cur[c]
  BY DEF Shutdown
<1>2. NoTask \in RealTasks
  BY DEF RealTasks
<1>3. Queued(c)' = Queued(c) \/ Queued(c)' = Queued(c) \cup {NoTask}
  <2>1. queue[c] \in Seq(RealTasks)
    BY TaskFacts
  <2>2. Items(Append(queue[c], NoTask)) = Items(queue[c]) \cup {NoTask}
    BY <1>2, <2>1, ItemsAppend
  <2>3. QED
    BY <1>1, <2>2 DEF Queued
<1>4. Pending(c)' = Queued(c)' \cup {cur'[c]} /\ Pending(c) = Queued(c) \cup {cur[c]}
  BY DEF Pending, Queued, Items
<1>5. QED
  BY <1>1, <1>3, <1>4

\* The worker begins, finishes or reports a run: its queue stays.
LEMMA RunEffect ==
  ASSUME TypeInv, NEW c \in Chats, Worker(c), ~Take(c), ~WorkerEnds(c)
  PROVE  /\ \A d \in Chats : queue'[d] = queue[d] /\ Queued(d)' = Queued(d) /\ cont'[d] = cont[d] /\ files' = files
         /\ \A d \in Chats \ {c} : /\ cur'[d] = cur[d] /\ wpc'[d] = wpc[d] /\ Pending(d)' = Pending(d)
                                   /\ marker'[d] = marker[d] /\ conv'[d] = conv[d] /\ lastRun'[d] = lastRun[d]
         /\ \/ RunStarts(c) /\ cur'[c] = cur[c] /\ wpc[c] = "start" /\ wpc'[c] = "run" /\ marker'[c] = marker[c]
               /\ lastRun'[c] = cur[c].u /\ Pending(c)' = Pending(c)
               /\ conv'[c] = (IF cont[c] THEN conv[c] ELSE {}) \cup {cur[c].u}
            \/ RunSucceeds(c) /\ cur'[c] = cur[c] /\ wpc[c] = "run" /\ wpc'[c] = "reply"
               /\ conv'[c] = conv[c] /\ lastRun' = lastRun /\ Pending(c)' = Pending(c) /\ starts' = starts
            \/ cur'[c] = NoTask /\ wpc'[c] = "idle" /\ marker'[c] = marker[c] /\ lastRun' = lastRun
               /\ conv'[c] = conv[c] /\ Pending(c)' = Queued(c) \cup {NoTask} /\ starts' = starts
<1>1. queue' = queue /\ cont' = cont /\ files' = files
  BY DEF Worker, RunStarts, RunSucceeds, RunFails, Reply, ReplyFails, dirVars
<1>2. \A d \in Chats : Queued(d)' = Queued(d)
  BY <1>1 DEF Queued
<1>3. \A d \in Chats : Pending(d)' = Queued(d)' \cup {cur'[d]} /\ Pending(d) = Queued(d) \cup {cur[d]}
  BY DEF Pending, Queued, Items
<1>4. CASE RunStarts(c)
  <2>1. /\ cur' = cur /\ wpc' = [wpc EXCEPT ![c] = "run"] /\ marker' = marker /\ wpc[c] = "start"
        /\ lastRun' = [lastRun EXCEPT ![c] = cur[c].u]
        /\ conv' = [conv EXCEPT ![c] = (IF cont[c] THEN @ ELSE {}) \cup {cur[c].u}]
    BY <1>4 DEF RunStarts
  <2>2. /\ \A d \in Chats \ {c} : wpc'[d] = wpc[d] /\ conv'[d] = conv[d] /\ lastRun'[d] = lastRun[d]
        /\ wpc'[c] = "run" /\ lastRun'[c] = cur[c].u
        /\ conv'[c] = (IF cont[c] THEN conv[c] ELSE {}) \cup {cur[c].u}
    BY <2>1 DEF TypeInv, TypeOK, WorkerTypes, DiskTypes, HistoryTypes
  <2>3. QED
    BY <1>1, <1>2, <1>3, <1>4, <2>1, <2>2
<1>5. CASE RunSucceeds(c)
  <2>1. /\ cur' = cur /\ wpc' = [wpc EXCEPT ![c] = "reply"] /\ wpc[c] = "run" /\ conv' = conv /\ lastRun' = lastRun
        /\ marker' = [marker EXCEPT ![c] = @ \/ dir[c]] /\ starts' = starts
    BY <1>5 DEF RunSucceeds, histVars
  <2>2. /\ \A d \in Chats \ {c} : wpc'[d] = wpc[d] /\ marker'[d] = marker[d]
        /\ wpc'[c] = "reply"
    BY <2>1 DEF TypeInv, TypeOK, WorkerTypes, DiskTypes
  <2>3. QED
    BY <1>1, <1>2, <1>3, <1>5, <2>1, <2>2
<1>6. CASE RunFails(c) \/ Reply(c) \/ ReplyFails(c)
  <2>1. /\ cur' = [cur EXCEPT ![c] = NoTask] /\ wpc' = [wpc EXCEPT ![c] = "idle"] /\ conv' = conv /\ marker' = marker
        /\ lastRun' = lastRun /\ starts' = starts
    BY <1>6 DEF RunFails, Reply, ReplyFails, Settle, dirVars
  <2>2. /\ \A d \in Chats \ {c} : wpc'[d] = wpc[d] /\ cur'[d] = cur[d]
        /\ wpc'[c] = "idle" /\ cur'[c] = NoTask
    BY <2>1 DEF TypeInv, TypeOK, WorkerTypes
  <2>3. QED
    BY <1>1, <1>2, <1>3, <2>1, <2>2
<1>7. QED
  BY <1>4, <1>5, <1>6 DEF Worker

-----------------------------------------------------------------------------
(* The order of the tasks *)

\* The tasks of a chat and the number of the next one, as OrderInv wants them.
OrderAt(c) ==
  /\ Rising(queue[c])
  /\ \A t \in Pending(c) : Dispatched(t.u) /\ Belongs(t.u, c)
  /\ Dispatched(lastRun[c])
  /\ \A t \in Queued(c) : t.u # 0 => cur[c].u < t.u /\ lastRun[c] < t.u
  /\ wpc[c] = "start" => lastRun[c] < cur[c].u

\* A worker that does not move keeps its order while the offset grows.
LEMMA OrderKept ==
  ASSUME TypeInv, NEW c \in Chats, OrderAt(c), script' = script, offset <= offset', offset' \in Nat,
         queue'[c] = queue[c], cur'[c] = cur[c], lastRun'[c] = lastRun[c],
         wpc'[c] = "start" => wpc[c] = "start"
  PROVE  OrderAt(c)'
<1>1. Queued(c)' = Queued(c) /\ Pending(c)' = Pending(c)
  BY TasksSame
<1>2. \A n \in Nat : n < offset => n < offset'
  BY Numbers
<1>3. \A n \in Nat : Dispatched(n) => Dispatched(n)'
  BY <1>2 DEF Dispatched
<1>4. /\ \A t \in Pending(c) : t.u \in Nat
      /\ lastRun[c] \in Nat
  BY TaskFacts
<1>5. \A t \in Pending(c) : Dispatched(t.u)' /\ Belongs(t.u, c)'
  BY <1>3, <1>4, ScriptSame DEF OrderAt
<1>6. Dispatched(lastRun[c])'
  BY <1>2, <1>4 DEF OrderAt, Dispatched
<1>7. QED
  BY <1>1, <1>5, <1>6 DEF OrderAt

LEMMA OrderEnqueue ==
  ASSUME TypeInv, OrderInv, PlaceInv, Dispatch, offset' \in Nat,
         NEW t \in RealTasks, t.u = next, Enqueue(Chat(next), t), NEW d \in Chats
  PROVE  OrderAt(d)'
<1>1. /\ offset <= next /\ offset' = next + 1 /\ next \in Updates /\ script' = script /\ lastRun' = lastRun
  BY DispatchPlace
<1>a. next \in Nat /\ next # 0 /\ Chat(next) \in Chats /\ offset <= offset' /\ offset \in Nat
      /\ \A n \in Nat : n = 0 \/ n < offset => n < next
  BY <1>1, Numbers
<1>b. OrderAt(d)
  BY DEF OrderInv, OrderAt
<1>2. CASE d # Chat(next)
  <2>1. queue'[d] = queue[d] /\ cur' = cur /\ (wpc'[d] = "start" => wpc[d] = "start")
    BY <1>2, <1>a, EnqueueEffect
  <2>2. QED
    BY <1>1, <1>a, <1>b, <2>1, OrderKept
<1>3. CASE d = Chat(next)
  <2>1. /\ cur' = cur /\ queue'[d] = Append(queue[d], t)
        /\ Queued(d)' = Queued(d) \cup {t} /\ Pending(d)' = Pending(d) \cup {t}
        /\ wpc'[d] = "start" => wpc[d] = "start"
    BY <1>3, <1>a, EnqueueEffect
  <2>2. /\ \A s \in Pending(d) : s.u \in Nat
        /\ lastRun[d] \in Nat /\ queue[d] \in Seq(RealTasks) /\ Pending(d) = Queued(d) \cup {cur[d]}
    BY TaskFacts
  <2>3. \A s \in Pending(d) : s.u < next
    BY <1>a, <1>b, <2>2 DEF OrderAt, Dispatched
  <2>4. lastRun[d] < next
    BY <1>a, <1>b, <2>2 DEF OrderAt, Dispatched
  <2>5. Rising(Append(queue[d], t))
    <3>1. \A s \in Items(queue[d]) : s.u < t.u
      BY <2>2, <2>3 DEF Queued
    <3>2. QED
      BY <1>b, <2>2, <3>1, ItemsAppend DEF OrderAt
  <2>6. Rising(queue[d])'
    BY <2>1, <2>5 DEF Rising
  <2>7. \A n \in Nat : n <= next => n < offset'
    BY <1>1, <1>a
  <2>8. \A s \in Pending(d)' : Dispatched(s.u)' /\ Belongs(s.u, d)'
    <3>1. \A s \in Pending(d) : Dispatched(s.u)' /\ Belongs(s.u, d)'
      <4>1. \A s \in Pending(d) : s.u < offset'
        <5>1. \A n \in Nat : n < next => n < offset'
          BY <1>1, <1>a
        <5>2. QED
          BY <2>2, <2>3, <5>1
      <4>2. QED
        BY <1>1, <1>b, <4>1, ScriptSame DEF OrderAt, Dispatched
    <3>2. next < offset' /\ Chat(next) = d
      BY <1>1, <1>3, <1>a
    <3>3. Dispatched(t.u)' /\ Belongs(t.u, d)'
      <4>1. \A u : u < offset' /\ Chat(u) = d => Dispatched(u)' /\ Belongs(u, d)'
        BY <1>1, ScriptSame DEF Dispatched, Belongs
      <4>2. PICK u : u = next
        OBVIOUS
      <4>3. Dispatched(u)' /\ Belongs(u, d)'
        BY <3>2, <4>1, <4>2
      <4>4. QED
        BY <4>2, <4>3
    <3>4. QED
      BY <2>1, <3>1, <3>3
  <2>9. Dispatched(lastRun[d])'
    <3>1. lastRun[d] < offset'
      BY <1>1, <1>a, <2>2, <2>4
    <3>2. QED
      BY <1>1, <3>1 DEF Dispatched
  <2>10. \A s \in Queued(d)' : s.u # 0 => cur'[d].u < s.u /\ lastRun'[d] < s.u
    BY <1>1, <1>b, <2>1, <2>2, <2>3, <2>4 DEF OrderAt
  <2>11. wpc'[d] = "start" => lastRun'[d] < cur'[d].u
    BY <1>1, <1>b, <2>1 DEF OrderAt
  <2>12. QED
    BY <2>6, <2>8, <2>9, <2>10, <2>11 DEF OrderAt
<1>4. QED
  BY <1>2, <1>3

\* A task is taken: it comes before those that stay.
LEMMA OrderTake ==
  ASSUME TypeInv, OrderInv, NEW c \in Chats, Take(c) \/ WorkerEnds(c),
         script' = script, offset' = offset, lastRun' = lastRun
  PROVE  OrderAt(c)'
<1>1. /\ queue[c] # <<>> /\ queue'[c] = Tail(queue[c]) /\ cur[c].u = 0
      /\ Queued(c) = Queued(c)' \cup {Head(queue[c])}
      /\ cur'[c] = Head(queue[c]) \/ (Head(queue[c]).u = 0 /\ cur'[c] = cur[c])
      /\ Pending(c)' \subseteq Pending(c)
  BY TakeEffect
<1>2. OrderAt(c)
  BY DEF OrderInv, OrderAt
<1>3. queue[c] \in Seq(RealTasks) /\ lastRun[c] \in Nat /\ \A t \in Pending(c) : t.u \in Nat
  BY TaskFacts
<1>4. Rising(Tail(queue[c])) /\ \A t \in Items(Tail(queue[c])) : t.u = 0 \/ Head(queue[c]).u < t.u
  BY <1>1, <1>2, <1>3, ItemsTail DEF OrderAt
<1>5. Rising(queue[c])' /\ \A t \in Queued(c)' : t.u # 0 => Head(queue[c]).u < t.u
  BY <1>1, <1>4 DEF Rising, Queued
<1>6. \A t \in Queued(c)' : t.u # 0 => cur'[c].u < t.u /\ lastRun[c] < t.u
  BY <1>1, <1>2, <1>5 DEF OrderAt
<1>7. \A t \in Pending(c)' : Dispatched(t.u)' /\ Belongs(t.u, c)'
  BY <1>1, <1>2, ScriptSame DEF OrderAt, Dispatched
<1>8. wpc'[c] = "start" => lastRun[c] < cur'[c].u
  <2>1. CASE Take(c)
    <3>1. cur'[c] = Head(queue[c]) /\ Head(queue[c]) # NoTask
      BY <2>1 DEF Take, TypeInv, TypeOK, WorkerTypes
    <3>2. Head(queue[c]) \in RealTasks
      BY <1>1, <1>3, HeadTailProperties
    <3>3. Head(queue[c]).u # 0
      BY <3>1, <3>2, Numbers DEF RealTasks
    <3>4. QED
      BY <1>1, <1>2, <3>1, <3>3 DEF OrderAt
  <2>2. CASE WorkerEnds(c)
    BY <2>2 DEF WorkerEnds, TypeInv, TypeOK, WorkerTypes
  <2>3. QED
    BY <2>1, <2>2
<1>9. QED
  BY <1>2, <1>5, <1>6, <1>7, <1>8 DEF OrderAt, Dispatched

LEMMA OrderRun ==
  ASSUME TypeInv, OrderInv, NEW c \in Chats, Worker(c), ~Take(c), ~WorkerEnds(c)
  PROVE  OrderAt(c)'
<1>1. script' = script /\ offset' = offset
  BY WorkerPlace
<1>2. /\ queue'[c] = queue[c] /\ Queued(c)' = Queued(c)
      /\ \/ cur'[c] = cur[c] /\ Pending(c)' = Pending(c) /\ lastRun'[c] \in {lastRun[c], cur[c].u}
         \/ cur'[c] = NoTask /\ Pending(c)' = Queued(c) \cup {NoTask} /\ lastRun'[c] = lastRun[c]
      /\ wpc'[c] # "start"
  BY RunEffect
<1>3. OrderAt(c) /\ NoTask.u = 0
  BY DEF OrderInv, OrderAt, NoTask, Task
<1>4. /\ \A t \in Pending(c) : t.u \in Nat
      /\ Pending(c) = Queued(c) \cup {cur[c]} /\ lastRun[c] \in Nat
  BY TaskFacts
<1>5. \A t \in Pending(c)' : Dispatched(t.u)' /\ Belongs(t.u, c)'
  BY <1>1, <1>2, <1>3, <1>4, ScriptSame DEF OrderAt, Dispatched, Belongs
<1>6. Dispatched(lastRun[c])'
  BY <1>1, <1>2, <1>3, <1>4 DEF OrderAt, Dispatched
<1>7. \A t \in Queued(c)' : t.u # 0 => cur'[c].u < t.u /\ lastRun'[c] < t.u
  <2>1. \A n \in Nat : n # 0 => 0 < n
    OBVIOUS
  <2>2. QED
    BY <1>2, <1>3, <1>4, <2>1 DEF OrderAt
<1>8. QED
  BY <1>2, <1>3, <1>5, <1>6, <1>7 DEF OrderAt, Rising

LEMMA OrderStep ==
  ASSUME TypeInv, PlaceInv, OrderInv, [Next]_vars, TypeInv'
  PROVE  OrderInv'
<1>0. /\ \A c \in Chats : OrderAt(c)
      /\ (\A c \in Chats : OrderAt(c)') => OrderInv'
  BY DEF OrderInv, OrderAt
<1>a. offset' \in Nat /\ offset \in Nat /\ script' = script
  BY Numbers, ScriptKept DEF TypeInv, TypeOK, PollerTypes
<1>1. CASE Poll
  <2>1. UNCHANGED <<offset, queue, cur, wpc, lastRun>> /\ offset <= offset
    BY <1>1, <1>a, PollPlace DEF workerVars, histVars
  <2>2. QED
    BY <1>0, <1>a, <2>1, OrderKept
<1>2. CASE Dispatch
  <2>1. lastRun' = lastRun /\ offset <= offset' /\ next \in Updates /\ Chat(next) \in Chats
    <3>1. \A n \in Nat : offset <= n => offset <= n + 1
      BY <1>a
    <3>2. QED
      BY <1>2, <3>1, DispatchPlace, Numbers
  <2>2. CASE UNCHANGED <<queue, cur, wpc>>
    BY <1>0, <1>a, <2>1, <2>2, OrderKept
  <2>3. ASSUME NEW t \in RealTasks, t.u = next, Enqueue(Chat(next), t) PROVE OrderInv'
    <3>1. \A d \in Chats : OrderAt(d)'
      BY <1>2, <1>a, <2>3, OrderEnqueue
    <3>2. QED
      BY <1>0, <3>1
  <2>4. UNCHANGED <<queue, cur, wpc>> \/ \E t \in RealTasks : t.u = next /\ Enqueue(Chat(next), t)
    BY <1>2, <2>1, DispatchQueues
  <2>5. QED
    BY <2>2, <2>3, <2>4
<1>3. CASE ResetDirectory \/ SaveOffset \/ SaveFails \/ Restart \/ UNCHANGED vars
  <2>1. UNCHANGED <<wpc, cur, lastRun>> /\ offset <= offset'
    BY <1>3, FilePlace
  <2>2. queue' = queue
    BY <1>3 DEF ResetDirectory, SaveOffset, SaveFails, Restart, vars, workerVars
  <2>3. QED
    BY <1>0, <1>a, <2>1, <2>2, OrderKept
<1>4. CASE Shutdown
  <2>1. UNCHANGED <<wpc, cur, lastRun, script, offset>>
    BY <1>4 DEF Shutdown
  <2>2. ASSUME NEW c \in Chats PROVE OrderAt(c)'
    <3>1. /\ queue'[c] = queue[c] \/ queue'[c] = Append(queue[c], NoTask)
          /\ Queued(c)' = Queued(c) \/ Queued(c)' = Queued(c) \cup {NoTask}
          /\ Pending(c)' = Pending(c) \/ Pending(c)' = Pending(c) \cup {NoTask}
      BY <1>4, ShutdownEffect
    <3>2. NoTask.u = 0 /\ NoTask \in RealTasks
      BY DEF NoTask, Task, RealTasks
    <3>3. Rising(Append(queue[c], NoTask))
      <4>1. queue[c] \in Seq(RealTasks) /\ Rising(queue[c])
        BY <1>0, TaskFacts DEF OrderAt
      <4>2. QED
        BY <3>2, <4>1, ItemsAppend
    <3>4. Rising(queue[c])'
      BY <1>0, <3>1, <3>3 DEF OrderAt, Rising
    <3>5. \A t \in Pending(c)' : Dispatched(t.u)' /\ Belongs(t.u, c)'
      BY <1>0, <2>1, <3>1, <3>2, ScriptSame DEF OrderAt, Dispatched, Belongs
    <3>6. QED
      BY <1>0, <2>1, <3>1, <3>2, <3>4, <3>5 DEF OrderAt, Dispatched
  <2>3. QED
    BY <1>0, <2>2
<1>5. CASE Exit \/ Crash
  <2>1. \A c \in Chats : /\ queue'[c] = <<>> /\ cur'[c] = NoTask /\ wpc'[c] = "none" /\ lastRun'[c] = 0
                         /\ Queued(c)' = {} /\ Pending(c)' = {NoTask}
    BY <1>5, EndPlace
  <2>2. Len(<<>>) = 0 /\ NoTask.u = 0
    BY EmptySeq DEF NoTask, Task
  <2>3. Rising(<<>>)
    BY <2>2 DEF Rising
  <2>4. \A c \in Chats : OrderAt(c)'
    BY <2>1, <2>2, <2>3 DEF OrderAt, Dispatched, Belongs, Rising
  <2>5. QED
    BY <1>0, <2>4
<1>6. ASSUME NEW c \in Chats, Worker(c) PROVE OrderInv'
  <2>1. script' = script /\ offset' = offset /\ offset <= offset
    BY <1>6, <1>a, WorkerPlace
  <2>2. CASE Take(c) \/ WorkerEnds(c)
    <3>1. lastRun' = lastRun
      BY <2>2 DEF Take, WorkerEnds, histVars
    <3>2. OrderAt(c)'
      BY <2>1, <2>2, <3>1, OrderTake
    <3>3. \A d \in Chats \ {c} : OrderAt(d)'
      BY <1>0, <1>a, <2>1, <2>2, <3>1, TakeEffect, OrderKept
    <3>4. QED
      BY <1>0, <3>2, <3>3
  <2>3. CASE ~Take(c) /\ ~WorkerEnds(c)
    <3>1. OrderAt(c)'
      BY <1>6, <2>3, OrderRun
    <3>2. \A d \in Chats \ {c} : OrderAt(d)'
      BY <1>0, <1>6, <1>a, <2>1, <2>3, RunEffect, OrderKept
    <3>3. QED
      BY <1>0, <3>1, <3>2
  <2>4. QED
    BY <2>2, <2>3
<1>7. QED
  BY <1>1, <1>2, <1>3, <1>4, <1>5, <1>6 DEF Next, Poller

LEMMA PlaceStep ==
  ASSUME TypeInv, PlaceInv, [Next]_vars
  PROVE  PlaceInv'
<1>1. ASSUME NEW c \in Chats, Worker(c) PROVE PlaceInv'
  BY <1>1, WorkerPlace DEF PlaceInv
<1>2. QED
  BY <1>1, PollPlace, DispatchPlace, FilePlace, EndPlace DEF Next, Poller

-----------------------------------------------------------------------------
(* How often a prompt is run *)

\* What RerunInv says of one prompt.
RerunAt(u) ==
  /\ starts[u] <= unclean + 1
  /\ Waiting(u) \/ Owed(u) => starts[u] <= unclean
  /\ Waiting(u) /\ Owed(u) => starts[u] < unclean

LEMMA RerunKept ==
  ASSUME TypeInv, NEW u \in Updates, RerunAt(u), starts' = starts, unclean' = unclean,
         Waiting(u)' => Waiting(u), Owed(u)' => Owed(u)
  PROVE  RerunAt(u)'
BY DEF RerunAt

\* A crash and a failing write of the offset allow one more run.
LEMMA RerunAllowed ==
  ASSUME TypeInv, NEW u \in Updates, RerunAt(u), starts' = starts, unclean' = unclean + 1,
         Waiting(u)' => Waiting(u)
  PROVE  RerunAt(u)'
<1>1. starts[u] \in Nat /\ unclean \in Nat
  BY Numbers
<1>2. starts[u] <= unclean + 1 /\ (Waiting(u) => starts[u] <= unclean)
  BY DEF RerunAt
<1>3. /\ starts[u] <= unclean + 1 + 1
      /\ starts[u] <= unclean => starts[u] < unclean + 1
  BY <1>1, <1>2
<1>4. QED
  BY <1>2, <1>3 DEF RerunAt

LEMMA WaitingSame ==
  ASSUME queue' = queue, cur' = cur, wpc' = wpc, NEW u
  PROVE  Waiting(u)' = Waiting(u)
BY DEF Waiting, Queued, Items

\* A prompt the poller puts into a queue was owed, and is owed no longer.
LEMMA RerunDispatch ==
  ASSUME TypeInv, PlaceInv, RerunInv, Dispatch, NEW u \in Updates
  PROVE  RerunAt(u)'
<1>1. /\ offset <= next /\ forgotten < next /\ saved <= offset /\ next \in Updates
      /\ next' = next + 1 /\ forgotten' = forgotten
      /\ ppc = "dispatch" /\ ppc' \in {"dispatch", "rmdir", "save"} /\ unclean' = unclean
      /\ starts' = starts
  BY DispatchPlace
<1>2. /\ next \in Nat /\ u \in Nat /\ Chat(next) \in Chats /\ unclean \in Nat /\ starts[u] \in Nat
      /\ u >= next + 1 => u >= next /\ u # next
      /\ next >= next
  BY <1>1, Numbers
<1>3. RerunAt(u)
  BY DEF RerunInv, RerunAt
<1>4. Owed(u)' => Owed(u) /\ u # next
  BY <1>1, <1>2 DEF Owed
<1>5. Owed(next)
  BY <1>1, <1>2 DEF Owed
<1>6. CASE Waiting(u)' => Waiting(u)
  BY <1>1, <1>3, <1>4, <1>6, RerunKept
<1>7. CASE u = next
  <2>1. starts[u] <= unclean /\ starts[u] <= unclean + 1 /\ ~Owed(u)'
    BY <1>2, <1>3, <1>4, <1>5, <1>7 DEF RerunAt
  <2>2. QED
    BY <1>1, <2>1 DEF RerunAt
<1>8. CASE u # next
  <2>1. CASE UNCHANGED <<queue, cur, wpc>>
    BY <1>6, <2>1, WaitingSame
  <2>2. ASSUME NEW t \in RealTasks, t.u = next, Enqueue(Chat(next), t)
        PROVE  Waiting(u)' => Waiting(u)
    <3>1. \A d \in Chats : /\ Queued(d)' = Queued(d) \/ Queued(d)' = Queued(d) \cup {t}
                           /\ cur' = cur /\ (wpc'[d] = "start" => wpc[d] = "start")
      BY <1>2, <2>2, EnqueueEffect
    <3>2. QED
      BY <1>8, <2>2, <3>1 DEF Waiting
  <2>3. UNCHANGED <<queue, cur, wpc>> \/ \E t \in RealTasks : t.u = next /\ Enqueue(Chat(next), t)
    BY <1>1, DispatchQueues
  <2>4. QED
    BY <1>6, <2>1, <2>2, <2>3
<1>9. QED
  BY <1>7, <1>8

\* The agent starts for a prompt: it waits no longer, in any chat.
LEMMA RerunStarts ==
  ASSUME TypeInv, OrderInv, RerunInv, NEW c \in Chats, Worker(c), RunStarts(c), NEW u \in Updates
  PROVE  RerunAt(u)'
<1>1. /\ wpc[c] = "start" /\ starts' = [starts EXCEPT ![cur[c].u] = @ + 1] /\ queue' = queue /\ cur' = cur
      /\ wpc' = [wpc EXCEPT ![c] = "run"] /\ unclean' = unclean
      /\ UNCHANGED <<forgotten, ppc, saved, next>>
  BY DEF RunStarts, pollerVars
<1>2. /\ wpc'[c] = "run" /\ \A d \in Chats : d # c => wpc'[d] = wpc[d]
      /\ \A d \in Chats : Queued(d)' = Queued(d)
  BY <1>1 DEF TypeInv, TypeOK, WorkerTypes, Queued, Items
<1>3. RerunAt(u)
  BY DEF RerunInv, RerunAt
<1>4. Owed(u)' = Owed(u)
  BY <1>1 DEF Owed
<1>5. Waiting(u)' => Waiting(u)
  BY <1>1, <1>2 DEF Waiting
<1>6. starts[u] \in Nat /\ unclean \in Nat /\ u \in Nat /\ u # 0
  BY Numbers
<1>7. CASE u = cur[c].u
  <2>1. Waiting(u)
    BY <1>1, <1>7 DEF Waiting
  <2>2. starts'[u] = starts[u] + 1
    BY <1>1, <1>7 DEF TypeInv, TypeOK, HistoryTypes
  <2>3. /\ Chat(u) = c
        /\ \A d \in Chats : cur[d] \in Pending(d) /\ Queued(d) \subseteq Pending(d)
        /\ \A d \in Chats : \A t \in Pending(d) : t.u = u => Chat(u) = d
        /\ \A t \in Queued(c) : t.u # u
    <3>1. \A d \in Chats : cur[d] \in Pending(d) /\ Queued(d) \subseteq Pending(d)
      BY TaskFacts
    <3>2. \A d \in Chats : \A t \in Pending(d) : t.u = u => Chat(u) = d
      BY <1>6 DEF OrderInv, Belongs
    <3>3. \A t \in Queued(c) : t.u = u => u < u
      BY <1>6, <1>7 DEF OrderInv
    <3>4. ~(u < u)
      BY <1>6
    <3>5. QED
      BY <1>7, <3>1, <3>2, <3>3, <3>4
  <2>4. ~Waiting(u)'
    <3>1. \A d \in Chats : ~(wpc'[d] = "start" /\ cur'[d].u = u)
      BY <1>1, <1>2, <2>3
    <3>2. \A d \in Chats : \A t \in Queued(d) : t.u # u
      BY <2>3
    <3>3. QED
      BY <1>2, <3>1, <3>2 DEF Waiting
  <2>5. starts[u] <= unclean /\ (Owed(u) => starts[u] < unclean)
    BY <1>3, <2>1 DEF RerunAt
  <2>6. starts[u] + 1 <= unclean + 1 /\ (Owed(u) => starts[u] + 1 <= unclean)
    BY <1>6, <2>5
  <2>7. QED
    BY <1>1, <1>4, <2>2, <2>4, <2>6 DEF RerunAt
<1>8. CASE u # cur[c].u
  <2>1. starts'[u] = starts[u]
    BY <1>1, <1>8 DEF TypeInv, TypeOK, HistoryTypes
  <2>2. QED
    BY <1>1, <1>3, <1>4, <1>5, <2>1 DEF RerunAt
<1>9. QED
  BY <1>7, <1>8

LEMMA RerunWorker ==
  ASSUME TypeInv, OrderInv, RerunInv, NEW c \in Chats, Worker(c), NEW u \in Updates
  PROVE  RerunAt(u)'
<1>1. RerunAt(u) /\ u # 0
  BY Numbers DEF RerunInv, RerunAt
<1>2. Owed(u)' = Owed(u) /\ unclean' = unclean
  BY WorkerPlace DEF Owed
<1>3. CASE Take(c) \/ WorkerEnds(c)
  <2>1. /\ Queued(c) = Queued(c)' \cup {Head(queue[c])}
        /\ cur'[c] = Head(queue[c]) \/ (Head(queue[c]).u = 0 /\ cur'[c] = cur[c])
        /\ \A d \in Chats \ {c} : cur'[d] = cur[d] /\ wpc'[d] = wpc[d] /\ Queued(d)' = Queued(d)
        /\ cur[c].u = 0
    BY <1>3, TakeEffect
  <2>2. Waiting(u)' => Waiting(u)
    BY <1>1, <2>1 DEF Waiting
  <2>3. starts' = starts
    BY <1>3 DEF Take, WorkerEnds, histVars
  <2>4. QED
    BY <1>1, <1>2, <2>2, <2>3, RerunKept
<1>4. CASE RunStarts(c)
  BY <1>4, RerunStarts
<1>5. CASE ~Take(c) /\ ~WorkerEnds(c) /\ ~RunStarts(c)
  <2>1. /\ \A d \in Chats : Queued(d)' = Queued(d)
        /\ \A d \in Chats \ {c} : cur'[d] = cur[d] /\ wpc'[d] = wpc[d]
        /\ wpc'[c] # "start" /\ starts' = starts
    BY <1>5, RunEffect
  <2>2. Waiting(u)' => Waiting(u)
    BY <2>1 DEF Waiting
  <2>3. QED
    BY <1>1, <1>2, <2>1, <2>2, RerunKept
<1>6. QED
  BY <1>3, <1>4, <1>5

LEMMA RerunStep ==
  ASSUME TypeInv, PlaceInv, OrderInv, RerunInv, [Next]_vars
  PROVE  RerunInv'
<1>0. (\A u \in Updates : RerunAt(u)') => RerunInv'
  BY ScriptKept DEF RerunInv, RerunAt
<1> SUFFICES ASSUME NEW u \in Updates PROVE RerunAt(u)'
  BY <1>0
<1>a. RerunAt(u) /\ u \in Nat /\ u # 0 /\ forgotten \in Nat /\ next \in Nat /\ offset \in Nat /\ saved \in Nat
  BY Numbers DEF RerunInv, RerunAt
<1>1. CASE Poll
  <2>1. /\ offset' = offset /\ saved' = saved /\ forgotten <= forgotten' /\ forgotten' \in Nat
        /\ next' = forgotten' + 1 /\ offset <= next' /\ ppc = "poll" /\ ppc' \in {"dispatch", "save"}
        /\ UNCHANGED <<workerVars, histVars>>
    BY <1>1, PollPlace
  <2>2. saved <= offset
    BY <2>1 DEF PlaceInv
  <2>3. PICK f \in Nat : f = forgotten' /\ forgotten <= f /\ offset <= f + 1
    BY <2>1
  <2>4. forgotten <= f /\ offset <= f + 1
    BY <2>3
  <2>5. ASSUME u >= f + 1
        PROVE  u > forgotten /\ u >= saved
    <3>1. PICK o \in Nat : o = offset
      BY <1>a
    <3>2. saved <= o /\ o <= f + 1
      BY <2>2, <2>4, <3>1
    <3>3. QED
      BY <1>a, <2>4, <2>5, <3>2
  <2>6. Owed(u)' => Owed(u)
    BY <2>1, <2>3, <2>5 DEF Owed
  <2>7. QED
    BY <1>a, <2>1, <2>6, WaitingSame, RerunKept DEF workerVars, histVars
<1>2. CASE Dispatch
  BY <1>2, RerunDispatch
<1>3. CASE ResetDirectory \/ UNCHANGED vars
  <2>1. /\ UNCHANGED <<queue, cur, wpc, starts, unclean, forgotten, next, saved>>
        /\ ppc' = ppc \/ {ppc, ppc'} \subseteq {"dispatch", "rmdir", "save"}
    BY <1>3 DEF ResetDirectory, vars, pollerVars, workerVars, histVars
  <2>2. Owed(u)' => Owed(u)
    BY <2>1 DEF Owed
  <2>3. QED
    BY <1>a, <2>1, <2>2, WaitingSame, RerunKept
<1>4. CASE SaveOffset
  <2>1. /\ UNCHANGED <<queue, cur, wpc, starts, unclean, forgotten, next>> /\ saved' = offset
        /\ ppc = "save" /\ ppc' = "poll"
    BY <1>4 DEF SaveOffset, workerVars, histVars
  <2>2. offset = next \/ next = forgotten + 1
    BY <2>1 DEF PlaceInv
  <2>3. u > forgotten /\ u >= offset => u >= next
    BY <1>a, <2>2
  <2>4. Owed(u)' => Owed(u)
    BY <2>1, <2>3 DEF Owed
  <2>5. QED
    BY <1>a, <2>1, <2>4, WaitingSame, RerunKept
<1>5. CASE SaveFails
  BY <1>5, <1>a, WaitingSame, RerunAllowed DEF SaveFails, workerVars
<1>6. CASE Restart
  <2>1. /\ UNCHANGED <<queue, cur, wpc, starts, unclean, forgotten, next, saved>>
        /\ ppc = "down" /\ ppc' = "poll"
    BY <1>6 DEF Restart, workerVars, histVars
  <2>2. QED
    BY <1>a, <2>1, WaitingSame, RerunKept DEF Owed
<1>7. CASE Shutdown
  <2>1. /\ UNCHANGED <<cur, wpc, starts, unclean, forgotten, next, saved>>
        /\ ppc = "poll" /\ ppc' = "joining"
    BY <1>7 DEF Shutdown
  <2>2. /\ \A c \in Chats : Queued(c)' = Queued(c) \/ Queued(c)' = Queued(c) \cup {NoTask}
        /\ NoTask.u = 0
    BY <1>7, ShutdownEffect DEF NoTask, Task
  <2>3. Waiting(u)' => Waiting(u)
    BY <1>a, <2>1, <2>2 DEF Waiting
  <2>4. Owed(u)' => Owed(u)
    BY <2>1 DEF Owed
  <2>5. QED
    BY <1>a, <2>1, <2>3, <2>4, RerunKept
<1>8. CASE Exit \/ Crash
  <2>1. /\ ppc' = "down" /\ UNCHANGED <<forgotten, starts>>
        /\ \A c \in Chats : wpc'[c] = "none" /\ Queued(c)' = {}
    BY <1>8, EndPlace
  <2>2. ~Waiting(u)'
    BY <2>1 DEF Waiting
  <2>3. CASE Exit
    <3>1. ppc = "joining" /\ saved' = saved /\ unclean' = unclean
      BY <2>3 DEF Exit
    <3>2. Owed(u)' => Owed(u)
      BY <2>1, <3>1 DEF Owed
    <3>3. QED
      BY <1>a, <2>1, <2>2, <3>1, <3>2, RerunKept
  <2>4. CASE Crash
    BY <1>a, <2>1, <2>2, <2>4, RerunAllowed DEF Crash
  <2>5. QED
    BY <1>8, <2>3, <2>4
<1>9. ASSUME NEW c \in Chats, Worker(c) PROVE RerunAt(u)'
  BY <1>9, RerunWorker
<1>10. QED
  BY <1>1, <1>2, <1>3, <1>4, <1>5, <1>6, <1>7, <1>8, <1>9 DEF Next, Poller

-----------------------------------------------------------------------------
(* Attachments *)

Own(t, c) == t.slot \in DOMAIN files[c] /\ files[c][t.slot] = t.u
OwnAt(c) == \A t \in Pending(c) : t.u # 0 /\ t.slot # 0 => Own(t, c) \/ Overtaken(t, c)

LEMMA OwnKept ==
  ASSUME NEW c \in Chats, OwnAt(c), script' = script, raced \subseteq raced', files'[c] = files[c],
         \A t \in Pending(c)' : t \in Pending(c) \/ t.u = 0
  PROVE  OwnAt(c)'
<1>1. \A t : (Own(t, c) => Own(t, c)') /\ (Overtaken(t, c) => Overtaken(t, c)')
  BY DEF Own, Overtaken, Chat
<1>2. QED
  BY <1>1 DEF OwnAt

\* An attachment gets a name no other one of the chat has.
LEMMA OwnFile ==
  ASSUME TypeInv, OwnInv, DispatchFile(next), next \in Updates, script' = script, NEW c \in Chats
  PROVE  OwnAt(c)'
<1>1. Chat(next) \in Chats /\ Len(files[Chat(next)]) \in Nat /\ files[Chat(next)] \in Seq(Updates)
  BY Numbers, LenProperties DEF TypeInv, TypeOK, DiskTypes
<1>2. OwnAt(c) /\ raced' = raced
  BY DEF OwnInv, OwnAt, Own, DispatchFile, histVars
<1>3. PICK i \in Nat : i = Len(files[Chat(next)]) + 1
  BY <1>1
<1>4. i > Len(files[Chat(next)]) /\ i = Unique(Chat(next)) /\ i \notin 1 .. Len(files[Chat(next)])
  BY <1>1, <1>3 DEF Unique
<1>5. /\ files' = [files EXCEPT ![Chat(next)] = Append(files[Chat(next)], next)]
      /\ Enqueue(Chat(next), Task(next, i))
  BY <1>4 DEF DispatchFile
<1>6. Task(next, i) \in RealTasks
  BY <1>3 DEF Task, RealTasks
<1>t. PICK t : t = Task(next, i)
  OBVIOUS
<1>7. CASE c # Chat(next)
  <2>1. files'[c] = files[c] /\ Pending(c)' = Pending(c)
    BY <1>1, <1>5, <1>6, <1>7, EnqueueEffect DEF TypeInv, TypeOK, DiskTypes
  <2>2. QED
    BY <1>2, <2>1, OwnKept
<1>8. CASE c = Chat(next)
  <2>1. Pending(c)' = Pending(c) \cup {Task(next, i)}
    BY <1>1, <1>5, <1>6, <1>8, EnqueueEffect
  <2>2. files'[c] = Append(files[c], next)
    BY <1>1, <1>5, <1>8 DEF TypeInv, TypeOK, DiskTypes
  <2>3. /\ Len(Append(files[c], next)) = i /\ Append(files[c], next)[i] = next
        /\ \A j \in 1 .. Len(files[c]) : Append(files[c], next)[j] = files[c][j]
        /\ Append(files[c], next) \in Seq(Updates)
    BY <1>1, <1>3, <1>8, AppendProperties
  <2>4. DOMAIN files[c] = 1 .. Len(files[c]) /\ DOMAIN Append(files[c], next) = 1 .. i
    BY <1>1, <1>8, <2>3, LenProperties
  <2>5. \A j \in 1 .. Len(files[c]) : j \in 1 .. i
    BY <1>1, <1>3, <1>8
  <2>6. i \in 1 .. i
    BY <1>1, <1>3
  <2>7. \A s : Own(s, c) => Own(s, c)'
    BY <2>2, <2>3, <2>4, <2>5 DEF Own
  <2>8. Own(t, c)'
    <3>1. t.slot = i /\ t.u = next
      BY <1>t DEF Task
    <3>2. QED
      BY <2>2, <2>3, <2>4, <2>6, <3>1 DEF Own
  <2>9. \A s : Overtaken(s, c) => Overtaken(s, c)'
    BY <1>2 DEF Overtaken, Chat
  <2>10. QED
    BY <1>2, <1>t, <2>1, <2>7, <2>8, <2>9 DEF OwnAt
<1>9. QED
  BY <1>7, <1>8

\* /reset removes the attachments of the tasks it overtakes.
LEMMA ResetOvertakes ==
  ASSUME TypeInv, PlaceInv, OrderInv, Dispatch, ResetContents(next), next \in Updates
  PROVE  /\ raced \subseteq raced' /\ queue' = queue /\ cur' = cur /\ wpc' = wpc /\ cont' = cont
         /\ conv' = conv /\ marker'[Chat(next)] = FALSE
         /\ \A c \in Chats \ {Chat(next)} : files'[c] = files[c] /\ marker'[c] = marker[c]
         /\ \A t \in Pending(Chat(next)) : t.u # 0 => next \in raced' /\ next > t.u
<1>1. Chat(next) \in Chats /\ offset <= next /\ offset \in Nat /\ next \in Nat
  BY Numbers, DispatchPlace
<1>2. /\ raced' = IF TasksOf(Chat(next)) # {} THEN raced \cup {next} ELSE raced
      /\ marker' = [marker EXCEPT ![Chat(next)] = FALSE]
      /\ files' = [files EXCEPT ![Chat(next)] = <<>>]
      /\ queue' = queue /\ cur' = cur /\ wpc' = wpc /\ cont' = cont /\ conv' = conv
  BY DEF ResetContents, workerVars
<1>3. \A c \in Chats \ {Chat(next)} : files'[c] = files[c] /\ marker'[c] = marker[c]
  BY <1>1, <1>2 DEF TypeInv, TypeOK, DiskTypes
<1>4. marker'[Chat(next)] = FALSE
  BY <1>1, <1>2 DEF TypeInv, TypeOK, DiskTypes
<1>5. ASSUME NEW t \in Pending(Chat(next)), t.u # 0
      PROVE  next \in raced' /\ next > t.u
  <2>1. t.u \in Nat /\ t.u < offset
    BY <1>1, <1>5, TaskFacts DEF OrderInv, Dispatched
  <2>2. PICK n \in Nat : n = t.u
    BY <2>1
  <2>3. n < offset
    BY <2>1, <2>2
  <2>4. next > n
    BY <1>1, <2>3
  <2>5. t.u \in TasksOf(Chat(next))
    BY <1>5 DEF TasksOf
  <2>6. QED
    BY <1>2, <2>2, <2>4, <2>5
<1>6. QED
  BY <1>2, <1>3, <1>4, <1>5

LEMMA OwnStep ==
  ASSUME TypeInv, PlaceInv, OrderInv, OwnInv, [Next]_vars
  PROVE  OwnInv'
<1>0. /\ \A c \in Chats : OwnAt(c)
      /\ (\A c \in Chats : OwnAt(c)') => OwnInv'
  BY DEF OwnInv, OwnAt, Own
<1>a. script' = script
  BY ScriptKept
<1> SUFFICES ASSUME NEW c \in Chats PROVE OwnAt(c)'
  BY <1>0
<1>1. CASE Dispatch
  <2>1. next \in Updates /\ Chat(next) \in Chats
    BY <1>1, DispatchPlace, Numbers
  <2>2. CASE DispatchFile(next)
    BY <1>a, <2>1, <2>2, OwnFile
  <2>3. CASE ResetContents(next)
    <3>1. /\ raced \subseteq raced' /\ queue' = queue /\ cur' = cur
          /\ c # Chat(next) => files'[c] = files[c]
          /\ c = Chat(next) => \A t \in Pending(c) : t.u # 0 => next \in raced' /\ next > t.u
      BY <1>1, <2>1, <2>3, ResetOvertakes
    <3>2. Pending(c)' = Pending(c)
      BY <3>1, TasksSame
    <3>3. CASE c # Chat(next)
      BY <1>0, <1>a, <3>1, <3>2, <3>3, OwnKept
    <3>4. CASE c = Chat(next)
      <4>1. \A t \in Pending(c) : t.u # 0 => Overtaken(t, c)'
        BY <1>a, <3>1, <3>4 DEF Overtaken, Chat
      <4>2. QED
        BY <3>2, <4>1 DEF OwnAt
    <3>5. QED
      BY <3>3, <3>4
  <2>4. CASE DispatchNothing(next) \/ DispatchFails(next)
    <3>1. UNCHANGED <<queue, cur, files, raced>>
      BY <2>4 DEF DispatchNothing, DispatchFails, workerVars, dirVars, histVars
    <3>2. QED
      BY <1>0, <1>a, <3>1, TasksSame, OwnKept
  <2>5. CASE DispatchText(next)
    <3>1. /\ Enqueue(Chat(next), Task(next, 0)) /\ UNCHANGED <<files, raced>>
          /\ Task(next, 0) \in RealTasks /\ Task(next, 0).slot = 0
      BY <2>1, <2>5 DEF DispatchText, dirVars, histVars, Task, RealTasks
    <3>2. Pending(c)' = Pending(c) \/ Pending(c)' = Pending(c) \cup {Task(next, 0)}
      BY <2>1, <3>1, EnqueueEffect
    <3>3. \A t : (Own(t, c) => Own(t, c)') /\ (Overtaken(t, c) => Overtaken(t, c)')
      BY <1>a, <3>1 DEF Own, Overtaken, Chat
    <3>4. QED
      BY <1>0, <3>1, <3>2, <3>3 DEF OwnAt
  <2>6. QED
    BY <1>1, <2>2, <2>3, <2>4, <2>5 DEF Dispatch
<1>2. CASE Poll \/ ResetDirectory \/ SaveOffset \/ SaveFails \/ Restart \/ UNCHANGED vars
  <2>1. UNCHANGED <<queue, cur, files, raced>>
    BY <1>2 DEF Poll, ResetDirectory, SaveOffset, SaveFails, Restart, vars, workerVars, dirVars, histVars
  <2>2. QED
    BY <1>0, <1>a, <2>1, TasksSame, OwnKept
<1>3. CASE Shutdown \/ Exit \/ Crash
  <2>1. UNCHANGED <<files, raced>> /\ NoTask.u = 0
    BY <1>3 DEF Shutdown, Exit, Crash, MemoryGone, dirVars, NoTask, Task
  <2>2. \A t \in Pending(c)' : t \in Pending(c) \/ t = NoTask
    BY <1>3, EndPlace, ShutdownEffect
  <2>3. QED
    BY <1>0, <1>a, <2>1, <2>2, OwnKept
<1>4. ASSUME NEW d \in Chats, Worker(d) PROVE OwnAt(c)'
  <2>1. files' = files /\ raced' = raced
    BY <1>4 DEF Worker, Take, WorkerEnds, RunStarts, RunSucceeds, RunFails, Reply, ReplyFails, dirVars, histVars
  <2>2. \A t \in Pending(c)' : t \in Pending(c) \/ t.u = 0
    <3>1. CASE Take(d) \/ WorkerEnds(d)
      BY <3>1, TakeEffect
    <3>2. CASE ~Take(d) /\ ~WorkerEnds(d)
      <4>1. Pending(c)' = Pending(c) \/ Pending(c)' = Queued(c) \cup {NoTask}
        BY <1>4, <3>2, RunEffect
      <4>2. Queued(c) \subseteq Pending(c) /\ NoTask.u = 0
        BY TaskFacts DEF NoTask, Task
      <4>3. QED
        BY <4>1, <4>2
    <3>3. QED
      BY <3>1, <3>2
  <2>3. QED
    BY <1>0, <1>a, <2>1, <2>2, OwnKept
<1>5. QED
  BY <1>1, <1>2, <1>3, <1>4 DEF Next, Poller

-----------------------------------------------------------------------------
(* Conversations and resets *)

\* Updates the bridge has dispatched, or Telegram forgot.
Known(r) == r <= forgotten \/ r < offset \/ r < saved \/ r < next

\* Only Dispatch gets to know an update, and only one.
LEMMA KnownStep ==
  ASSUME TypeInv, PlaceInv, [Next]_vars, NEW r \in Updates
  PROVE  /\ Known(r)' => Known(r) \/ (Dispatch /\ r = next)
         /\ Known(r)' /\ Dispatch => r <= next
<1>1. r \in Nat /\ r # 0
  BY Numbers
<1>2. CASE Poll
  <2>1. /\ offset' = offset /\ saved' = saved /\ forgotten' \in Nat
        /\ \A n \in Nat : n <= forgotten' => n <= forgotten \/ n < offset
        /\ next' = forgotten' + 1
    BY <1>2, PollPlace
  <2>2. PICK f \in Nat : f = forgotten'
    BY <2>1
  <2>3. r < f + 1 => r <= f
    BY <1>1
  <2>4. ~Dispatch
    BY <1>2 DEF Poll, Dispatch
  <2>5. QED
    BY <1>1, <2>1, <2>2, <2>3, <2>4 DEF Known
<1>3. CASE Dispatch
  <2>1. /\ offset <= next /\ forgotten < next /\ saved <= offset /\ next \in Updates
        /\ offset' = next + 1 /\ next' = next + 1 /\ forgotten' = forgotten /\ saved' = saved
    BY <1>3, DispatchPlace
  <2>2. /\ r < next + 1 => r < next \/ r = next
        /\ r < next + 1 => r <= next
        /\ r <= forgotten => r <= next
        /\ r < saved => r <= next
    BY <1>1, <2>1, Numbers
  <2>3. QED
    BY <1>3, <2>1, <2>2 DEF Known
<1>4. CASE ~Poll /\ ~Dispatch
  <2>1. \/ UNCHANGED <<forgotten, offset, saved, next>>
        \/ forgotten' = forgotten /\ offset' = offset /\ saved' = offset /\ next' = next
        \/ forgotten' = forgotten /\ offset' = saved /\ saved' = saved /\ next' = next
        \/ forgotten' = forgotten /\ offset' = 0 /\ saved' \in {saved, 0} /\ next' = 1
    <3>1. ASSUME NEW c \in Chats, Worker(c) PROVE UNCHANGED <<forgotten, offset, saved, next>>
      BY <3>1, WorkerPlace
    <3>2. CASE Exit \/ Crash
      BY <3>2, EndPlace
    <3>3. CASE ResetDirectory \/ SaveOffset \/ SaveFails \/ Restart \/ Shutdown \/ UNCHANGED vars
      BY <3>3 DEF ResetDirectory, SaveOffset, SaveFails, Restart, Shutdown, vars, pollerVars
    <3>4. QED
      BY <1>4, <3>1, <3>2, <3>3 DEF Next, Poller
  <2>2. ~(r < 0) /\ ~(r < 1)
    BY <1>1
  <2>3. QED
    BY <1>4, <2>1, <2>2 DEF Known
<1>5. QED
  BY <1>2, <1>3, <1>4

\* What ResetInv says of a chat.
Resumable(c) == marker[c] \/ (wpc[c] = "start" /\ cont[c]) \/ wpc[c] = "run"
ResetAt(c) ==
  /\ \A t \in Pending(c) : t.u # 0 => Unbroken(t.u, c)
  /\ Resumable(c) => \A w \in conv[c] : Unbroken(w, c)

\* A step that handles no reset of the chat separates nothing that was together.
LEMMA UnbrokenKept ==
  ASSUME TypeInv, PlaceInv, [Next]_vars, script' = script, raced \subseteq raced', NEW c,
         Dispatch /\ Kind(next) = "reset" /\ Chat(next) = c => next \in raced'
  PROVE  \A w : Unbroken(w, c) => Unbroken(w, c)'
<1> SUFFICES ASSUME NEW w, Unbroken(w, c), NEW r \in Updates', w < r, Handled(r, c)'
             PROVE  r \in raced'
  BY DEF Unbroken
<1>1. r \in Updates /\ Kind(r) = "reset" /\ Chat(r) = c /\ Known(r)'
  BY ScriptSame DEF Handled, Known
<1>2. Known(r) \/ (Dispatch /\ r = next)
  BY <1>1, KnownStep
<1>3. CASE Known(r)
  <2>1. Handled(r, c)
    BY <1>1, <1>3 DEF Handled, Known
  <2>2. QED
    BY <1>1, <2>1 DEF Unbroken
<1>4. CASE Dispatch /\ r = next
  BY <1>1, <1>4
<1>5. QED
  BY <1>2, <1>3, <1>4

\* An update just dispatched is the last one the bridge knows.
LEMMA UnbrokenNew ==
  ASSUME TypeInv, PlaceInv, [Next]_vars, Dispatch, script' = script, NEW u \in Updates, u = next, NEW c
  PROVE  Unbroken(u, c)'
<1> SUFFICES ASSUME NEW r \in Updates', u < r, Handled(r, c)' PROVE FALSE
  BY DEF Unbroken
<1>1. r \in Updates /\ Known(r)'
  BY ScriptSame DEF Handled, Known
<1>2. r <= u
  BY <1>1, KnownStep
<1>3. r \in Nat /\ u \in Nat
  BY <1>1, Numbers
<1>4. QED
  BY <1>2, <1>3

LEMMA ResetKept ==
  ASSUME NEW c \in Chats, ResetAt(c), \A w : Unbroken(w, c) => Unbroken(w, c)', conv'[c] = conv[c],
         Resumable(c)' => Resumable(c), \A t \in Pending(c)' : t \in Pending(c) \/ t.u = 0
  PROVE  ResetAt(c)'
BY DEF ResetAt

LEMMA ResetDispatch ==
  ASSUME TypeInv, PlaceInv, OrderInv, ResetInv, [Next]_vars, Dispatch, NEW c \in Chats
  PROVE  ResetAt(c)'
<1>1. next \in Updates /\ Chat(next) \in Chats /\ script' = script /\ conv' = conv
  BY DispatchPlace, Numbers
<1>2. ResetAt(c)
  BY DEF ResetInv, ResetAt, Resumable
<1>3. CASE ResetContents(next)
  <2>1. /\ raced \subseteq raced' /\ queue' = queue /\ cur' = cur /\ wpc' = wpc /\ cont' = cont
        /\ marker'[Chat(next)] = FALSE
        /\ c # Chat(next) => marker'[c] = marker[c]
        /\ c = Chat(next) => \A t \in Pending(c) : t.u # 0 => next \in raced'
    BY <1>1, <1>3, ResetOvertakes
  <2>2. Pending(c)' = Pending(c)
    BY <2>1, TasksSame
  <2>3. Resumable(c)' => Resumable(c) /\ (c = Chat(next) => cur[c].u # 0)
    <3>1. wpc[c] \in {"start", "run"} => cur[c].u # 0
      BY TaskFacts
    <3>2. QED
      BY <2>1, <3>1 DEF Resumable
  <2>4. CASE c = Chat(next) /\ next \notin raced'
    <3>1. /\ \A t \in Pending(c) : t.u = 0
          /\ cur[c] \in Pending(c)
      BY <2>1, <2>4, TaskFacts
    <3>2. QED
      BY <2>2, <2>3, <2>4, <3>1 DEF ResetAt
  <2>5. CASE c # Chat(next) \/ next \in raced'
    <3>1. \A w : Unbroken(w, c) => Unbroken(w, c)'
      BY <1>1, <2>1, <2>5, UnbrokenKept
    <3>2. QED
      BY <1>1, <1>2, <2>2, <2>3, <3>1, ResetKept
  <2>6. QED
    BY <2>4, <2>5
<1>4. CASE ~ResetContents(next)
  <2>1. raced' = raced /\ marker' = marker /\ Kind(next) # "reset"
    BY <1>4 DEF Dispatch, DispatchNothing, DispatchText, DispatchFile, DispatchFails, histVars, dirVars
  <2>2. \A w : Unbroken(w, c) => Unbroken(w, c)'
    BY <1>1, <2>1, UnbrokenKept
  <2>3. CASE UNCHANGED <<queue, cur, wpc, cont>>
    <3>1. Pending(c)' = Pending(c) /\ (Resumable(c)' => Resumable(c))
      BY <2>1, <2>3, TasksSame DEF Resumable
    <3>2. QED
      BY <1>1, <1>2, <2>2, <3>1, ResetKept
  <2>4. ASSUME NEW t \in RealTasks, t.u = next, Enqueue(Chat(next), t) PROVE ResetAt(c)'
    <3>1. /\ Pending(c)' = Pending(c) \/ Pending(c)' = Pending(c) \cup {t}
          /\ wpc'[c] \in {"start", "run"} => wpc'[c] = wpc[c]
          /\ cont' = cont
      BY <1>1, <2>4, EnqueueEffect
    <3>2. Resumable(c)' => Resumable(c)
      BY <2>1, <3>1 DEF Resumable
    <3>3. Unbroken(t.u, c)'
      BY <1>1, <2>4, UnbrokenNew
    <3>4. QED
      BY <1>1, <1>2, <2>2, <3>1, <3>2, <3>3 DEF ResetAt
  <2>5. QED
    BY <1>1, <2>3, <2>4, DispatchQueues
<1>5. QED
  BY <1>3, <1>4

\* A run resumes what its task was put behind, and adds the task.
LEMMA ResetWorker ==
  ASSUME TypeInv, PlaceInv, ResetInv, [Next]_vars, NEW d \in Chats, Worker(d), NEW c \in Chats
  PROVE  ResetAt(c)'
<1>1. /\ script' = script /\ raced \subseteq raced' /\ ~Dispatch
  <2>1. /\ script' = script /\ raced' = raced /\ next' = next
    BY WorkerPlace
  <2>2. Dispatch => next' = next + 1
    BY DispatchPlace
  <2>3. next # next + 1
    BY Numbers
  <2>4. QED
    BY <2>1, <2>2, <2>3
<1>2. ResetAt(c)
  BY DEF ResetInv, ResetAt, Resumable
<1>3. \A w : Unbroken(w, c) => Unbroken(w, c)'
  BY <1>1, UnbrokenKept
<1>4. CASE Take(d) \/ WorkerEnds(d)
  <2>1. conv' = conv /\ marker' = marker
    BY <1>4 DEF Take, WorkerEnds, dirVars
  <2>2. Pending(c)' \subseteq Pending(c)
    BY <1>4, TakeEffect
  <2>3. Resumable(c)' => Resumable(c)
    <3>1. CASE c # d
      BY <1>4, <2>1, <3>1, TakeEffect DEF Resumable
    <3>2. CASE c = d /\ Take(d)
      BY <2>1, <3>2 DEF Take, Resumable, TypeInv, TypeOK, WorkerTypes
    <3>3. CASE c = d /\ WorkerEnds(d)
      BY <2>1, <3>3 DEF WorkerEnds, Resumable, TypeInv, TypeOK, WorkerTypes
    <3>4. QED
      BY <1>4, <3>1, <3>2, <3>3
  <2>4. QED
    BY <1>2, <1>3, <2>1, <2>2, <2>3, ResetKept
<1>5. CASE ~Take(d) /\ ~WorkerEnds(d) /\ c # d
  <2>1. /\ wpc'[c] = wpc[c] /\ Pending(c)' = Pending(c) /\ cont'[c] = cont[c]
        /\ marker'[c] = marker[c] /\ conv'[c] = conv[c]
    BY <1>5, RunEffect
  <2>2. QED
    BY <1>2, <1>3, <2>1, ResetKept DEF Resumable
<1>6. CASE ~Take(d) /\ ~WorkerEnds(d) /\ c = d
  <2>1. /\ cont'[c] = cont[c]
        /\ \/ /\ cur'[c] = cur[c] /\ wpc[c] = "start" /\ wpc'[c] = "run" /\ Pending(c)' = Pending(c)
              /\ conv'[c] = (IF cont[c] THEN conv[c] ELSE {}) \cup {cur[c].u}
           \/ /\ wpc[c] = "run" /\ wpc'[c] = "reply" /\ conv'[c] = conv[c] /\ Pending(c)' = Pending(c)
           \/ /\ wpc'[c] = "idle" /\ marker'[c] = marker[c] /\ conv'[c] = conv[c]
              /\ Pending(c)' = Queued(c) \cup {NoTask}
    BY <1>6, RunEffect
  <2>2. /\ cur[c] \in Pending(c) /\ Queued(c) \subseteq Pending(c) /\ NoTask.u = 0
        /\ wpc[c] = "start" => cur[c].u # 0
    BY TaskFacts DEF NoTask, Task
  <2>3. CASE /\ cur'[c] = cur[c] /\ wpc[c] = "start" /\ wpc'[c] = "run" /\ Pending(c)' = Pending(c)
             /\ conv'[c] = (IF cont[c] THEN conv[c] ELSE {}) \cup {cur[c].u}
    <3>1. \A w \in conv'[c] : Unbroken(w, c)
      BY <1>2, <2>2, <2>3 DEF ResetAt, Resumable
    <3>2. QED
      BY <1>2, <1>3, <2>3, <3>1 DEF ResetAt
  <2>4. CASE wpc[c] = "run" /\ conv'[c] = conv[c] /\ Pending(c)' = Pending(c)
    <3>1. Resumable(c)
      BY <2>4 DEF Resumable
    <3>2. QED
      BY <1>2, <1>3, <2>4, <3>1, ResetKept
  <2>5. CASE /\ wpc'[c] = "idle" /\ marker'[c] = marker[c] /\ conv'[c] = conv[c]
             /\ Pending(c)' = Queued(c) \cup {NoTask}
    <3>1. Resumable(c)' => Resumable(c)
      BY <2>5 DEF Resumable
    <3>2. QED
      BY <1>2, <1>3, <2>2, <2>5, <3>1, ResetKept
  <2>6. QED
    BY <2>1, <2>3, <2>4, <2>5
<1>7. QED
  BY <1>4, <1>5, <1>6

LEMMA ResetStep ==
  ASSUME TypeInv, PlaceInv, OrderInv, ResetInv, [Next]_vars
  PROVE  ResetInv'
<1>0. /\ \A c \in Chats : ResetAt(c)
      /\ (\A c \in Chats : ResetAt(c)') => ResetInv'
  BY DEF ResetInv, ResetAt, Resumable
<1>a. script' = script
  BY ScriptKept
<1> SUFFICES ASSUME NEW c \in Chats PROVE ResetAt(c)'
  BY <1>0
<1>1. CASE Dispatch
  BY <1>1, ResetDispatch
<1>2. ASSUME NEW d \in Chats, Worker(d) PROVE ResetAt(c)'
  BY <1>2, ResetWorker
<1>3. CASE ~Dispatch /\ (Poll \/ ResetDirectory \/ SaveOffset \/ SaveFails \/ Restart \/ UNCHANGED vars)
  <2>1. UNCHANGED <<queue, cur, wpc, cont, marker, conv, raced>>
    BY <1>3 DEF Poll, ResetDirectory, SaveOffset, SaveFails, Restart, vars, workerVars, dirVars, histVars
  <2>2. \A w : Unbroken(w, c) => Unbroken(w, c)'
    BY <1>3, <1>a, <2>1, UnbrokenKept
  <2>3. Pending(c)' = Pending(c)
    BY <2>1, TasksSame
  <2>4. QED
    BY <1>0, <2>1, <2>2, <2>3, ResetKept DEF Resumable
<1>4. CASE ~Dispatch /\ (Shutdown \/ Exit \/ Crash)
  <2>1. UNCHANGED <<marker, conv, raced>> /\ NoTask.u = 0
    BY <1>4 DEF Shutdown, Exit, Crash, MemoryGone, dirVars, NoTask, Task
  <2>2. \A t \in Pending(c)' : t \in Pending(c) \/ t = NoTask
    BY <1>4, EndPlace, ShutdownEffect
  <2>3. Resumable(c)' => Resumable(c)
    <3>1. CASE Shutdown
      BY <3>1 DEF Shutdown, Resumable, dirVars
    <3>2. CASE Exit \/ Crash
      BY <2>1, <3>2, EndPlace DEF Resumable
    <3>3. QED
      BY <1>4, <3>1, <3>2
  <2>4. \A w : Unbroken(w, c) => Unbroken(w, c)'
    BY <1>4, <1>a, <2>1, UnbrokenKept
  <2>5. QED
    BY <1>0, <2>1, <2>2, <2>3, <2>4, ResetKept
<1>5. QED
  BY <1>1, <1>2, <1>3, <1>4 DEF Next, Poller

-----------------------------------------------------------------------------
(* The theorems *)

RunInv == PlaceInv /\ OrderInv /\ RerunInv /\ OwnInv /\ ResetInv

LEMMA RunInit == Init => RunInv
<1> SUFFICES ASSUME Init PROVE RunInv
  OBVIOUS
<1>1. TypeInv /\ NoTask.u = 0 /\ Len(<<>>) = 0
  BY TypeInit, EmptySeq DEF NoTask, Task
<1>2. /\ ppc = "poll" /\ saved = 0 /\ offset = 0 /\ next = 1 /\ forgotten = 0 /\ unclean = 0
      /\ \A u \in Updates : starts[u] = 0
      /\ \A c \in Chats : /\ queue[c] = <<>> /\ cur[c] = NoTask /\ wpc[c] = "none"
                          /\ lastRun[c] = 0 /\ marker[c] = FALSE /\ conv[c] = {}
  BY DEF Init
<1>3. \A c \in Chats : Queued(c) = {} /\ Pending(c) = {NoTask}
  BY <1>1, <1>2 DEF Queued, Items, Pending
<1>4. PlaceInv
  BY <1>2 DEF PlaceInv
<1>5. OrderInv
  BY <1>1, <1>2, <1>3 DEF OrderInv, Rising, Dispatched, Belongs
<1>6. \A u \in Updates : ~Waiting(u)
  BY <1>2, <1>3 DEF Waiting
<1>7. RerunInv
  BY <1>2, <1>6 DEF RerunInv
<1>8. OwnInv
  BY <1>1, <1>3 DEF OwnInv
<1>9. ResetInv
  BY <1>1, <1>2, <1>3 DEF ResetInv
<1>10. QED
  BY <1>4, <1>5, <1>7, <1>8, <1>9 DEF RunInv

LEMMA RunStep == TypeInv /\ RunInv /\ [Next]_vars => RunInv'
<1> SUFFICES ASSUME TypeInv, RunInv, [Next]_vars PROVE RunInv'
  OBVIOUS
<1>1. TypeInv'
  BY TypeStep
<1>2. QED
  BY <1>1, PlaceStep, OrderStep, RerunStep, OwnStep, ResetStep DEF RunInv

\* RunInv holds in every reachable state: the place of the poller, the order of the queues, what
\* may still be run, and whose the attachments and conversations are, hang together as stated.
THEOREM RunInvariant == Spec => [](TypeInv /\ RunInv)
BY TypeInit, TypeStep, RunInit, RunStep, PTL DEF Spec

\* The agent runs a prompt once more than the process was killed or failed to write its offset, at
\* the most: an orderly stop and start repeats nothing, whatever was waiting.
THEOREM RerunsAreExplained == Spec => []RerunsNeedAnUncleanEnd
<1>1. TypeInv /\ RunInv => RerunsNeedAnUncleanEnd
  <2> SUFFICES ASSUME TypeInv, RunInv, NEW u \in Updates PROVE starts[u] <= 1 + unclean
    BY DEF RerunsNeedAnUncleanEnd
  <2>1. starts[u] <= unclean + 1 /\ unclean \in Nat
    BY Numbers DEF RunInv, RerunInv
  <2>2. QED
    BY <2>1
<1>2. QED
  BY RunInvariant, <1>1, PTL

\* A worker runs the prompts of its chat in the order of their updates.
THEOREM TasksRunInOrder == Spec => InOrder
<1>1. TypeInv /\ RunInv /\ [Next]_vars => [\A c \in Chats : RunStarts(c) => cur[c].u > lastRun[c]]_vars
  <2> SUFFICES ASSUME TypeInv, RunInv, NEW c \in Chats, RunStarts(c) PROVE cur[c].u > lastRun[c]
    OBVIOUS
  <2>1. lastRun[c] < cur[c].u
    BY DEF RunStarts, RunInv, OrderInv
  <2>2. lastRun[c] \in Nat /\ cur[c].u \in Nat
    BY TaskFacts
  <2>3. QED
    BY <2>1, <2>2
<1>2. QED
  BY RunInvariant, <1>1, PTL DEF Spec, InOrder

\* The file a prompt names is the one it came with, unless a /reset was handled in between.
THEOREM AttachmentsStayOwn == Spec => AttachmentsAreOwn
<1>1. TypeInv /\ RunInv /\ [Next]_vars =>
        [\A c \in Chats : RunStarts(c) /\ cur[c].slot # 0 =>
           \/ cur[c].slot \in DOMAIN files[c] /\ files[c][cur[c].slot] = cur[c].u
           \/ \E r \in raced : Chat(r) = c /\ r > cur[c].u]_vars
  <2> SUFFICES ASSUME TypeInv, RunInv, NEW c \in Chats, RunStarts(c), cur[c].slot # 0
               PROVE  \/ cur[c].slot \in DOMAIN files[c] /\ files[c][cur[c].slot] = cur[c].u
                      \/ \E r \in raced : Chat(r) = c /\ r > cur[c].u
    OBVIOUS
  <2>1. cur[c] \in Pending(c) /\ cur[c].u # 0
    BY TaskFacts DEF RunStarts
  <2>2. QED
    BY <2>1 DEF RunInv, OwnInv, Overtaken
<1>2. QED
  BY RunInvariant, <1>1, PTL DEF Spec, AttachmentsAreOwn

\* What a run resumes was not separated from it by a /reset, unless the reset overtook a task.
THEOREM ResetsSeparate == Spec => ResetSeparates
<1>1. TypeInv /\ RunInv /\ [Next]_vars =>
        [\A c \in Chats : RunStarts(c) /\ cont[c] =>
           \A w \in conv[c], r \in Updates :
             w < r /\ r < cur[c].u /\ Chat(r) = c /\ Kind(r) = "reset" => r \in raced]_vars
  <2> SUFFICES ASSUME TypeInv, RunInv, NEW c \in Chats, RunStarts(c), cont[c], NEW w \in conv[c],
                      NEW r \in Updates, w < r, r < cur[c].u, Chat(r) = c, Kind(r) = "reset"
               PROVE  r \in raced
    OBVIOUS
  <2>1. cur[c] \in Pending(c) /\ cur[c].u # 0 /\ wpc[c] = "start" /\ cur[c].u \in Nat
    BY TaskFacts DEF RunStarts
  <2>2. cur[c].u < offset
    BY <2>1 DEF RunInv, OrderInv, Dispatched
  <2>3. r < offset
    BY <2>1, <2>2, Numbers
  <2>4. Handled(r, c)
    BY <2>3 DEF Handled
  <2>5. Unbroken(w, c)
    BY <2>1 DEF RunInv, ResetInv
  <2>6. QED
    BY <2>4, <2>5 DEF Unbroken
<1>2. QED
  BY RunInvariant, <1>1, PTL DEF Spec, ResetSeparates
=============================================================================
