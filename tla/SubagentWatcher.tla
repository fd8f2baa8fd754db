-------------------------- MODULE SubagentWatcher --------------------------
(***************************************************************************)
(* SubagentWatcher of background.py: a thread of its own polls the         *)
(* transcripts of Claude Code's sub-agents and keeps one Telegram message  *)
(* that lists those at work, edited in place, deleted when the last of     *)
(* them finishes or goes silent.  Its number is kept in a file, so that    *)
(* the next process can delete what a crash left behind.  The chat is the  *)
(* one every process starts with, and never changes.                       *)
(***************************************************************************)
EXTENDS Integers

CONSTANTS
  SubAgents,
  MaxRecords,      \* records the sub-agents write
  WatcherTroubles  \* failing calls to Telegram and writes of the file, and crashes, each followed by
                   \* a restart

ASSUME WatcherAssumption == {MaxRecords, WatcherTroubles} \subseteq Nat

VARIABLES
  \* the sub-agents and their files
  last,        \* their last record: "none", "tool", "text" (no stop_reason end_turn), "end"
  silence,     \* time since it was written, see Silences
  here,        \* they belong to the session whose transcript the bridge follows
  \* Telegram
  listing,     \* progress messages that are visible, by number
  sentCount,
  \* the watcher
  agents,      \* _agents
  closed,      \* _closed
  grown,       \* files that grew since the last scan looked at them, or closed them
  leaving,     \* found finished, silent or gone in this scan
  wmid,        \* _mid, 0: none
  wsaved,      \* id in its file, 0: no file
  shown,       \* the sub-agents _shown lists
  wpc,         \* "idle", "close", "act", "set", "persist", "unlink"
  \* bookkeeping of the model
  polled,      \* a tick has ended since a file or a silence changed
  orphans,     \* messages it lost sight of: a lost answer, a failed deletion, a crash before its
               \* number was in the file
  wunsaved,    \* the number of the last one did not get into the file
  missed,      \* sub-agents whose last record it could not notice: see Close and the crash
  records, troubles

fileVars == <<last, silence, here>>
chatVars == <<listing, sentCount>>
trackVars == <<agents, closed, grown, leaving>>
messageVars == <<wmid, wsaved, shown, wunsaved>>
leftVars == <<records, troubles>>
watcherVars == <<fileVars, chatVars, trackVars, messageVars, wpc, polled, orphans, missed, leftVars>>

\* Silence in classes: within FINISH_GRACE, within ACTIVE_WINDOW, within STALE_AFTER, beyond.
Silences == 0 .. 3
Fresh == 0
Running == {0, 1}
Stale == 3

WatcherInit ==
  /\ last = [a \in SubAgents |-> "none"] /\ silence = [a \in SubAgents |-> Stale] /\ here = TRUE
  /\ listing = {} /\ sentCount = 0
  /\ agents = {} /\ closed = {} /\ grown = {} /\ leaving = {}
  /\ wmid = 0 /\ wsaved = 0 /\ shown = {} /\ wunsaved = FALSE /\ wpc = "idle"
  /\ polled = TRUE /\ orphans = {} /\ missed = {}
  /\ records = 0 /\ troubles = 0

Existing == {a \in SubAgents : here /\ last[a] # "none"}

Trouble ==
  /\ troubles < WatcherTroubles
  /\ troubles' = troubles + 1
  /\ UNCHANGED records

-----------------------------------------------------------------------------
(* The world *)

\* Only the scan reads the files: a change that falls into the rest of a tick is the same as one
\* right after it.
BetweenReads == wpc \in {"idle", "close"}

\* A sub-agent writes a record: its first, a further one, or one after it was resumed.
Write(a) ==
  /\ records < MaxRecords /\ here /\ BetweenReads
  /\ \E r \in {"tool", "text", "end"} : last' = [last EXCEPT ![a] = r]
  /\ silence' = [silence EXCEPT ![a] = Fresh]
  /\ grown' = grown \cup {a} /\ polled' = FALSE /\ missed' = missed \ {a}
  /\ records' = records + 1
  /\ UNCHANGED <<here, chatVars, agents, closed, leaving, messageVars, wpc, orphans, troubles>>

\* Time passes; the windows are long compared to a poll and to the pause between two edits.
Age ==
  /\ wpc = "idle" /\ polled
  /\ \E group \in SUBSET {a \in SubAgents : silence[a] < Stale} \ {{}} :
       silence' = [a \in SubAgents |-> IF a \in group THEN silence[a] + 1 ELSE silence[a]]
  /\ polled' = FALSE
  /\ UNCHANGED <<last, here, chatVars, trackVars, messageVars, wpc, orphans, missed, leftVars>>

\* The bridge adopts the transcript of another session, which has no sub-agents yet.
OtherSession ==
  /\ here /\ wpc = "idle"
  /\ here' = FALSE
  /\ UNCHANGED <<last, silence, chatVars, trackVars, messageVars, wpc, polled, orphans, missed, leftVars>>

-----------------------------------------------------------------------------
(* scan *)

\* _finished, on what was read: a text alone may introduce a tool call still being generated.
Finished(a) == last[a] = "end" \/ (last[a] = "text" /\ silence[a] > Fresh)

\* Mutant: a sub-agent that is killed in the middle of a call never leaves.
LeavesUnlessSilent(a) == a \notin Existing \/ Finished(a)

Leaves(a) == a \notin Existing \/ Finished(a) \/ silence[a] = Stale

\* Mutant: a sub-agent that was resumed stays closed.
UnclosedCandidates == {a \in Existing \ agents : silence[a] \in Running /\ a \notin closed}

\* Files not tracked so far: history is skipped, and so is what has not grown since it was closed.
Candidates == {a \in Existing \ agents : silence[a] \in Running /\ (a \in closed => a \in grown)}

\* Mutant: a sub-agent that is tracked again is not taken out of _closed.
LookKeepingClosed ==
  /\ wpc = "idle"
  /\ agents' = agents \cup Candidates
  /\ closed' = closed
  /\ grown' = {}
  /\ leaving' = {a \in agents' : Leaves(a)}
  /\ wpc' = IF leaving' = {} THEN "act" ELSE "close"
  /\ UNCHANGED <<fileVars, chatVars, messageVars, polled, orphans, missed, leftVars>>

\* Every file is looked at, and read to its end if it grew.
Look ==
  /\ wpc = "idle"
  /\ agents' = agents \cup Candidates
  /\ closed' = closed \ Candidates
  /\ grown' = {}
  /\ leaving' = {a \in agents' : Leaves(a)}
  /\ wpc' = IF leaving' = {} THEN "act" ELSE "close"
  /\ UNCHANGED <<fileVars, chatVars, messageVars, polled, orphans, missed, leftVars>>

\* Those that leave are closed at the size their file has by now: what was written since it was
\* read will not be noticed before the file grows again.
Close ==
  /\ wpc = "close"
  /\ agents' = agents \ leaving
  /\ closed' = closed \cup leaving
  /\ missed' = missed \cup (leaving \cap grown)
  /\ grown' = grown \ leaving
  /\ leaving' = {}
  /\ wpc' = "act"
  /\ UNCHANGED <<fileVars, chatVars, messageVars, polled, orphans, leftVars>>

-----------------------------------------------------------------------------
(* tick, after the scan *)

TickOver ==
  /\ wpc' = "idle"
  /\ polled' = (grown = {})

Quiet == UNCHANGED <<fileVars, trackVars, missed>>

\* Nothing to list and no message.
NothingToShow ==
  /\ wpc = "act" /\ agents = {} /\ wmid = 0
  /\ TickOver
  /\ Quiet /\ UNCHANGED <<chatVars, messageVars, orphans, leftVars>>

\* The last one has left.
DeleteListing ==
  /\ wpc = "act" /\ agents = {} /\ wmid # 0
  /\ listing' = listing \ {wmid}
  /\ wmid' = 0 /\ shown' = {} /\ wpc' = "unlink"
  /\ Quiet /\ UNCHANGED <<sentCount, wsaved, wunsaved, polled, orphans, leftVars>>

\* A failing deletion is not tried again.
DeleteListingFails ==
  /\ wpc = "act" /\ agents = {} /\ wmid # 0
  /\ Trouble
  /\ orphans' = orphans \cup {wmid}
  /\ wmid' = 0 /\ shown' = {} /\ wpc' = "unlink"
  /\ Quiet /\ UNCHANGED <<chatVars, wsaved, wunsaved, polled>>

Unlink ==
  /\ wpc = "unlink"
  /\ wsaved' = 0
  /\ TickOver
  /\ Quiet /\ UNCHANGED <<chatVars, wmid, shown, wunsaved, orphans, leftVars>>

\* A file that cannot be removed stays, which is ignored.
UnlinkFails ==
  /\ wpc = "unlink"
  /\ Trouble
  /\ TickOver
  /\ Quiet /\ UNCHANGED <<chatVars, messageVars, orphans>>

\* The text is what is shown already, or the last attempt is less than EDIT_INTERVAL ago.
Wait ==
  /\ wpc = "act" /\ agents # {}
  /\ wpc' = "idle"
  /\ Quiet /\ UNCHANGED <<chatVars, messageVars, polled, orphans, leftVars>>

SendListing ==
  /\ wpc = "act" /\ agents # {} /\ wmid = 0
  /\ listing' = listing \cup {sentCount + 1} /\ sentCount' = sentCount + 1
  /\ wmid' = sentCount + 1 /\ wpc' = "persist"
  /\ Quiet /\ UNCHANGED <<wsaved, shown, wunsaved, polled, orphans, leftVars>>

\* The message is there, its number is not.
SendAnswerLost ==
  /\ wpc = "act" /\ agents # {} /\ wmid = 0
  /\ Trouble
  /\ listing' = listing \cup {sentCount + 1} /\ sentCount' = sentCount + 1
  /\ orphans' = orphans \cup {sentCount + 1}
  /\ TickOver
  /\ Quiet /\ UNCHANGED messageVars

SendListingFails ==
  /\ wpc = "act" /\ agents # {} /\ wmid = 0
  /\ Trouble
  /\ TickOver
  /\ Quiet /\ UNCHANGED <<chatVars, messageVars, orphans>>

Persist ==
  /\ wpc = "persist"
  /\ wsaved' = wmid /\ shown' = agents /\ wunsaved' = FALSE
  /\ TickOver
  /\ Quiet /\ UNCHANGED <<chatVars, wmid, orphans, leftVars>>

\* A failing write is ignored: the file is as before, or empty.
PersistFails ==
  /\ wpc = "persist"
  /\ Trouble
  /\ wsaved' \in {wsaved, 0} /\ shown' = agents /\ wunsaved' = TRUE
  /\ TickOver
  /\ Quiet /\ UNCHANGED <<chatVars, wmid, orphans>>

\* A failing edit is swallowed by the client: the text counts as shown.
EditListing ==
  /\ wpc = "act" /\ agents # {} /\ wmid # 0
  /\ shown' = agents
  /\ TickOver
  /\ Quiet /\ UNCHANGED <<chatVars, wmid, wsaved, wunsaved, orphans, leftVars>>

-----------------------------------------------------------------------------
\* The process dies and, some time later, the next one starts: cleanup_orphan deletes the message
\* in the file and removes the file, either of which may fail; all sub-agents are looked at anew.
WatcherCrash ==
  /\ Trouble
  /\ \E deleted, removed \in BOOLEAN :
       /\ listing' = IF deleted THEN listing \ {wsaved} ELSE listing
       /\ orphans' = orphans \cup (IF wpc = "persist" \/ wunsaved THEN listing \cap {wmid} ELSE {})
                         \cup (IF deleted THEN {} ELSE listing \cap {wsaved})
       /\ wsaved' = IF removed THEN 0 ELSE wsaved
  /\ \E down \in BOOLEAN :
       /\ silence' = [a \in SubAgents |-> IF down THEN Stale ELSE silence[a]]
       /\ missed' = {a \in SubAgents : a \in missed \/ silence'[a] \notin Running}
  /\ agents' = {} /\ closed' = {} /\ grown' = {} /\ leaving' = {}
  /\ wmid' = 0 /\ shown' = {} /\ wunsaved' = FALSE /\ wpc' = "idle"
  /\ polled' = FALSE
  /\ UNCHANGED <<last, here, sentCount>>

Sends == SendListing \/ EditListing
Watching ==
  \/ Look \/ Close \/ NothingToShow \/ DeleteListing \/ Unlink \/ Persist

WatcherNext ==
  \/ \E a \in SubAgents : Write(a)
  \/ Age
  \/ OtherSession
  \/ Look \/ Close
  \/ NothingToShow \/ DeleteListing \/ DeleteListingFails \/ Unlink \/ UnlinkFails
  \/ Wait \/ SendListing \/ SendAnswerLost \/ SendListingFails \/ Persist \/ PersistFails
  \/ EditListing
  \/ WatcherCrash

=============================================================================
