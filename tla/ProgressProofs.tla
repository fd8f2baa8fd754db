--------------------------- MODULE ProgressProofs ---------------------------
(***************************************************************************)
(* Proofs about the two progress messages, for any number of turns, pushes,*)
(* replies, records, sub-agents, failing calls and crashes.                *)
(***************************************************************************)
EXTENDS ProgressProperties, TLAPS

-----------------------------------------------------------------------------
(* The inductive invariant *)

\* The numbers of visible messages were given out, and a bubble is no reply.
Given(c, i) == i # 0 /\ i <= posted[c]
NumbersInv ==
  /\ \A m \in bubbles \cup texts : Given(m.chat, m.id)
  /\ bubbles \cap texts = {}
  /\ ppc \in {"set", "persist"} => Given(pchat, pmid) /\ Message(pchat, pmid) \notin texts

\* What memory and file say about the bubble differs only while a push is under way, or when the
\* file was not written or was removed since.
IdInv ==
  /\ ppc \in {"send", "set"} => mid = 0
  /\ mid # 0 => saved = mid \/ ppc = "persist" \/ unsaved
  /\ ppc = "persist" => mid \in {0, pmid}

\* As long as the recipient has not moved, the numbers it will delete are no replies.
KeptInv ==
  ~moved =>
    /\ erased = {}
    /\ Message(owner, mid) \notin texts /\ Message(owner, saved) \notin texts
    /\ mid <= posted[owner] /\ saved <= posted[owner]
    /\ ppc # "idle" => pchat = owner

\* A bubble that is neither tracked nor being pushed is a stray; the tracked one must not be
\* needed any more when the outbound thread forgets it, nor when the push completes.
Pushed == IF ppc \in {"set", "persist"} THEN {Message(pchat, pmid)} ELSE {}
SeenInv ==
  /\ bubbles \subseteq strays \cup Tracked \cup Pushed
  /\ opc = "forget" => Tracked \subseteq strays
  /\ ppc = "persist" => Tracked \subseteq strays \cup Pushed
  /\ ppc = "persist" /\ mid = pmid => bubbles \cap Pushed \subseteq strays \cup Tracked

BubbleInv == BubbleTypes /\ NumbersInv /\ IdInv /\ KeptInv /\ SeenInv

\* The number of the listing is in the file except just after it was sent or if the write failed.
ListingInv ==
  /\ 0 \notin listing
  /\ listing \subseteq orphans \cup {wmid}
  /\ wmid # 0 => wsaved = wmid \/ wpc = "persist" \/ wunsaved
  /\ wpc = "unlink" => wmid = 0 /\ agents = {}

\* Where the scan stands: what is about to be closed while it works has just written, and who
\* works is tracked, was seen to grow, is missed, or is found by the first scan after a crash.
Busy == {a \in Existing : last[a] = "tool" /\ silence[a] < Stale}
ScanInv ==
  /\ polled => grown = {}
  /\ \A a \in grown : silence[a] \in Running
  /\ wpc # "close" => leaving = {}
  /\ leaving \cap Busy \subseteq grown
  /\ \A a \in Busy \ (agents \cup grown \cup missed) :
       wpc = "idle" /\ ~polled /\ a \notin closed /\ silence[a] \in Running

WorkInv ==
  polled /\ wpc # "persist" =>
    Busy \subseteq shown \cup missed \/ (wmid = 0 /\ troubles > 0)

WatcherInv == WatcherTypes /\ ListingInv /\ ScanInv /\ WorkInv

-----------------------------------------------------------------------------
(* The list of sub-agents *)

LEMMA WatcherStart == WatcherInit => WatcherInv
<1> SUFFICES ASSUME WatcherInit PROVE WatcherInv
  OBVIOUS
<1>1. WatcherTypes
  <2>1. last \in [SubAgents -> {"none", "tool", "text", "end"}] /\ silence \in [SubAgents -> Silences]
    BY DEF WatcherInit, Silences, Stale
  <2>2. /\ {records, troubles, wmid, wsaved, sentCount} \subseteq Nat /\ wpc = "idle"
        /\ agents = {} /\ closed = {} /\ grown = {} /\ leaving = {} /\ shown = {} /\ missed = {}
        /\ listing = {} /\ orphans = {}
    BY DEF WatcherInit
  <2>3. here \in BOOLEAN /\ polled \in BOOLEAN /\ wunsaved \in BOOLEAN
    BY DEF WatcherInit
  <2>4. QED
    BY <2>1, <2>2, <2>3 DEF WatcherTypes
<1>2. ListingInv
  BY DEF WatcherInit, ListingInv
<1>3. Busy = {}
  BY DEF WatcherInit, Busy, Existing
<1>4. ScanInv /\ WorkInv
  BY <1>3 DEF WatcherInit, ScanInv, WorkInv
<1>5. QED
  BY <1>1, <1>2, <1>4 DEF WatcherInv

\* Steps of the files.
LEMMA FilesMove ==
  ASSUME WatcherInv, (\E a \in SubAgents : Write(a)) \/ Age \/ OtherSession
  PROVE  WatcherInv'
<1>1. ASSUME NEW a \in SubAgents, Write(a) PROVE WatcherInv'
  <2>1. WatcherTypes' /\ ListingInv'
    <3>1. records' \in Nat /\ troubles' \in Nat
      BY <1>1 DEF Write, WatcherInv, WatcherTypes
    <3>2. last' \in [SubAgents -> {"none", "tool", "text", "end"}] /\ silence' \in [SubAgents -> Silences]
      BY <1>1 DEF Write, WatcherInv, WatcherTypes, Silences, Fresh
    <3>3. grown' \in SUBSET SubAgents /\ missed' \in SUBSET SubAgents /\ polled' \in BOOLEAN
      BY <1>1 DEF Write, WatcherInv, WatcherTypes
    <3>4. QED
      BY <1>1, <3>1, <3>2, <3>3 DEF Write, WatcherInv, WatcherTypes, ListingInv, chatVars, messageVars
  <2>2. Busy' \subseteq Busy \cup {a}
    BY <1>1 DEF Write, WatcherInv, WatcherTypes, Busy, Existing, Stale
  <2>3. ScanInv' /\ WorkInv'
    BY <1>1, <2>2 DEF Write, WatcherInv, WatcherTypes, ScanInv, WorkInv, Fresh, Running, BetweenReads
  <2>4. QED
    BY <2>1, <2>3 DEF WatcherInv
<1>2. CASE Age
  <2>1. silence' \in [SubAgents -> Silences]
    BY <1>2 DEF Age, WatcherInv, WatcherTypes, Silences, Stale
  <2>2. WatcherTypes' /\ ListingInv'
    BY <1>2, <2>1 DEF Age, WatcherInv, WatcherTypes, ListingInv, chatVars, trackVars, messageVars, leftVars
  <2>3. Busy' \subseteq Busy
    BY <1>2 DEF Age, WatcherInv, WatcherTypes, Busy, Existing, Silences, Stale
  <2>4. ScanInv' /\ WorkInv'
    BY <1>2, <2>3 DEF Age, WatcherInv, ScanInv, WorkInv, trackVars
  <2>5. QED
    BY <2>2, <2>4 DEF WatcherInv
<1>3. CASE OtherSession
  <2>1. Busy' = {}
    BY <1>3 DEF OtherSession, Busy, Existing
  <2>2. QED
    BY <1>3, <2>1 DEF OtherSession, WatcherInv, WatcherTypes, ListingInv, ScanInv, WorkInv, chatVars,
                      trackVars, messageVars, leftVars
<1>4. QED
  BY <1>1, <1>2, <1>3

\* The scan.
LEMMA ScanMoves ==
  ASSUME WatcherInv, Look \/ Close
  PROVE  WatcherInv'
<1>1. Busy' = Busy
  BY DEF Look, Close, fileVars, Busy, Existing
<1>2. CASE Look
  <2>1. Busy \cap {a \in agents' : Leaves(a)} = {}
    <3>1. \A a \in Busy : ~Finished(a) /\ silence[a] # Stale /\ a \in Existing
      BY DEF Busy, Finished, Stale
    <3>2. QED
      BY <3>1 DEF Leaves
  <2>2. \A a \in Busy : a \in grown \cup missed \cup agents'
    BY <1>2 DEF Look, Candidates, Busy, WatcherInv, WatcherTypes, ScanInv, Running, Existing
  <2>3. \A a \in Busy : a \in missed \cup agents'
    BY <1>2 DEF Look, Candidates, Busy, WatcherInv, WatcherTypes, ScanInv, Running, Existing
  <2>4. WatcherTypes' /\ ListingInv'
    BY <1>2 DEF Look, WatcherInv, WatcherTypes, ListingInv, Candidates, Existing, fileVars, chatVars,
                messageVars, leftVars
  <2>5. ScanInv'
    BY <1>1, <1>2, <2>1, <2>3 DEF Look, WatcherInv, ScanInv
  <2>6. WorkInv'
    BY <1>1, <1>2 DEF Look, WatcherInv, ScanInv, WorkInv, messageVars, leftVars
  <2>7. QED
    BY <2>4, <2>5, <2>6 DEF WatcherInv
<1>3. CASE Close
  <2>1. WatcherTypes' /\ ListingInv'
    BY <1>3 DEF Close, WatcherInv, WatcherTypes, ListingInv, fileVars, chatVars, messageVars, leftVars
  <2>2. ScanInv'
    BY <1>1, <1>3 DEF Close, WatcherInv, WatcherTypes, ScanInv, fileVars
  <2>3. WorkInv'
    BY <1>1, <1>3 DEF Close, WatcherInv, WorkInv, messageVars, leftVars
  <2>4. QED
    BY <2>1, <2>2, <2>3 DEF WatcherInv
<1>4. QED
  BY <1>2, <1>3

\* What follows the scan leaves the files and the tracking alone.
LEMMA TickFrame ==
  ASSUME WatcherInv, Quiet, wpc \in {"act", "persist", "unlink"},
         wpc' \in {"idle", "persist", "unlink"}, polled' \in BOOLEAN, polled' => polled \/ grown = {}
  PROVE  /\ ScanInv'
         /\ Busy' = Busy /\ missed' = missed /\ agents' = agents
         /\ polled' => Busy \subseteq agents \cup missed
<1>1. Busy' = Busy
  BY DEF Quiet, fileVars, Busy, Existing
<1>2. Busy \subseteq agents \cup grown \cup missed
  BY DEF WatcherInv, ScanInv
<1>3. /\ agents' = agents /\ missed' = missed /\ grown' = grown /\ leaving' = leaving
      /\ silence' = silence /\ closed' = closed
  BY DEF Quiet, fileVars, trackVars
<1>4. polled' => grown = {}
  BY DEF WatcherInv, ScanInv
<1>5. ScanInv'
  BY <1>1, <1>2, <1>3, <1>4 DEF WatcherInv, ScanInv
<1>6. QED
  BY <1>1, <1>2, <1>3, <1>4, <1>5

\* Whatever a tick did to the message is typed, numbered and complete.
LEMMA TickEnds ==
  ASSUME WatcherInv, Quiet, wpc \in {"act", "persist", "unlink"},
         wpc' \in {"idle", "persist", "unlink"}, polled' \in BOOLEAN, polled' => polled \/ grown = {},
         listing' \in SUBSET Nat, sentCount' \in Nat, wmid' \in Nat, wsaved' \in Nat, wunsaved' \in BOOLEAN,
         shown' \in {shown, {}, agents}, orphans' \in SUBSET Nat, records' = records, troubles' \in Nat,
         ListingInv', WorkInv'
  PROVE  WatcherInv'
<1>2. shown' \in SUBSET SubAgents
  BY DEF WatcherInv, WatcherTypes
<1>3. WatcherTypes'
  BY <1>2 DEF WatcherInv, WatcherTypes, Quiet, fileVars, trackVars
<1>4. QED
  BY <1>3, TickFrame DEF WatcherInv

LEMMA TickMoves ==
  ASSUME WatcherInv,
         \/ NothingToShow \/ DeleteListing \/ DeleteListingFails \/ Unlink \/ UnlinkFails \/ Wait
         \/ SendListing \/ SendAnswerLost \/ SendListingFails \/ Persist \/ PersistFails \/ EditListing
  PROVE  WatcherInv'
<1> USE DEF TickOver, Trouble, chatVars, messageVars, leftVars
<1>0. /\ sentCount + 1 \in Nat \ {0} /\ troubles + 1 \in Nat \ {0} /\ listing \in SUBSET Nat /\ orphans \in SUBSET Nat
      /\ sentCount \in Nat /\ wmid \in Nat /\ wsaved \in Nat /\ troubles \in Nat
  BY DEF WatcherInv, WatcherTypes
<1>1. CASE NothingToShow
  <2>1. /\ Quiet /\ wpc \in {"act", "persist", "unlink"} /\ wpc' \in {"idle", "persist", "unlink"}
        /\ polled' \in BOOLEAN /\ (polled' => polled \/ grown = {}) /\ records' = records
        /\ wunsaved' \in BOOLEAN
    BY <1>1 DEF NothingToShow, WatcherInv, WatcherTypes
  <2>2. /\ listing' \in SUBSET Nat /\ sentCount' \in Nat /\ wmid' \in Nat /\ wsaved' \in Nat
        /\ shown' \in {shown, {}, agents} /\ orphans' \in SUBSET Nat /\ troubles' \in Nat
    BY <1>0, <1>1 DEF NothingToShow
  <2>3. Busy' = Busy /\ missed' = missed /\ (polled' => Busy \subseteq agents \cup missed) /\ agents' = agents
    BY <2>1, TickFrame
  <2>4. ListingInv'
    BY <1>0, <1>1, <2>3 DEF NothingToShow, WatcherInv, ListingInv
  <2>5. WorkInv'
    BY <1>0, <1>1, <2>3 DEF NothingToShow, WatcherInv, WorkInv, ListingInv
  <2>6. QED
    BY <2>1, <2>2, <2>4, <2>5, TickEnds
<1>2. CASE DeleteListing
  <2>1. /\ Quiet /\ wpc \in {"act", "persist", "unlink"} /\ wpc' \in {"idle", "persist", "unlink"}
        /\ polled' \in BOOLEAN /\ (polled' => polled \/ grown = {}) /\ records' = records
        /\ wunsaved' \in BOOLEAN
    BY <1>2 DEF DeleteListing, WatcherInv, WatcherTypes
  <2>2. /\ listing' \in SUBSET Nat /\ sentCount' \in Nat /\ wmid' \in Nat /\ wsaved' \in Nat
        /\ shown' \in {shown, {}, agents} /\ orphans' \in SUBSET Nat /\ troubles' \in Nat
    BY <1>0, <1>2 DEF DeleteListing
  <2>3. Busy' = Busy /\ missed' = missed /\ (polled' => Busy \subseteq agents \cup missed) /\ agents' = agents
    BY <2>1, TickFrame
  <2>4. ListingInv'
    BY <1>0, <1>2, <2>3 DEF DeleteListing, WatcherInv, ListingInv
  <2>5. WorkInv'
    BY <1>0, <1>2, <2>3 DEF DeleteListing, WatcherInv, WorkInv, ListingInv
  <2>6. QED
    BY <2>1, <2>2, <2>4, <2>5, TickEnds
<1>3. CASE DeleteListingFails
  <2>1. /\ Quiet /\ wpc \in {"act", "persist", "unlink"} /\ wpc' \in {"idle", "persist", "unlink"}
        /\ polled' \in BOOLEAN /\ (polled' => polled \/ grown = {}) /\ records' = records
        /\ wunsaved' \in BOOLEAN
    BY <1>3 DEF DeleteListingFails, WatcherInv, WatcherTypes
  <2>2. /\ listing' \in SUBSET Nat /\ sentCount' \in Nat /\ wmid' \in Nat /\ wsaved' \in Nat
        /\ shown' \in {shown, {}, agents} /\ orphans' \in SUBSET Nat /\ troubles' \in Nat
    BY <1>0, <1>3 DEF DeleteListingFails
  <2>3. Busy' = Busy /\ missed' = missed /\ (polled' => Busy \subseteq agents \cup missed) /\ agents' = agents
    BY <2>1, TickFrame
  <2>4. ListingInv'
    BY <1>0, <1>3, <2>3 DEF DeleteListingFails, WatcherInv, ListingInv
  <2>5. WorkInv'
    BY <1>0, <1>3, <2>3 DEF DeleteListingFails, WatcherInv, WorkInv, ListingInv
  <2>6. QED
    BY <2>1, <2>2, <2>4, <2>5, TickEnds
<1>4. CASE Unlink
  <2>1. /\ Quiet /\ wpc \in {"act", "persist", "unlink"} /\ wpc' \in {"idle", "persist", "unlink"}
        /\ polled' \in BOOLEAN /\ (polled' => polled \/ grown = {}) /\ records' = records
        /\ wunsaved' \in BOOLEAN
    BY <1>4 DEF Unlink, WatcherInv, WatcherTypes
  <2>2. /\ listing' \in SUBSET Nat /\ sentCount' \in Nat /\ wmid' \in Nat /\ wsaved' \in Nat
        /\ shown' \in {shown, {}, agents} /\ orphans' \in SUBSET Nat /\ troubles' \in Nat
    BY <1>0, <1>4 DEF Unlink
  <2>3. Busy' = Busy /\ missed' = missed /\ (polled' => Busy \subseteq agents \cup missed) /\ agents' = agents
    BY <2>1, TickFrame
  <2>4. ListingInv'
    BY <1>0, <1>4, <2>3 DEF Unlink, WatcherInv, ListingInv
  <2>5. WorkInv'
    BY <1>0, <1>4, <2>3 DEF Unlink, WatcherInv, WorkInv, ListingInv
  <2>6. QED
    BY <2>1, <2>2, <2>4, <2>5, TickEnds
<1>5. CASE Wait
  <2>1. /\ Quiet /\ wpc \in {"act", "persist", "unlink"} /\ wpc' \in {"idle", "persist", "unlink"}
        /\ polled' \in BOOLEAN /\ (polled' => polled \/ grown = {}) /\ records' = records
        /\ wunsaved' \in BOOLEAN
    BY <1>5 DEF Wait, WatcherInv, WatcherTypes
  <2>2. /\ listing' \in SUBSET Nat /\ sentCount' \in Nat /\ wmid' \in Nat /\ wsaved' \in Nat
        /\ shown' \in {shown, {}, agents} /\ orphans' \in SUBSET Nat /\ troubles' \in Nat
    BY <1>0, <1>5 DEF Wait
  <2>3. Busy' = Busy /\ missed' = missed /\ (polled' => Busy \subseteq agents \cup missed) /\ agents' = agents
    BY <2>1, TickFrame
  <2>4. ListingInv'
    BY <1>0, <1>5, <2>3 DEF Wait, WatcherInv, ListingInv
  <2>5. WorkInv'
    BY <1>0, <1>5, <2>3 DEF Wait, WatcherInv, WorkInv, ListingInv
  <2>6. QED
    BY <2>1, <2>2, <2>4, <2>5, TickEnds
<1>6. CASE SendListing
  <2>1. /\ Quiet /\ wpc \in {"act", "persist", "unlink"} /\ wpc' \in {"idle", "persist", "unlink"}
        /\ polled' \in BOOLEAN /\ (polled' => polled \/ grown = {}) /\ records' = records
        /\ wunsaved' \in BOOLEAN
    BY <1>6 DEF SendListing, WatcherInv, WatcherTypes
  <2>2. /\ listing' \in SUBSET Nat /\ sentCount' \in Nat /\ wmid' \in Nat /\ wsaved' \in Nat
        /\ shown' \in {shown, {}, agents} /\ orphans' \in SUBSET Nat /\ troubles' \in Nat
    BY <1>0, <1>6 DEF SendListing
  <2>3. Busy' = Busy /\ missed' = missed /\ (polled' => Busy \subseteq agents \cup missed) /\ agents' = agents
    BY <2>1, TickFrame
  <2>4. ListingInv'
    BY <1>0, <1>6, <2>3 DEF SendListing, WatcherInv, ListingInv
  <2>5. WorkInv'
    BY <1>0, <1>6, <2>3 DEF SendListing, WatcherInv, WorkInv, ListingInv
  <2>6. QED
    BY <2>1, <2>2, <2>4, <2>5, TickEnds
<1>7. CASE SendAnswerLost
  <2>1. /\ Quiet /\ wpc \in {"act", "persist", "unlink"} /\ wpc' \in {"idle", "persist", "unlink"}
        /\ polled' \in BOOLEAN /\ (polled' => polled \/ grown = {}) /\ records' = records
        /\ wunsaved' \in BOOLEAN
    BY <1>7 DEF SendAnswerLost, WatcherInv, WatcherTypes
  <2>2. /\ listing' \in SUBSET Nat /\ sentCount' \in Nat /\ wmid' \in Nat /\ wsaved' \in Nat
        /\ shown' \in {shown, {}, agents} /\ orphans' \in SUBSET Nat /\ troubles' \in Nat
    BY <1>0, <1>7 DEF SendAnswerLost
  <2>3. Busy' = Busy /\ missed' = missed /\ (polled' => Busy \subseteq agents \cup missed) /\ agents' = agents
    BY <2>1, TickFrame
  <2>4. ListingInv'
    BY <1>0, <1>7, <2>3 DEF SendAnswerLost, WatcherInv, ListingInv
  <2>5. WorkInv'
    BY <1>0, <1>7, <2>3 DEF SendAnswerLost, WatcherInv, WorkInv, ListingInv
  <2>6. QED
    BY <2>1, <2>2, <2>4, <2>5, TickEnds
<1>8. CASE SendListingFails
  <2>1. /\ Quiet /\ wpc \in {"act", "persist", "unlink"} /\ wpc' \in {"idle", "persist", "unlink"}
        /\ polled' \in BOOLEAN /\ (polled' => polled \/ grown = {}) /\ records' = records
        /\ wunsaved' \in BOOLEAN
    BY <1>8 DEF SendListingFails, WatcherInv, WatcherTypes
  <2>2. /\ listing' \in SUBSET Nat /\ sentCount' \in Nat /\ wmid' \in Nat /\ wsaved' \in Nat
        /\ shown' \in {shown, {}, agents} /\ orphans' \in SUBSET Nat /\ troubles' \in Nat
    BY <1>0, <1>8 DEF SendListingFails
  <2>3. Busy' = Busy /\ missed' = missed /\ (polled' => Busy \subseteq agents \cup missed) /\ agents' = agents
    BY <2>1, TickFrame
  <2>4. ListingInv'
    BY <1>0, <1>8, <2>3 DEF SendListingFails, WatcherInv, ListingInv
  <2>5. WorkInv'
    BY <1>0, <1>8, <2>3 DEF SendListingFails, WatcherInv, WorkInv, ListingInv
  <2>6. QED
    BY <2>1, <2>2, <2>4, <2>5, TickEnds
<1>9. CASE Persist
  <2>1. /\ Quiet /\ wpc \in {"act", "persist", "unlink"} /\ wpc' \in {"idle", "persist", "unlink"}
        /\ polled' \in BOOLEAN /\ (polled' => polled \/ grown = {}) /\ records' = records
        /\ wunsaved' \in BOOLEAN
    BY <1>9 DEF Persist, WatcherInv, WatcherTypes
  <2>2. /\ listing' \in SUBSET Nat /\ sentCount' \in Nat /\ wmid' \in Nat /\ wsaved' \in Nat
        /\ shown' \in {shown, {}, agents} /\ orphans' \in SUBSET Nat /\ troubles' \in Nat
    BY <1>0, <1>9 DEF Persist
  <2>3. Busy' = Busy /\ missed' = missed /\ (polled' => Busy \subseteq agents \cup missed) /\ agents' = agents
    BY <2>1, TickFrame
  <2>4. ListingInv'
    BY <1>0, <1>9, <2>3 DEF Persist, WatcherInv, ListingInv
  <2>5. WorkInv'
    BY <1>0, <1>9, <2>3 DEF Persist, WatcherInv, WorkInv, ListingInv
  <2>6. QED
    BY <2>1, <2>2, <2>4, <2>5, TickEnds
<1>10. CASE EditListing
  <2>1. /\ Quiet /\ wpc \in {"act", "persist", "unlink"} /\ wpc' \in {"idle", "persist", "unlink"}
        /\ polled' \in BOOLEAN /\ (polled' => polled \/ grown = {}) /\ records' = records
        /\ wunsaved' \in BOOLEAN
    BY <1>10 DEF EditListing, WatcherInv, WatcherTypes
  <2>2. /\ listing' \in SUBSET Nat /\ sentCount' \in Nat /\ wmid' \in Nat /\ wsaved' \in Nat
        /\ shown' \in {shown, {}, agents} /\ orphans' \in SUBSET Nat /\ troubles' \in Nat
    BY <1>0, <1>10 DEF EditListing
  <2>3. Busy' = Busy /\ missed' = missed /\ (polled' => Busy \subseteq agents \cup missed) /\ agents' = agents
    BY <2>1, TickFrame
  <2>4. ListingInv'
    BY <1>0, <1>10, <2>3 DEF EditListing, WatcherInv, ListingInv
  <2>5. WorkInv'
    BY <1>0, <1>10, <2>3 DEF EditListing, WatcherInv, WorkInv, ListingInv
  <2>6. QED
    BY <2>1, <2>2, <2>4, <2>5, TickEnds
<1>11. CASE UnlinkFails
  <2>1. /\ Quiet /\ wpc \in {"act", "persist", "unlink"} /\ wpc' \in {"idle", "persist", "unlink"}
        /\ polled' \in BOOLEAN /\ (polled' => polled \/ grown = {}) /\ records' = records
        /\ wunsaved' \in BOOLEAN
    BY <1>11 DEF UnlinkFails, WatcherInv, WatcherTypes
  <2>2. /\ listing' \in SUBSET Nat /\ sentCount' \in Nat /\ wmid' \in Nat /\ wsaved' \in Nat
        /\ shown' \in {shown, {}, agents} /\ orphans' \in SUBSET Nat /\ troubles' \in Nat
    BY <1>0, <1>11 DEF UnlinkFails
  <2>3. Busy' = Busy /\ missed' = missed /\ (polled' => Busy \subseteq agents \cup missed) /\ agents' = agents
    BY <2>1, TickFrame
  <2>4. ListingInv'
    BY <1>0, <1>11, <2>3 DEF UnlinkFails, WatcherInv, ListingInv
  <2>5. WorkInv'
    BY <1>0, <1>11, <2>3 DEF UnlinkFails, WatcherInv, WorkInv, ListingInv
  <2>6. QED
    BY <2>1, <2>2, <2>4, <2>5, TickEnds
<1>12. CASE PersistFails
  <2>1. /\ Quiet /\ wpc \in {"act", "persist", "unlink"} /\ wpc' \in {"idle", "persist", "unlink"}
        /\ polled' \in BOOLEAN /\ (polled' => polled \/ grown = {}) /\ records' = records
        /\ wunsaved' \in BOOLEAN
    BY <1>12 DEF PersistFails, WatcherInv, WatcherTypes
  <2>2. /\ listing' \in SUBSET Nat /\ sentCount' \in Nat /\ wmid' \in Nat /\ wsaved' \in Nat
        /\ shown' \in {shown, {}, agents} /\ orphans' \in SUBSET Nat /\ troubles' \in Nat
    BY <1>0, <1>12 DEF PersistFails
  <2>3. Busy' = Busy /\ missed' = missed /\ (polled' => Busy \subseteq agents \cup missed) /\ agents' = agents
    BY <2>1, TickFrame
  <2>4. ListingInv'
    BY <1>0, <1>12, <2>3 DEF PersistFails, WatcherInv, ListingInv
  <2>5. WorkInv'
    BY <1>0, <1>12, <2>3 DEF PersistFails, WatcherInv, WorkInv, ListingInv
  <2>6. QED
    BY <2>1, <2>2, <2>4, <2>5, TickEnds
<1>13. QED
  BY <1>1, <1>2, <1>3, <1>4, <1>5, <1>6, <1>7, <1>8, <1>9, <1>10, <1>11, <1>12

LEMMA CrashOfWatcher == WatcherInv /\ WatcherCrash => WatcherInv'
<1> SUFFICES ASSUME WatcherInv, WatcherCrash PROVE WatcherInv'
  OBVIOUS
<1>1. silence' \in [SubAgents -> Silences] /\ \A a \in SubAgents : silence'[a] # Stale => silence'[a] = silence[a]
  BY DEF WatcherCrash, WatcherInv, WatcherTypes, Silences, Stale
<1>2. WatcherTypes'
  <2>1. troubles' \in Nat /\ records' \in Nat
    BY DEF WatcherCrash, Trouble, WatcherInv, WatcherTypes
  <2>2. /\ listing' \in SUBSET Nat /\ orphans' \in SUBSET Nat /\ missed' \in SUBSET SubAgents
        /\ wsaved' \in Nat
    BY DEF WatcherCrash, WatcherInv, WatcherTypes
  <2>3. QED
    BY <1>1, <2>1, <2>2 DEF WatcherCrash, WatcherInv, WatcherTypes
<1>3. ListingInv'
  BY DEF WatcherCrash, WatcherInv, WatcherTypes, ListingInv
<1>4. \A a \in Busy' : a \in missed' \/ silence'[a] \in Running
  BY DEF WatcherCrash, Busy, Existing
<1>5. ScanInv' /\ WorkInv'
  BY <1>4 DEF WatcherCrash, WatcherInv, ScanInv, WorkInv
<1>6. QED
  BY <1>2, <1>3, <1>5 DEF WatcherInv

LEMMA WatcherStep == WatcherInv /\ (WatcherNext \/ UNCHANGED watcherVars) => WatcherInv'
<1>1. WatcherInv /\ UNCHANGED watcherVars => WatcherInv'
  BY DEF watcherVars, fileVars, chatVars, trackVars, messageVars, leftVars, WatcherInv, WatcherTypes,
         ListingInv, ScanInv, WorkInv, Busy, Existing
<1>2. WatcherInv /\ WatcherNext => WatcherInv'
  BY FilesMove, ScanMoves, TickMoves, CrashOfWatcher DEF WatcherNext
<1>3. QED
  BY <1>1, <1>2

-----------------------------------------------------------------------------
(* The status bubble *)

LEMMA BubbleStart == BubbleInit => BubbleInv
<1> SUFFICES ASSUME BubbleInit PROVE BubbleInv
  OBVIOUS
<1>1. posted \in [Chats -> Nat] /\ owner \in Chats
  BY DEF BubbleInit, Chats
<1>2. BubbleTypes
  BY <1>1, BubbleAssumption DEF BubbleInit, BubbleTypes, Goals
<1>3. NumbersInv /\ IdInv /\ KeptInv /\ SeenInv
  BY <1>1 DEF BubbleInit, NumbersInv, IdInv, KeptInv, SeenInv
<1>4. QED
  BY <1>2, <1>3 DEF BubbleInv

LEMMA MessageFacts ==
  /\ \A c \in Chats, i \in Nat :
       Message(c, i) \in Messages /\ Message(c, i).chat = c /\ Message(c, i).id = i
  /\ \A m \in Messages : m.chat \in Chats /\ m.id \in Nat /\ m = Message(m.chat, m.id)
BY DEF Message, Messages

LEMMA FaultCounts ==
  ASSUME BubbleTypes, Fault
  PROVE  {turns', pushes', replies', faultsLeft', crashesLeft'} \subseteq Nat
BY DEF BubbleTypes, Fault

\* The number 0 is no message; a visible one has a number of its chat.
LEMMA NoZero ==
  ASSUME BubbleInv
  PROVE  /\ \A m \in bubbles \cup texts : m \in Messages /\ m.id # 0
         /\ \A c \in Chats : Message(c, 0) \notin bubbles \cup texts
         /\ \A c \in Chats : 0 <= posted[c]
BY MessageFacts DEF BubbleInv, BubbleTypes, NumbersInv, Given

\* The worker.
LEMMA BeginKeeps == BubbleInv /\ BeginTurn => BubbleInv'
<1> SUFFICES ASSUME BubbleInv, BeginTurn PROVE BubbleInv'
  OBVIOUS
<1> USE DEF BubbleInv
<1>1. PICK c \in Chats : /\ Moves(c)
                        /\ strays' = strays \cup (IF mid # 0 THEN Elsewhere(mid, c) ELSE {})
  BY DEF BeginTurn
<1>2. /\ UNCHANGED <<telegramVars, mid, saved, ppc, pchat, pmid, opc, late, unsaved>>
      /\ owner' = c /\ turns' \in Nat
  BY <1>1 DEF BeginTurn, Moves, telegramVars, statusVars, pushVars, clearVars, BubbleTypes
<1>3. BubbleTypes'
  BY <1>1, <1>2 DEF BeginTurn, Moves, Elsewhere, BubbleTypes, telegramVars, statusVars, pushVars, clearVars
<1>4. NumbersInv' /\ IdInv'
  BY <1>2 DEF NumbersInv, IdInv, Given, telegramVars
<1>5. KeptInv'
  BY <1>1, <1>2, NoZero DEF KeptInv, Moves, telegramVars
<1>6. Pushed' = Pushed /\ strays \subseteq strays'
  BY <1>1, <1>2 DEF Pushed
<1>7. Tracked' = {m \in bubbles : m.id = mid /\ m.chat = c}
  BY <1>2 DEF Tracked, telegramVars
<1>8. Tracked \subseteq strays' \cup Tracked'
  BY <1>1, <1>7, NoZero DEF Tracked, Elsewhere
<1>9. Tracked' \subseteq strays \cup Tracked \cup Pushed
  BY <1>7 DEF SeenInv
<1>10. SeenInv'
  <2>1. bubbles' \subseteq strays' \cup Tracked' \cup Pushed'
    BY <1>2, <1>6, <1>8 DEF SeenInv, telegramVars
  <2>2. ppc' = "persist" => Tracked' \subseteq strays' \cup Pushed'
    BY <1>2, <1>6, <1>9 DEF SeenInv
  <2>3. opc' = "forget" => Tracked' \subseteq strays'
    <3>1. CASE mid = 0
      BY <1>7, <3>1, NoZero
    <3>2. CASE mid # 0 /\ ppc # "persist"
      BY <1>2, <1>6, <1>9, <3>2 DEF SeenInv, IdInv, Pushed
    <3>3. CASE mid # 0 /\ ppc = "persist"
      <4>1. mid = pmid
        BY <3>3 DEF IdInv
      <4>2. opc = "forget" => bubbles \cap Pushed \subseteq strays
        BY <3>3, <4>1 DEF SeenInv
      <4>3. QED
        BY <1>2, <1>6, <1>7, <1>9, <4>2 DEF SeenInv
    <3>4. QED
      BY <3>1, <3>2, <3>3
  <2>4. ppc' = "persist" /\ mid' = pmid' => bubbles' \cap Pushed' \subseteq strays' \cup Tracked'
    BY <1>2, <1>6, <1>8 DEF SeenInv, telegramVars
  <2>5. QED
    BY <2>1, <2>2, <2>3, <2>4 DEF SeenInv
<1>11. QED
  BY <1>3, <1>4, <1>5, <1>10

\* The pushing thread: the call to Telegram.
LEMMA PushKeeps ==
  ASSUME BubbleInv, NEW bg \in BOOLEAN, Push(bg)
  PROVE  BubbleInv'
<1> USE DEF BubbleInv
<1>1. BubbleTypes'
  BY DEF Push, BubbleTypes, telegramVars, clearVars, markVars
<1>2. NumbersInv' /\ IdInv' /\ KeptInv'
  BY DEF Push, NumbersInv, IdInv, KeptInv, Given, telegramVars, markVars
<1>3. Tracked' = Tracked /\ Pushed' = Pushed /\ Pushed = {}
  BY DEF Push, Tracked, Pushed, telegramVars
<1>4. SeenInv'
  BY <1>3 DEF Push, SeenInv, telegramVars, markVars, clearVars
<1>5. QED
  BY <1>1, <1>2, <1>4

\* A new message gets the next number of its chat.
LEMMA AppearsKeeps ==
  ASSUME BubbleInv, Appears, UNCHANGED <<owner, mid, saved, opc>>, mid = 0, ppc = "send",
         NEW m \in Messages, m = Message(pchat, posted[pchat] + 1)
  PROVE  /\ posted' \in [Chats -> Nat] /\ bubbles' \in SUBSET Messages
         /\ texts' = texts /\ erased' = erased /\ bubbles' = bubbles \cup {m}
         /\ \A x \in bubbles' \cup texts' : x.id # 0 /\ x.id <= posted'[x.chat]
         /\ bubbles' \cap texts' = {} /\ Tracked' = {}
         /\ posted'[pchat] = posted[pchat] + 1 /\ m \notin texts /\ bubbles \subseteq strays
         /\ \A c \in Chats, i \in Nat : i <= posted[c] => i <= posted'[c]
<1> USE DEF BubbleInv
<1>1. pchat \in Chats /\ posted[pchat] + 1 \in Nat /\ posted[pchat] + 1 # 0 /\ ~(posted[pchat] + 1 <= posted[pchat])
  BY DEF BubbleTypes
<1>2. posted' = [posted EXCEPT ![pchat] = posted[pchat] + 1] /\ bubbles' = bubbles \cup {m}
      /\ texts' = texts /\ erased' = erased
  BY DEF Appears
<1>3. posted' \in [Chats -> Nat] /\ posted'[pchat] = posted[pchat] + 1
  BY <1>1, <1>2 DEF BubbleTypes
<1>4. m.chat = pchat /\ m.id = posted[pchat] + 1
  BY <1>1, MessageFacts
<1>5. \A c \in Chats : posted[c] <= posted'[c] /\ posted[c] \in Nat /\ posted'[c] \in Nat
  BY <1>1, <1>2 DEF BubbleTypes
<1>6. \A x \in bubbles \cup texts : x.chat \in Chats /\ x.id \in Nat /\ x.id # 0 /\ x.id <= posted[x.chat]
  BY MessageFacts DEF BubbleTypes, NumbersInv, Given
<1>7. \A x \in bubbles \cup texts : x.id <= posted'[x.chat]
  BY <1>5, <1>6
<1>8. m \notin texts
  BY <1>1, <1>4, <1>6
<1>9. posted'[m.chat] = posted[pchat] + 1
  BY <1>3, <1>4
<1>10. \A x \in bubbles' \cup texts' : x.id # 0 /\ x.id <= posted'[x.chat]
  BY <1>1, <1>2, <1>4, <1>6, <1>7, <1>9
<1>11. Tracked' = {} /\ Tracked = {}
  BY <1>1, <1>2, <1>4, <1>6 DEF Tracked
<1>12. \A c \in Chats, i \in Nat : i <= posted[c] => i <= posted'[c]
  BY <1>5
<1>13. QED
  BY <1>2, <1>3, <1>8, <1>10, <1>11, <1>12 DEF NumbersInv, SeenInv, Pushed, BubbleTypes

LEMMA SendKeeps ==
  ASSUME BubbleInv, PushSent \/ PushAnswerLost \/ PushFails
  PROVE  BubbleInv'
<1> USE DEF BubbleInv
<1>1. mid = 0 /\ ppc = "send" /\ UNCHANGED <<owner, mid, saved, opc>>
  BY DEF PushSent, PushAnswerLost, PushFails, IdInv, statusVars, clearVars
<1> DEFINE m == Message(pchat, posted[pchat] + 1)
<1>2. m \in Messages /\ posted[pchat] + 1 \in Nat /\ posted[pchat] + 1 # 0
      /\ posted[pchat] + 1 <= posted[pchat] + 1
  BY MessageFacts DEF BubbleTypes
<1>3. CASE PushSent
  <2> HIDE DEF m
  <2>0. /\ Appears /\ ppc' = "set" /\ pmid' = posted[pchat] + 1 /\ pchat' = pchat
        /\ strays' = strays /\ moved' = moved
    BY <1>3 DEF PushSent, markVars
  <2>1. /\ posted' \in [Chats -> Nat] /\ bubbles' \in SUBSET Messages
         /\ texts' = texts /\ erased' = erased /\ bubbles' = bubbles \cup {m}
         /\ \A x \in bubbles' \cup texts' : x.id # 0 /\ x.id <= posted'[x.chat]
         /\ bubbles' \cap texts' = {} /\ Tracked' = {}
         /\ posted'[pchat] = posted[pchat] + 1 /\ m \notin texts /\ bubbles \subseteq strays
         /\ \A c \in Chats, i \in Nat : i <= posted[c] => i <= posted'[c]
    BY <1>1, <1>2, <2>0, AppearsKeeps DEF m
  <2>2. Message(pchat', pmid') = m
    BY <2>0 DEF m
  <2>3. late' \in SUBSET Messages
    <3>1. late' = late \cup Late(m)
      BY <1>3, <2>0 DEF PushSent, m
    <3>2. Late(m) \subseteq {m}
      BY DEF Late
    <3>3. QED
      BY <1>2, <3>1, <3>2 DEF BubbleTypes
  <2>4. BubbleTypes'
    BY <1>2, <1>3, <2>0, <2>1, <2>3 DEF PushSent, BubbleTypes, statusVars, clearVars, countVars
  <2>5. NumbersInv'
    BY <1>2, <2>0, <2>1, <2>2 DEF NumbersInv, Given
  <2>6. IdInv' /\ KeptInv'
    BY <1>1, <2>0, <2>1 DEF IdInv, KeptInv, BubbleTypes
  <2>7. Pushed' = {m}
    BY <2>0, <2>2 DEF Pushed
  <2>8. SeenInv'
    BY <2>0, <2>1, <2>7 DEF SeenInv
  <2>9. QED
    BY <2>4, <2>5, <2>6, <2>8
<1>4. CASE PushAnswerLost
  <2> HIDE DEF m
  <2>0. /\ Appears /\ ppc' \in {"send", "idle"} /\ pmid' = pmid /\ pchat' = pchat
        /\ strays' = strays \cup {m} /\ moved' = moved /\ Fault
    BY <1>4 DEF PushAnswerLost, m
  <2>1. /\ posted' \in [Chats -> Nat] /\ bubbles' \in SUBSET Messages
         /\ texts' = texts /\ erased' = erased /\ bubbles' = bubbles \cup {m}
         /\ \A x \in bubbles' \cup texts' : x.id # 0 /\ x.id <= posted'[x.chat]
         /\ bubbles' \cap texts' = {} /\ Tracked' = {}
         /\ bubbles \subseteq strays
         /\ \A c \in Chats, i \in Nat : i <= posted[c] => i <= posted'[c]
    BY <1>1, <1>2, <2>0, AppearsKeeps DEF m
  <2>2. BubbleTypes'
    BY <1>2, <1>4, <2>0, <2>1, FaultCounts DEF PushAnswerLost, BubbleTypes, statusVars, clearVars
  <2>3. NumbersInv' /\ IdInv' /\ KeptInv'
    BY <1>1, <2>0, <2>1 DEF NumbersInv, Given, IdInv, KeptInv, BubbleTypes
  <2>4. SeenInv'
    BY <2>0, <2>1 DEF SeenInv
  <2>5. QED
    BY <2>2, <2>3, <2>4
<1>5. CASE PushFails
  <2>1. BubbleTypes'
    BY <1>5, FaultCounts DEF PushFails, BubbleTypes, telegramVars, statusVars, clearVars, markVars
  <2>2. NumbersInv' /\ IdInv' /\ KeptInv'
    BY <1>5 DEF PushFails, NumbersInv, IdInv, KeptInv, Given, telegramVars, statusVars, markVars
  <2>3. Tracked' = Tracked /\ Pushed' = Pushed
    BY <1>5 DEF PushFails, Tracked, Pushed, telegramVars, statusVars
  <2>4. SeenInv'
    BY <1>5, <2>3 DEF PushFails, SeenInv, telegramVars, clearVars, markVars
  <2>5. QED
    BY <2>1, <2>2, <2>4
<1>6. QED
  BY <1>3, <1>4, <1>5


\* The pushing thread: the number.
LEMMA NumberKeeps ==
  ASSUME BubbleInv, PushSet \/ PushPersist \/ PushPersistFails
  PROVE  BubbleInv'
<1> USE DEF BubbleInv
<1> DEFINE m == Message(pchat, pmid)
<1>0. m \in Messages /\ m.chat = pchat /\ m.id = pmid /\ Late(m) \subseteq {m}
  BY MessageFacts DEF BubbleTypes, Late
<1>1. CASE PushSet
  <2>0. /\ UNCHANGED <<owner, telegramVars, saved, pchat, pmid, opc, moved>>
        /\ ppc = "set" /\ ppc' = "persist" /\ mid' = pmid /\ mid = 0
        /\ strays' = strays \cup (IF opc = "forget" \/ pchat # owner THEN {m} ELSE {})
        /\ late' = late \cup Late(m)
    BY <1>1 DEF PushSet, IdInv, clearVars
  <2>1. BubbleTypes'
    BY <1>0, <1>1, <2>0 DEF PushSet, BubbleTypes, telegramVars, clearVars, countVars
  <2>2. NumbersInv' /\ IdInv'
    BY <2>0 DEF NumbersInv, IdInv, Given, telegramVars
  <2>3. KeptInv'
    BY <2>0 DEF KeptInv, NumbersInv, Given, telegramVars
  <2>4. Pushed = {m} /\ Pushed' = {m} /\ Tracked = {}
    BY <2>0, NoZero DEF Pushed, Tracked
  <2>5. Tracked' = {x \in bubbles : x.id = pmid /\ x.chat = owner}
    BY <2>0 DEF Tracked, telegramVars
  <2>6. bubbles' \subseteq strays' \cup {m} /\ bubbles' = bubbles
    BY <2>0, <2>4 DEF SeenInv, telegramVars
  <2>7. m \in bubbles => m \in strays' \cup Tracked'
    BY <1>0, <2>0, <2>5
  <2>8. opc' = "forget" => m \in strays'
    BY <2>0
  <2>9. SeenInv'
    BY <2>4, <2>5, <2>6, <2>7, <2>8 DEF SeenInv
  <2>10. QED
    BY <2>1, <2>2, <2>3, <2>9
<1>2. CASE PushPersist \/ PushPersistFails
  <2>0. /\ UNCHANGED <<agent, owner, active, telegramVars, mid, background, opc, goal, moved, late>>
        /\ ppc = "persist" /\ ppc' = "idle" /\ pchat' = Home /\ pmid' = 0
        /\ strays' = strays \cup (IF mid # pmid THEN {m} ELSE {})
    BY <1>2 DEF PushPersist, PushPersistFails, PushOver, clearVars
  <2>1. /\ saved' \in {saved, 0, pmid} /\ unsaved' \in BOOLEAN
        /\ saved' = pmid \/ unsaved'
    BY <1>2 DEF PushPersist, PushPersistFails
  <2>2. {turns', pushes', replies', faultsLeft', crashesLeft'} \subseteq Nat
    BY <1>2, FaultCounts DEF PushPersist, PushPersistFails, BubbleTypes, countVars
  <2>3. BubbleTypes'
    <3>0. Home \in Chats
      BY DEF Chats
    <3>1. saved' \in Nat /\ strays' \in SUBSET Messages /\ pchat' \in Chats
      <4>1. saved \in Nat /\ pmid \in Nat /\ strays \in SUBSET Messages
        BY DEF BubbleTypes
      <4>2. QED
        BY <1>0, <2>0, <2>1, <3>0, <4>1
    <3>2. QED
      BY <2>0, <2>1, <2>2, <3>1 DEF BubbleTypes, telegramVars
  <2>4. NumbersInv' /\ IdInv'
    BY <2>0, <2>1 DEF NumbersInv, IdInv, Given, telegramVars
  <2>5. KeptInv'
    <3>1. owner \in Chats
      BY DEF BubbleTypes
    <3>2. CASE moved
      BY <2>0, <3>2 DEF KeptInv
    <3>3. CASE ~moved
      <4>1. Message(owner, pmid) \notin texts /\ pmid <= posted[owner]
        BY <2>0, <3>3 DEF KeptInv, NumbersInv, Given
      <4>2. Message(owner, 0) \notin texts /\ 0 <= posted[owner]
        BY <3>1, NoZero
      <4>3. /\ erased = {} /\ Message(owner, mid) \notin texts /\ mid <= posted[owner]
            /\ Message(owner, saved) \notin texts /\ saved <= posted[owner]
        BY <3>3 DEF KeptInv
      <4>4. Message(owner, saved') \notin texts /\ saved' <= posted[owner]
        BY <2>1, <4>1, <4>2, <4>3
      <4>5. QED
        BY <2>0, <4>3, <4>4 DEF KeptInv, telegramVars
    <3>4. QED
      BY <3>2, <3>3
  <2>6. Pushed = {m} /\ Pushed' = {} /\ Tracked' = Tracked
    BY <2>0 DEF Pushed, Tracked, telegramVars
  <2>7. SeenInv'
    BY <2>0, <2>6 DEF SeenInv, telegramVars
  <2>8. QED
    BY <2>3, <2>4, <2>5, <2>7
<1>3. QED
  BY <1>1, <1>2

\* The outbound thread deletes what is tracked, or tries to.
LEMMA DeleteFacts ==
  ASSUME BubbleTypes, NEW c \in Chats, NEW i \in Nat, Delete(c, i)
  PROVE  /\ bubbles' = bubbles \ {Message(c, i)} /\ UNCHANGED <<posted, texts>>
         /\ erased' \in SUBSET Messages /\ bubbles' \in SUBSET Messages
         /\ Message(c, i) \notin texts => erased' = erased
BY DEF Delete, BubbleTypes

LEMMA DeleteKeeps ==
  ASSUME BubbleInv, NEW g \in Goals, ClearDelete(g) \/ ClearDeleteFails(g)
  PROVE  BubbleInv'
<1> USE DEF BubbleInv
<1>1. /\ UNCHANGED <<owner, posted, texts, statusVars, pushVars, moved, unsaved>> /\ opc' = "forget" /\ opc = "idle"
      /\ agent' = agent /\ (agent = "claude" => ppc = "idle")
  BY DEF ClearDelete, ClearDeleteFails, Delete, telegramVars, markVars, OutboundFree
<1>2. Pushed' = Pushed
  BY <1>1 DEF Pushed, pushVars
<1>3. CASE ClearDelete(g) /\ mid # 0
  <2>1. /\ bubbles' = bubbles \ {Message(owner, mid)}
        /\ erased' \in SUBSET Messages /\ bubbles' \in SUBSET Messages
        /\ Message(owner, mid) \notin texts => erased' = erased
    BY <1>3, DeleteFacts DEF ClearDelete, BubbleTypes
  <2>2. BubbleTypes'
    BY <1>1, <1>3, <2>1 DEF ClearDelete, BubbleTypes, statusVars, pushVars, markVars, countVars
  <2>3. NumbersInv' /\ IdInv' /\ KeptInv'
    BY <1>1, <2>1 DEF NumbersInv, IdInv, KeptInv, Given, statusVars, pushVars
  <2>4. Tracked' = {} /\ Tracked \subseteq {Message(owner, mid)}
    BY <1>1, <2>1, NoZero, MessageFacts DEF Tracked, statusVars, BubbleTypes
  <2>5. SeenInv'
    BY <1>1, <1>2, <1>3, <2>1, <2>4 DEF ClearDelete, SeenInv, markVars, statusVars, pushVars
  <2>6. QED
    BY <2>2, <2>3, <2>5
<1>4. CASE (ClearDelete(g) /\ mid = 0) \/ ClearDeleteFails(g)
  <2>1. UNCHANGED telegramVars
    BY <1>4 DEF ClearDelete, ClearDeleteFails
  <2>2. Tracked' = Tracked
    BY <1>1, <2>1 DEF Tracked, telegramVars, statusVars
  <2>3. strays' \in {strays, strays \cup Tracked} /\ Tracked \subseteq strays'
    BY <1>4, NoZero DEF ClearDelete, ClearDeleteFails, markVars, Tracked
  <2>4. {turns', pushes', replies', faultsLeft', crashesLeft'} \subseteq Nat /\ late' = late
    BY <1>4, FaultCounts DEF ClearDelete, ClearDeleteFails, countVars, markVars, BubbleTypes
  <2>5. Tracked \subseteq Messages
    BY DEF Tracked, BubbleTypes
  <2>6. active' = active /\ goal' \in Goals
    BY <1>4 DEF ClearDelete, ClearDeleteFails
  <2>7. BubbleTypes'
    BY <1>1, <2>1, <2>3, <2>4, <2>5, <2>6 DEF BubbleTypes, telegramVars, statusVars, pushVars
  <2>8. NumbersInv' /\ IdInv' /\ KeptInv'
    BY <1>1, <2>1 DEF NumbersInv, IdInv, KeptInv, Given, telegramVars, statusVars, pushVars
  <2>9. SeenInv'
    BY <1>1, <1>2, <2>1, <2>2, <2>3 DEF SeenInv, telegramVars, statusVars, pushVars
  <2>10. QED
    BY <2>7, <2>8, <2>9
<1>5. QED
  BY <1>3, <1>4

\* It forgets the number.
LEMMA ForgetKeeps == BubbleInv /\ ClearForget => BubbleInv'
<1> SUFFICES ASSUME BubbleInv, ClearForget PROVE BubbleInv'
  OBVIOUS
<1> USE DEF BubbleInv
<1>1. /\ UNCHANGED <<agent, owner, active, telegramVars, saved, pushVars, goal, strays, moved, late>>
      /\ UNCHANGED countVars /\ background' = FALSE /\ unsaved' = FALSE
      /\ mid' = 0 /\ opc = "forget" /\ opc' = "unlink"
  BY DEF ClearForget
<1>2. BubbleTypes'
  BY <1>1 DEF BubbleTypes, telegramVars, pushVars, countVars
<1>3. NumbersInv' /\ IdInv'
  BY <1>1 DEF NumbersInv, IdInv, Given, telegramVars, pushVars
<1>4. KeptInv'
  <2>1. Message(owner, 0) \notin texts /\ 0 <= posted[owner]
    BY NoZero DEF BubbleTypes
  <2>2. QED
    BY <1>1, <2>1 DEF KeptInv, telegramVars, pushVars
<1>5. Tracked' = {} /\ Pushed' = Pushed
  BY <1>1, NoZero DEF Tracked, Pushed, pushVars, telegramVars
<1>6. ppc = "persist" => pmid # 0
  BY DEF NumbersInv, Given
<1>7. SeenInv'
  BY <1>1, <1>5, <1>6 DEF SeenInv, pushVars, telegramVars
<1>8. QED
  BY <1>2, <1>3, <1>4, <1>7

\* The file is removed, and a text takes the next number.
LEMMA UnlinkKeeps == BubbleInv /\ ClearUnlink => BubbleInv'
<1> SUFFICES ASSUME BubbleInv, ClearUnlink PROVE BubbleInv'
  OBVIOUS
<1> USE DEF BubbleInv
<1> DEFINE n == posted[owner] + 1
<1> DEFINE t == Message(owner, n)
<1>0. saved' \in {saved, 0} /\ faultsLeft' \in Nat
  BY DEF ClearUnlink, FileGoes, BubbleTypes
<1>1. /\ UNCHANGED <<agent, owner, active, bubbles, erased, pushVars, mid, background, strays, moved, late>>
      /\ goal' = "text" /\ opc = "unlink" /\ opc' \in {"idle", "end"}
      /\ turns' = turns /\ pushes' = pushes /\ crashesLeft' = crashesLeft
      /\ unsaved' = (unsaved \/ (mid # 0 /\ ppc # "persist" /\ saved' = 0))
  BY DEF ClearUnlink
<1>2. owner \in Chats /\ n \in Nat /\ n # 0 /\ n <= n /\ t \in Messages /\ t.chat = owner /\ t.id = n
      /\ ~(n <= posted[owner]) /\ posted[owner] <= n
  BY MessageFacts DEF BubbleTypes
<1>3. \/ /\ posted' = [posted EXCEPT ![owner] = n] /\ texts' = texts \cup {t} /\ replies' = replies + 1
      \/ posted' = posted /\ texts' = texts /\ replies' = replies
  BY DEF ClearUnlink
<1> HIDE DEF n, t
<1>4. /\ posted' \in [Chats -> Nat] /\ texts' \in SUBSET Messages /\ replies' \in Nat
      /\ \A c \in Chats : posted[c] <= posted'[c]
  BY <1>2, <1>3 DEF BubbleTypes
<1>5. BubbleTypes'
  <2>1. unsaved' \in BOOLEAN /\ goal' \in Goals /\ saved' \in Nat
    BY <1>0, <1>1 DEF Goals, BubbleTypes
  <2>2. QED
    BY <1>0, <1>1, <1>4, <2>1 DEF BubbleTypes, pushVars
<1>6. \A x \in bubbles \cup texts : x.chat \in Chats /\ x.id \in Nat /\ x.id # 0 /\ x.id <= posted[x.chat]
  BY MessageFacts DEF BubbleTypes, NumbersInv, Given
<1>7. \A c \in Chats, i \in Nat : i <= posted[c] => i <= posted'[c]
  BY <1>4 DEF BubbleTypes
<1>8. \A x \in bubbles' \cup texts' : Given(x.chat, x.id)'
  <2>1. CASE texts' = texts
    BY <1>1, <1>6, <1>7, <2>1 DEF Given
  <2>2. CASE texts' = texts \cup {t} /\ posted' = [posted EXCEPT ![owner] = n]
    <3>1. posted'[owner] = n
      BY <1>2, <2>2 DEF BubbleTypes
    <3>2. QED
      BY <1>1, <1>2, <1>6, <1>7, <2>2, <3>1 DEF Given
  <2>3. QED
    BY <1>3, <2>1, <2>2
<1>9. t \notin bubbles
  BY <1>2, <1>6
<1>10. \A c \in Chats, i \in Nat : i <= posted[c] => Message(c, i) # t
  BY <1>2, MessageFacts
<1>11. NumbersInv'
  <2>1. bubbles' \cap texts' = {}
    BY <1>1, <1>3, <1>9 DEF NumbersInv
  <2>2. ppc' \in {"set", "persist"} => Given(pchat, pmid)' /\ Message(pchat', pmid') \notin texts'
    BY <1>1, <1>3, <1>7, <1>10 DEF NumbersInv, Given, pushVars, BubbleTypes
  <2>3. QED
    BY <1>8, <2>1, <2>2 DEF NumbersInv
<1>12. Message(owner, 0) \notin texts' /\ 0 <= posted'[owner]
  BY <1>2, <1>4, <1>8, MessageFacts DEF Given
<1>13. IdInv'
  BY <1>0, <1>1 DEF IdInv, pushVars
<1>14. KeptInv'
  <2>1. CASE moved
    BY <1>1, <2>1 DEF KeptInv
  <2>2. CASE ~moved
    <3>1. \A i \in {mid, saved} : Message(owner, i) \notin texts' /\ i <= posted'[owner]
      <4>1. \A i \in {mid, saved} : i \in Nat /\ Message(owner, i) \notin texts /\ i <= posted[owner]
        BY <2>2 DEF KeptInv, BubbleTypes
      <4>2. QED
        BY <1>2, <1>3, <1>7, <1>10, <4>1
    <3>2. QED
      BY <1>0, <1>1, <1>12, <2>2, <3>1 DEF KeptInv, pushVars
  <2>3. QED
    BY <2>1, <2>2
<1>15. Tracked' = Tracked /\ Pushed' = Pushed
  BY <1>1 DEF Tracked, Pushed, pushVars
<1>16. SeenInv'
  BY <1>1, <1>15 DEF SeenInv, pushVars
<1>17. QED
  BY <1>5, <1>11, <1>13, <1>14, <1>16

LEMMA EndKeeps == BubbleInv /\ EndTurn => BubbleInv'
<1> SUFFICES ASSUME BubbleInv, EndTurn PROVE BubbleInv'
  OBVIOUS
<1> USE DEF BubbleInv
<1>1. BubbleTypes'
  BY DEF EndTurn, BubbleTypes, telegramVars, statusVars, pushVars, markVars, countVars
<1>2. NumbersInv' /\ IdInv' /\ KeptInv'
  BY DEF EndTurn, NumbersInv, IdInv, KeptInv, Given, telegramVars, statusVars, pushVars, markVars
<1>3. Tracked' = Tracked /\ Pushed' = Pushed
  BY DEF EndTurn, Tracked, Pushed, telegramVars, statusVars, pushVars
<1>4. SeenInv'
  BY <1>3 DEF EndTurn, SeenInv, telegramVars, statusVars, pushVars, markVars
<1>5. QED
  BY <1>1, <1>2, <1>4

\* After a crash the number in the file is the tracked one, except during a push or if it is unsaved.
LEMMA CrashOfBubble == BubbleInv /\ CrashAndRestart => BubbleInv'
<1> SUFFICES ASSUME BubbleInv, CrashAndRestart PROVE BubbleInv'
  OBVIOUS
<1> USE DEF BubbleInv
<1> DEFINE old == Message(Home, saved)
<1>0. PICK deleted \in BOOLEAN, removed \in BOOLEAN :
        /\ faultsLeft' = faultsLeft \/ (faultsLeft > 0 /\ faultsLeft' = faultsLeft - 1)
        /\ IF saved # 0 /\ deleted THEN Delete(Home, saved) ELSE UNCHANGED telegramVars
        /\ strays' = strays \cup Unrecoverable \cup (IF deleted THEN {} ELSE bubbles \cap {old})
        /\ saved' = IF removed THEN 0 ELSE saved
  BY DEF CrashAndRestart
<1>1. /\ UNCHANGED <<agent, late, turns, pushes, replies>> /\ Moves(Home)
      /\ mid' = 0 /\ saved' \in {0, saved} /\ ppc' = "idle" /\ pchat' = Home /\ pmid' = 0
      /\ opc' = "idle" /\ goal' = "text"
      /\ strays \cup Unrecoverable \subseteq strays'
      /\ strays' \subseteq strays \cup bubbles
      /\ active' = FALSE /\ background' = FALSE /\ unsaved' = FALSE
      /\ crashesLeft' \in Nat /\ faultsLeft' \in Nat
  BY <1>0 DEF CrashAndRestart, BubbleTypes, Unrecoverable
<1>2. Home \in Chats /\ owner' = Home
  BY <1>1 DEF Chats, Moves
<1>3. /\ bubbles' \in {bubbles, bubbles \ {old}}
      /\ old \in bubbles' /\ saved # 0 => old \in strays'
      /\ UNCHANGED <<posted, texts>> /\ erased' \in SUBSET Messages
      /\ saved = 0 \/ old \notin texts => erased' = erased
  <2>1. CASE saved # 0 /\ deleted
    BY <1>0, <1>2, <2>1, DeleteFacts DEF BubbleTypes
  <2>2. CASE ~(saved # 0 /\ deleted)
    <3>1. UNCHANGED <<posted, bubbles, texts, erased>> /\ erased \in SUBSET Messages
      BY <1>0, <2>2 DEF telegramVars, BubbleTypes
    <3>2. old \in bubbles /\ saved # 0 => old \in strays'
      BY <1>0, <2>2
    <3>3. QED
      BY <3>1, <3>2
  <2>3. QED
    BY <2>1, <2>2
<1> HIDE DEF old
<1>5. BubbleTypes'
  <2>1. bubbles' \in SUBSET Messages /\ strays' \in SUBSET Messages /\ saved' \in Nat
    <3>1. bubbles \in SUBSET Messages /\ strays \in SUBSET Messages /\ saved \in Nat
      BY DEF BubbleTypes
    <3>2. QED
      BY <1>1, <1>3, <3>1
  <2>2. QED
    BY <1>1, <1>2, <1>3, <2>1 DEF BubbleTypes, Moves, Goals
<1>6. NumbersInv' /\ IdInv'
  BY <1>1, <1>3 DEF NumbersInv, IdInv, Given
<1>7. KeptInv'
  <2>1. ~moved' => ~moved /\ (owner = Home \/ saved = 0)
    BY <1>1 DEF Moves
  <2>2. ~moved' => erased' = {}
    BY <1>3, <2>1 DEF KeptInv, old
  <2>3. Message(Home, 0) \notin texts /\ 0 <= posted[Home]
    BY <1>2, NoZero
  <2>4. ~moved' => Message(Home, saved) \notin texts /\ saved <= posted[Home]
    BY <2>1, <2>3 DEF KeptInv
  <2>5. QED
    BY <1>1, <1>2, <1>3, <2>2, <2>3, <2>4 DEF KeptInv
<1>8. Tracked' = {} /\ Pushed' = {}
  BY <1>1, <1>3, NoZero DEF Tracked, Pushed
<1>9. ASSUME NEW x \in bubbles', x \notin strays' PROVE FALSE
  <2>1. x \in bubbles /\ x \notin strays /\ x.chat = Home /\ x \notin Pushed /\ x \in Messages
    BY <1>1, <1>3, <1>9, NoZero DEF Unrecoverable, Pushed
  <2>2. x \in Tracked /\ mid # 0
    BY <2>1, NoZero DEF SeenInv, Tracked
  <2>3. x = Message(Home, mid)
    BY <2>1, <2>2, MessageFacts DEF Tracked
  <2>4. ppc # "persist" /\ ~unsaved
    <3>1. x \notin Unrecoverable
      BY <1>1, <1>9
    <3>2. QED
      BY <2>1, <2>2, <3>1 DEF SeenInv, Unrecoverable
  <2>5. saved = mid
    BY <2>2, <2>4 DEF IdInv
  <2>6. QED
    BY <1>3, <1>9, <2>2, <2>3, <2>5 DEF old
<1>10. SeenInv'
  BY <1>1, <1>8, <1>9 DEF SeenInv
<1>11. QED
  BY <1>5, <1>6, <1>7, <1>10

LEMMA BubbleStep == BubbleInv /\ (BubbleNext \/ UNCHANGED bubbleVars) => BubbleInv'
<1>1. BubbleInv /\ UNCHANGED bubbleVars => BubbleInv'
  <2> SUFFICES ASSUME BubbleInv, UNCHANGED bubbleVars PROVE BubbleInv'
    OBVIOUS
  <2> USE DEF BubbleInv, bubbleVars, telegramVars, statusVars, pushVars, clearVars, markVars, countVars
  <2>1. BubbleTypes' /\ NumbersInv' /\ IdInv' /\ KeptInv'
    BY DEF BubbleTypes, NumbersInv, IdInv, KeptInv, Given
  <2>2. Tracked' = Tracked /\ Pushed' = Pushed
    BY DEF Tracked, Pushed
  <2>3. SeenInv'
    BY <2>2 DEF SeenInv
  <2>4. QED
    BY <2>1, <2>3
<1>2. BubbleInv /\ BubbleNext => BubbleInv'
  BY BeginKeeps, PushKeeps, SendKeeps, NumberKeeps, DeleteKeeps, ForgetKeeps, UnlinkKeeps,
     EndKeeps, CrashOfBubble DEF BubbleNext
<1>3. QED
  BY <1>1, <1>2

-----------------------------------------------------------------------------
(* The theorems *)

LEMMA InvStep == BubbleInv /\ WatcherInv /\ [Next]_vars => (BubbleInv /\ WatcherInv)'
BY BubbleStep, WatcherStep DEF Next, vars

\* The two invariants hold of every behaviour.
THEOREM ProgressInvariant == FairSpec => [](BubbleInv /\ WatcherInv)
<1>1. Init => BubbleInv /\ WatcherInv
  BY BubbleStart, WatcherStart DEF Init
<1>2. QED
  BY <1>1, InvStep, PTL DEF FairSpec

\* Every variable of both parts keeps its type (TypeOK).
THEOREM TypeCorrect == FairSpec => []TypeOK
<1>1. BubbleInv /\ WatcherInv => TypeOK
  BY DEF BubbleInv, WatcherInv, TypeOK
<1>2. QED
  BY <1>1, ProgressInvariant, PTL

\* Visible progress messages are tracked, being sent, or lost for a recorded reason
\* (_status_push, _status_clear and _cleanup_orphan_status of attach.py, tick of background.py).
THEOREM NothingStraysUnnoticed == FairSpec => []StraysHaveCauses
<1>1. BubbleInv /\ WatcherInv => StraysHaveCauses
  BY DEF BubbleInv, SeenInv, WatcherInv, ListingInv, StraysHaveCauses, Pushed
<1>2. QED
  BY <1>1, ProgressInvariant, PTL

\* No deletion takes a reply while the recipient stays (_status_clear, _cleanup_orphan_status).
THEOREM RepliesStay == FairSpec => []RepliesAreKept
<1>1. BubbleInv => RepliesAreKept
  BY DEF BubbleInv, KeptInv, RepliesAreKept
<1>2. QED
  BY <1>1, ProgressInvariant, PTL

\* A sub-agent that works is listed once the watcher has polled (scan and tick of background.py).
THEOREM WorkIsShown == FairSpec => []WorkIsListed
<1>1. WatcherInv => WorkIsListed
  BY DEF WatcherInv, WorkInv, WorkIsListed, Busy
<1>2. QED
  BY <1>1, ProgressInvariant, PTL

=============================================================================
